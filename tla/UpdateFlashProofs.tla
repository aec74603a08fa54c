------------------------- MODULE UpdateFlashProofs -------------------------
(***************************************************************************)
(* UpdateFlash proved for every set of partitions, files, contents and     *)
(* command lines, and any number of invocations, errors and kills: what    *)
(* success means, that the checks come before the first change, that       *)
(* nothing is written under a mounted file system, and that the program    *)
(* implements FlashUpdate.                                                 *)
(***************************************************************************)
EXTENDS UpdateFlash, WellFoundedInduction, SequenceTheorems, TLAPS

-----------------------------------------------------------------------------
(* A set of natural numbers that is not empty has a least element.         *)
LEMMA NatMin ==
  ASSUME NEW T \in SUBSET Nat, T # {}
  PROVE  \E x \in T : \A y \in T : x <= y
<1> DEFINE R == OpToRel(<, Nat)
<1>1. IsWellFoundedOn(R, Nat)
  BY NatLessThanWellFounded
<1>2. \A x, y \in Nat : <<y, x>> \in R <=> y < x
  BY DEF OpToRel
<1> HIDE DEF R
<1>3. PICK x \in T : \A y \in T : ~(<<y, x>> \in R)
  BY <1>1, WFMin
<1>4. ASSUME NEW y \in T PROVE x <= y
  <2>1. x \in Nat /\ y \in Nat /\ ~(<<y, x>> \in R)
    BY <1>3
  <2>2. ~(y < x)
    BY <1>2, <2>1
  <2> QED
    BY <2>1, <2>2
<1> QED
  BY <1>4

-----------------------------------------------------------------------------
(* Lemmas about the operators of the model.                                *)

(* A command line as the assumption describes it.                          *)
LEMMA CommandType ==
  ASSUME NEW c \in CommandLines
  PROVE  /\ c.opt \in [OptNames -> BOOLEAN]
         /\ Len(c.args) \in Nat \ {0} /\ 1 \in 1..Len(c.args)
         /\ \A k \in 1..Len(c.args) :
              /\ c.args[k].file \in Files /\ c.args[k].part \in Partitions
              /\ c.args[k].crc \in Seq(Units)
              /\ BaseName[c.args[k].file] \in NamesOf
<1>1. /\ c.opt \in [OptNames -> BOOLEAN]
      /\ Len(c.args) \in Nat \ {0}
      /\ \A k \in 1..Len(c.args) :
           c.args[k].file \in Files /\ c.args[k].part \in Partitions /\ c.args[k].crc \in Seq(Units)
  BY ConstantsAssumption
<1>2. \A f \in Files : BaseName[f] \in NamesOf
  BY DEF NamesOf
<1>3. 1 \in 1..Len(c.args)
  BY <1>1
<1> QED
  BY <1>1, <1>2, <1>3

(* The one unit of a sequence of length one.                               *)
LEMMA OneUnit ==
  ASSUME NEW S, NEW w, NEW q \in Seq(S), Len(q) = 1, q[1] = w
  PROVE  w \in S
<1>1. 1 \in 1..Len(q)
  OBVIOUS
<1> QED
  BY <1>1, ElementOfSeq

(* The markers are sequences of units that no file has.                    *)
LEMMA MarkersDiffer ==
  /\ Old # NoFile /\ Old # Torn /\ Torn # NoFile
  /\ Old \notin Seq(Units) /\ Torn \notin Seq(Units) /\ NoFile \notin Seq(Units)
<1>1. ASSUME NEW w \in {"no file", "old", "torn"}, <<w>> \in Seq(Units) PROVE FALSE
  <2>1. Len(<<w>>) = 1 /\ <<w>>[1] = w
    OBVIOUS
  <2> QED
    BY <1>1, <2>1, OneUnit, ConstantsAssumption
<1>2. Old[1] = "old" /\ NoFile[1] = "no file" /\ Torn[1] = "torn"
  BY DEF Old, NoFile, Torn
<1>3. <<"old">> \notin Seq(Units) /\ <<"torn">> \notin Seq(Units) /\ <<"no file">> \notin Seq(Units)
  BY <1>1
<1> QED
  BY <1>2, <1>3 DEF NoFile, Old, Torn

LEMMA ContentsType ==
  ASSUME NEW c \in Contents
  PROVE  c \in Seq(Units) /\ Len(c) \in Nat /\ c # NoFile /\ c # Old /\ c # Torn
<1>1. c \in Seq(Units)
  BY ConstantsAssumption
<1> QED
  BY <1>1, MarkersDiffer, LenProperties

(* What a file holds after it was written without O_TRUNC.                 *)
LEMMA OverlayType ==
  ASSUME NEW new \in Seq(Units), NEW old \in Seq(Units) \cup {NoFile}
  PROVE  /\ Overlay(new, old) \in Seq(Units)
         /\ Len(Overlay(new, old)) = Len(new) => Overlay(new, old) = new
         /\ old = NoFile \/ Len(old) <= Len(new) => Overlay(new, old) = new
         /\ \A n \in Nat : Len(new) <= n /\ (old = NoFile \/ Len(old) <= n)
                             => Len(Overlay(new, old)) <= n
<1>1. CASE old = NoFile \/ Len(old) <= Len(new)
  BY <1>1 DEF Overlay
<1>2. CASE ~(old = NoFile \/ Len(old) <= Len(new))
  <2> DEFINE rest == SubSeq(old, Len(new) + 1, Len(old))
  <2>1. old \in Seq(Units) /\ Len(old) \in Nat /\ Len(new) \in Nat /\ Len(new) < Len(old)
    BY <1>2, LenProperties
  <2>2. rest \in Seq(Units) /\ Len(rest) = Len(old) - Len(new)
    BY <2>1, SubSeqProperties
  <2>3. new \o rest \in Seq(Units) /\ Len(new \o rest) = Len(old)
    BY <2>1, <2>2, ConcatProperties
  <2>4. Overlay(new, old) = new \o rest
    BY <1>2 DEF Overlay
  <2> QED
    BY <1>2, <2>1, <2>3, <2>4
<1> QED
  BY <1>1, <1>2

LEMMA PrefixType ==
  ASSUME NEW s \in Seq(Units), NEW n \in 0..(Len(s) - 1)
  PROVE  SubSeq(s, 1, n) \in Seq(Units) /\ Len(SubSeq(s, 1, n)) <= Len(s)
  BY SubSeqProperties, LenProperties

(* The current entry and what it names.                                    *)
LEMMA EntryFacts ==
  ASSUME TypeOK
  PROVE  /\ opt \in [OptNames -> BOOLEAN] /\ Len(args) \in Nat \ {0} /\ 1 \in Entries
         /\ e \in Entries /\ target \in Partitions /\ source \in Files
         /\ files[source] \in Contents /\ BaseName[source] \in NamesOf
         /\ tmp[BaseName[source]] \in Seq(Units) \cup {NoFile}
         /\ mtd[e] \in EntryType
         /\ ImageData(e) \in Seq(Units) \cup {NoFile}
<1>1. cmd \in CommandLines /\ e \in Entries /\ mtd[e] \in EntryType
  BY DEF TypeOK
<1>2. /\ source \in Files /\ target \in Partitions /\ BaseName[source] \in NamesOf
      /\ opt \in [OptNames -> BOOLEAN] /\ Len(args) \in Nat \ {0} /\ 1 \in Entries
  BY <1>1, CommandType DEF Entries, args, opt, source, target
<1>3. files[source] \in Contents /\ tmp[BaseName[source]] \in Seq(Units) \cup {NoFile}
  BY <1>2 DEF TypeOK
<1>4. files[source] \in Seq(Units)
  BY <1>3, ContentsType
<1> QED
  BY <1>1, <1>2, <1>3, <1>4 DEF ImageData, source

-----------------------------------------------------------------------------
(* Type correctness.                                                       *)

LEMMA EmptyType == EmptyEntry \in EntryType
<1>1. <<>> \in Seq(Units)
  BY EmptySeq
<1> QED
  BY <1>1 DEF EmptyEntry, EntryType, Types

LEMMA InitType == Init => TypeOK
<1> SUFFICES ASSUME Init PROVE TypeOK
  OBVIOUS
<1>1. cmd \in CommandLines /\ e = 1 /\ e \in Entries /\ died \in BOOLEAN
  BY CommandType DEF Init, Entries, args
<1>2. mtd \in [Entries -> EntryType]
  BY EmptyType DEF Init, Entries, args
<1>3. mount \in [Partitions -> MountStates]
  BY ConstantsAssumption DEF Init
<1> QED
  BY <1>1, <1>2, <1>3 DEF Init, TypeOK, PcSet

(* The next entry of a loop, or the first of the next loop, is an entry.   *)
LEMMA NextEntryType ==
  ASSUME TypeOK, UNCHANGED cmd, NEW next \in PcSet,
         NextEntry(next) \/ Fail \/ (NextPart /\ AfterPart \in PcSet)
  PROVE  pc' \in PcSet /\ (e \in Entries)'
<1>1. Len(args) \in Nat \ {0} /\ e \in 1..Len(args) /\ Len(args)' = Len(args)
  BY EntryFacts DEF Entries, args
<1>2. pc' \in PcSet
  BY DEF NextEntry, Fail, NextPart, TypeOK, PcSet
<1>3. e' \in 1..Len(args)
  BY <1>1 DEF NextEntry, Fail, NextPart
<1> QED
  BY <1>1, <1>2, <1>3 DEF Entries

(* The record of the current entry is replaced by another one.             *)
LEMMA EntryReplaced ==
  ASSUME TypeOK, UNCHANGED cmd, NEW r \in EntryType, mtd' = [mtd EXCEPT ![e] = r]
  PROVE  (mtd \in [Entries -> EntryType])'
  BY DEF TypeOK, Entries, args

LEMMA ChecksumType ==
  ASSUME TypeOK, UNCHANGED cmd, NEW data \in Seq(Units), NEW m \in EntryType,
         ChecksumAccepted(data, m)
  PROVE  (mtd \in [Entries -> EntryType])'
<1> DEFINE r == IF mtd[e].crcSet THEN m
                ELSE [m EXCEPT !.crc = data, !.crcSet = TRUE, !.crcCalculated = TRUE]
<1>1. r \in EntryType
  BY DEF EntryType
<1>2. mtd' = [mtd EXCEPT ![e] = r]
  BY DEF ChecksumAccepted
<1> QED
  BY <1>1, <1>2, EntryReplaced

LEMMA InitStepType == TypeOK /\ MtdPartInit => TypeOK'
<1> SUFFICES ASSUME TypeOK, MtdPartInit PROVE TypeOK'
  OBVIOUS
<1>1. UNCHANGED <<files, tmp, flash, mount, cmd>> /\ UNCHANGED <<replaced, died>>
  BY DEF MtdPartInit, Fault, bounds
<1>2. pc' \in PcSet /\ (e \in Entries)'
  <2>1. FirstLoop \in PcSet
    BY DEF FirstLoop, PcSet
  <2> QED
    BY <1>1, <2>1, NextEntryType DEF MtdPartInit
<1>3. (mtd \in [Entries -> EntryType])'
  <2> DEFINE r == [EmptyEntry EXCEPT !.size = Len(files[source]),
                                     !.type = IF opt.checksumOnly THEN "FTUnknown"
                                              ELSE DetectedType(source),
                                     !.crc = args[e].crc,
                                     !.crcSet = opt.checksum]
  <2>1. /\ Len(files[source]) \in Nat /\ args[e].crc \in Seq(Units)
        /\ opt.checksum \in BOOLEAN /\ FileType[source] \in Types
    BY EntryFacts, ContentsType, CommandType, ConstantsAssumption
    DEF TypeOK, Entries, args, OptNames
  <2>3. (IF opt.checksumOnly THEN "FTUnknown" ELSE DetectedType(source)) \in Types
    BY <2>1 DEF DetectedType, Types
  <2>4. r \in EntryType
    BY <2>1, <2>3 DEF EntryType, EmptyEntry
  <2>5. mtd' = mtd \/ mtd' = [mtd EXCEPT ![e] = r]
    BY DEF MtdPartInit
  <2> QED
    BY <1>1, <2>4, <2>5, EntryReplaced DEF TypeOK, Entries, args
<1> QED
  BY <1>1, <1>2, <1>3 DEF TypeOK

LEMMA CopyType == TypeOK /\ MtdPartCopyFile => TypeOK'
<1> SUFFICES ASSUME TypeOK, MtdPartCopyFile PROVE TypeOK'
  OBVIOUS
<1>1. UNCHANGED <<files, flash, mount, cmd>> /\ UNCHANGED <<replaced, died>>
  BY DEF MtdPartCopyFile, Fault, bounds
<1>2. pc' \in PcSet /\ (e \in Entries)'
  BY <1>1, NextEntryType DEF MtdPartCopyFile, PcSet
<1>3. tmp' \in [NamesOf -> Seq(Units) \cup {NoFile}]
  <2>1. files[source] \in Seq(Units)
    BY EntryFacts, ContentsType
  <2>2. \E data \in Seq(Units) : tmp' = TmpAfterCopy(data)
    BY <2>1, PrefixType DEF MtdPartCopyFile
  <2>3. \A data \in Seq(Units) : Overlay(data, tmp[BaseName[source]]) \in Seq(Units)
    BY EntryFacts, OverlayType
  <2> QED
    BY <2>2, <2>3 DEF TmpAfterCopy, TypeOK
<1>4. (mtd \in [Entries -> EntryType])'
  <2>1. files[source] \in Seq(Units) /\ [mtd[e] EXCEPT !.inTmp = TRUE] \in EntryType
    BY EntryFacts, ContentsType DEF EntryType
  <2> QED
    BY <1>1, <2>1, ChecksumType DEF MtdPartCopyFile, TypeOK, Entries, args
<1> QED
  BY <1>1, <1>2, <1>3, <1>4 DEF TypeOK

LEMMA VerifyFileType == TypeOK /\ MtdPartVerifyFile => TypeOK'
<1> SUFFICES ASSUME TypeOK, MtdPartVerifyFile PROVE TypeOK'
  OBVIOUS
<1>1. UNCHANGED <<files, tmp, flash, mount, cmd>> /\ UNCHANGED <<replaced, died>>
  BY DEF MtdPartVerifyFile, Fault, bounds
<1>2. pc' \in PcSet /\ (e \in Entries)'
  BY <1>1, NextEntryType DEF MtdPartVerifyFile, PcSet
<1>3. (mtd \in [Entries -> EntryType])'
  <2>1. files[source] \in Seq(Units) /\ mtd[e] \in EntryType
    BY EntryFacts, ContentsType
  <2> QED
    BY <1>1, <2>1, ChecksumType DEF MtdPartVerifyFile, TypeOK, Entries, args
<1> QED
  BY <1>1, <1>2, <1>3 DEF TypeOK

LEMMA FlashType ==
  ASSUME TypeOK, NEW c \in Seq(Units) \cup {NoFile, Old, Torn},
         flash' = flash \/ flash' = [flash EXCEPT ![target] = c]
  PROVE  flash' \in [Partitions -> Seq(Units) \cup {NoFile, Old, Torn}]
  BY EntryFacts DEF TypeOK

LEMMA MainLoopType ==
  TypeOK /\ (MtdPartRemountAllReadOnly \/ Erase \/ WriteExternally \/ MtdPartWrite
               \/ Check \/ Unlink) => TypeOK'
<1> USE DEF Fault, bounds, PcSet
<1>1. AfterPart \in PcSet
  BY DEF AfterPart
<1>2. ASSUME TypeOK, MtdPartRemountAllReadOnly PROVE TypeOK'
  <2>1. UNCHANGED <<files, tmp, flash, cmd, mtd>> /\ UNCHANGED <<replaced, died>>
    BY <1>2 DEF MtdPartRemountAllReadOnly
  <2>2. pc' \in PcSet /\ (e \in Entries)'
    BY <1>2, <2>1, NextEntryType DEF MtdPartRemountAllReadOnly
  <2>3. mount' \in [Partitions -> MountStates]
    <3>1. \A m \in {"none", "ro"} : [mount EXCEPT ![target].how = m] \in [Partitions -> MountStates]
      BY <1>2, EntryFacts DEF TypeOK, MountStates
    <3> QED
      BY <1>2, <3>1 DEF MtdPartRemountAllReadOnly, TypeOK
  <2> QED
    BY <1>2, <2>1, <2>2, <2>3 DEF TypeOK, Entries, args
<1>3. ASSUME TypeOK, Erase PROVE TypeOK'
  <2>1. UNCHANGED <<files, tmp, mount, cmd, mtd>> /\ UNCHANGED <<replaced, died>>
    BY <1>3 DEF Erase
  <2>2. pc' \in PcSet /\ e' = e
    BY <1>3 DEF Erase, Fail
  <2>3. flash' \in [Partitions -> Seq(Units) \cup {NoFile, Old, Torn}]
    BY <1>3, FlashType DEF Erase
  <2> QED
    BY <1>3, <2>1, <2>2, <2>3 DEF TypeOK, Entries, args
<1>4. ASSUME TypeOK, WriteExternally PROVE TypeOK'
  <2>1. UNCHANGED <<files, tmp, mount, cmd, mtd>> /\ UNCHANGED replaced /\ died' \in BOOLEAN
    BY <1>4 DEF WriteExternally, TypeOK
  <2>2. pc' \in PcSet /\ (e \in Entries)'
    BY <1>1, <1>4, <2>1, NextEntryType DEF WriteExternally
  <2>3. flash[target] \in Seq(Units) \cup {NoFile, Old, Torn}
    BY <1>4, EntryFacts DEF TypeOK
  <2>4. \E c \in {ImageData(e), Torn, flash[target]} : flash' = [flash EXCEPT ![target] = c]
    BY <1>4 DEF WriteExternally
  <2>5. flash' \in [Partitions -> Seq(Units) \cup {NoFile, Old, Torn}]
    BY <1>4, <2>3, <2>4, EntryFacts, FlashType
  <2> QED
    BY <1>4, <2>1, <2>2, <2>5 DEF TypeOK, Entries, args
<1>5. ASSUME TypeOK, MtdPartWrite PROVE TypeOK'
  <2>1. UNCHANGED <<files, tmp, mount, cmd>> /\ UNCHANGED <<replaced, died>>
    BY <1>5 DEF MtdPartWrite
  <2>2. pc' \in PcSet /\ (e \in Entries)'
    <3>1. CASE pc' = "check" /\ UNCHANGED e
      BY <1>5, <2>1, <3>1 DEF TypeOK, Entries, args
    <3>2. CASE NextPart \/ Fail
      BY <1>1, <1>5, <2>1, <3>2, NextEntryType
    <3> QED
      BY <1>5, <3>1, <3>2 DEF MtdPartWrite
  <2>3. flash' \in [Partitions -> Seq(Units) \cup {NoFile, Old, Torn}]
    BY <1>5, EntryFacts, FlashType DEF MtdPartWrite, Written
  <2>4. (mtd \in [Entries -> EntryType])'
    <3> DEFINE r == [mtd[e] EXCEPT !.crc = ImageData(e), !.crcSet = TRUE, !.crcCalculated = TRUE]
    <3>1. r \in EntryType
      BY <1>5, EntryFacts DEF EntryType
    <3>2. mtd' = mtd \/ mtd' = [mtd EXCEPT ![e] = r]
      BY <1>5, EntryFacts DEF MtdPartWrite, TypeOK
    <3> QED
      BY <1>5, <2>1, <3>1, <3>2, EntryReplaced DEF TypeOK, Entries, args
  <2> QED
    BY <1>5, <2>1, <2>2, <2>3, <2>4 DEF TypeOK
<1>6. ASSUME TypeOK, Check PROVE TypeOK'
  <2>1. UNCHANGED <<files, tmp, flash, mount, cmd, mtd>> /\ UNCHANGED <<replaced, died>>
    BY <1>6 DEF Check
  <2>2. pc' \in PcSet /\ (e \in Entries)'
    BY <1>1, <1>6, <2>1, NextEntryType DEF Check
  <2> QED
    BY <1>6, <2>1, <2>2 DEF TypeOK, Entries, args
<1>7. ASSUME TypeOK, Unlink PROVE TypeOK'
  <2>1. UNCHANGED <<files, flash, mount, cmd, mtd>> /\ UNCHANGED <<replaced, died>>
    BY <1>7 DEF Unlink
  <2>2. pc' \in PcSet /\ (e \in Entries)'
    BY <1>7, <2>1, NextEntryType DEF Unlink
  <2>3. tmp' \in [NamesOf -> Seq(Units) \cup {NoFile}]
    BY <1>7, EntryFacts DEF Unlink, TypeOK
  <2> QED
    BY <1>7, <2>1, <2>2, <2>3 DEF TypeOK, Entries, args
<1> QED
  BY <1>2, <1>3, <1>4, <1>5, <1>6, <1>7

LEMMA OtherStepsType ==
  TypeOK /\ (DoMtdVerify \/ DoPrintChecksums \/ Crash \/ Rerun \/ ReplaceFile) => TypeOK'
<1> USE DEF Fault, bounds, PcSet
<1>1. ASSUME TypeOK, DoMtdVerify \/ DoPrintChecksums PROVE TypeOK'
  <2>1. UNCHANGED <<files, tmp, flash, mount, cmd, mtd>> /\ UNCHANGED <<replaced, died>>
    BY <1>1 DEF DoMtdVerify, DoPrintChecksums
  <2>2. pc' \in PcSet /\ (e \in Entries)'
    BY <1>1, <2>1, NextEntryType DEF DoMtdVerify, DoPrintChecksums
  <2> QED
    BY <1>1, <2>1, <2>2 DEF TypeOK, Entries, args
<1>2. ASSUME TypeOK, Crash PROVE TypeOK'
  <2>1. flash' \in [Partitions -> Seq(Units) \cup {NoFile, Old, Torn}]
    BY <1>2, FlashType DEF Crash
  <2>2. tmp' \in [NamesOf -> Seq(Units) \cup {NoFile}]
    <3>1. tmp' = tmp \/ \E data \in Seq(Units) : tmp' = TmpAfterCopy(data)
      BY <1>2, EntryFacts, ContentsType, PrefixType DEF Crash
    <3>2. \A data \in Seq(Units) : Overlay(data, tmp[BaseName[source]]) \in Seq(Units)
      BY <1>2, EntryFacts, OverlayType
    <3> QED
      BY <1>2, <3>1, <3>2 DEF TmpAfterCopy, TypeOK
  <2> QED
    BY <1>2, <2>1, <2>2 DEF Crash, TypeOK, Entries, args
<1>3. ASSUME TypeOK, Rerun PROVE TypeOK'
  <2>1. cmd' \in CommandLines /\ (1 \in Entries)'
    BY <1>3, CommandType DEF Rerun, Entries, args
  <2>2. (mtd \in [Entries -> EntryType])'
    <3>1. EmptyEntry \in EntryType
      BY EmptyType
    <3>2. Entries' = 1..Len(cmd'.args) /\ mtd' = [k \in 1..Len(cmd'.args) |-> EmptyEntry]
      BY <1>3 DEF Rerun, Entries, args
    <3>3. mtd' \in [Entries' -> EntryType]
      BY <3>1, <3>2
    <3> QED
      BY <3>3 DEF EntryType
  <2> QED
    BY <1>3, <2>1, <2>2 DEF Rerun, TypeOK
<1>4. ASSUME TypeOK, ReplaceFile PROVE TypeOK'
  BY <1>4 DEF ReplaceFile, TypeOK, Entries, args
<1> QED
  BY <1>1, <1>2, <1>3, <1>4

LEMMA TypeStep == TypeOK /\ [Next]_vars => TypeOK'
<1>1. TypeOK /\ (Terminated \/ UNCHANGED vars) => TypeOK'
  BY DEF Terminated, vars, TypeOK, Entries, args
<1> QED
  BY <1>1, InitStepType, CopyType, VerifyFileType, MainLoopType, OtherStepsType DEF Next

(***************************************************************************)
(* Type correctness: the entry worked on is one of the command line's,     *)
(* whatever loop ends early or starts anew, for any command line.          *)
(***************************************************************************)
THEOREM TypeCorrect == Spec => []TypeOK
  BY InitType, TypeStep, PTL DEF Spec
-----------------------------------------------------------------------------
(***************************************************************************)
(* The inductive invariant.  The loops of the program go through the       *)
(* entries one after the other, so each part says what is true of an entry *)
(* once a loop has dealt with it, and stays true until the program ends.   *)
(***************************************************************************)
MainLoop == {"erase", "write", "check"}
Opened(k) == pc \in {"copy", "verifyFile", "remount", "unlink", "done"} \cup MainLoop
               \/ (pc = "init" /\ k < e)
Checked(k) == pc \in {"remount", "unlink", "done"} \cup MainLoop
               \/ (pc \in {"copy", "verifyFile"} /\ k < e)
Remounted(k) == pc \in MainLoop \/ (pc = "remount" /\ k < e)
Flashed(k) == pc \in {"unlink", "done"} \/ (pc \in MainLoop /\ k < e)

(* Which loops are for which options.                                      *)
OptionsInv ==
    /\ pc \in {"copy", "verifyFile", "remount", "unlink"} \cup MainLoop => Updating
    /\ pc \in {"print", "verifyOnly"} => ~Updating
    /\ pc \in {"copy", "unlink"} => opt.tmpdir
    /\ pc = "verifyFile" => ~opt.tmpdir
    /\ pc = "check" => ~External(e)

(* What was noted of the file of an entry, and the checksum given for it.  *)
OpenedEntry(k) ==
    /\ mtd[k].inTmp => opt.tmpdir
    /\ Opened(k) /\ Updating =>
         /\ mtd[k].type = DetectedType(args[k].file)
         /\ replaced = 0 => mtd[k].size = Len(files[args[k].file])
         /\ opt.checksum /\ pc \in {"init", "copy", "verifyFile"}
              => mtd[k].crcSet /\ mtd[k].crc = args[k].crc
OpenedInv == \A k \in Entries : OpenedEntry(k)

(* No update begins before every checksum was right.                       *)
ChecksumInv ==
    replaced = 0 /\ opt.checksum /\ Updating
    => \A k \in Entries : Checked(k) => args[k].crc = files[args[k].file]

MountInv ==
    \A k \in Entries :
      Remounted(k) /\ NamesPartition(args[k].part) => mount[args[k].part].how # "rw"

(***************************************************************************)
(* The temporary directory.  A file whose name nobody else has is copied   *)
(* over a copy or a part of itself; other copies have the right bytes if   *)
(* they have the right size.                                               *)
(***************************************************************************)
StaleInv ==
    replaced = 0 =>
    \A f \in Files : OwnName(f) =>
        tmp[BaseName[f]] = NoFile \/ Len(tmp[BaseName[f]]) <= Len(files[f])

TmpData(k) == tmp[BaseName[args[k].file]]
Copied(k) == opt.tmpdir /\ (pc \in {"remount"} \cup MainLoop \/ (pc = "copy" /\ k < e))
CopiedEntry(k) ==
    Copied(k) =>
      /\ mtd[k].inTmp /\ TmpData(k) \in Seq(Units)
      /\ CopyIsOwn(k) /\ (External(k) \/ Len(TmpData(k)) = Len(files[args[k].file]))
           => TmpData(k) = files[args[k].file]
TmpInv == replaced = 0 => \A k \in Entries : CopiedEntry(k)

(* What the partitions hold.                                               *)
Reliable(k) == opt.tmpdir => CopyIsOwn(k) \/ CheckedAgain(k)
FlashedEntry(k) ==
    IsLast(k) /\ Reliable(k) /\ Flashed(k) => flash[args[k].part] = files[args[k].file]
FlashInv ==
    replaced = 0 /\ ~died /\ Updating /\ ~opt.dryRun =>
    /\ \A k \in Entries : FlashedEntry(k)
    /\ pc = "check" /\ Reliable(e) /\ ~opt.verify => flash[target] = files[source]

Inv == TypeOK /\ OptionsInv /\ OpenedInv /\ ChecksumInv /\ StaleInv /\ TmpInv /\ FlashInv

-----------------------------------------------------------------------------
(* Lemmas about steps.                                                     *)

(* A loop goes from one entry to the next, or from the last to the next    *)
(* loop.                                                                   *)
LEMMA LoopStep ==
  ASSUME TypeOK, UNCHANGED cmd, NEW next, NextEntry(next), NEW k \in Entries
  PROVE  \/ pc' = pc /\ (k < e' <=> k < e \/ k = e)
         \/ pc' = next /\ (k < e \/ k = e) /\ ~(k < e')
<1>1. Len(args) \in Nat /\ e \in 1..Len(args) /\ k \in 1..Len(args)
  BY EntryFacts DEF Entries
<1> QED
  BY <1>1 DEF NextEntry

LEMMA PartStep ==
  ASSUME TypeOK, UNCHANGED cmd, NextPart, NEW k \in Entries
  PROVE  \/ pc' = "erase" /\ (k < e' <=> k < e \/ k = e)
         \/ pc' = (IF opt.tmpdir THEN "unlink" ELSE "done") /\ (k < e \/ k = e)
<1>1. Len(args) \in Nat /\ e \in 1..Len(args) /\ k \in 1..Len(args)
  BY EntryFacts DEF Entries
<1> QED
  BY <1>1 DEF NextPart, AfterPart

(* What depends on the command line and the types alone.                   *)
LEMMA SameEntries ==
  ASSUME UNCHANGED cmd
  PROVE  /\ Entries' = Entries /\ args' = args /\ opt' = opt /\ (Updating' <=> Updating)
         /\ \A k \in Entries : IsLast(k)' <=> IsLast(k)
         /\ \A k \in Entries : mtd'[k].type = mtd[k].type =>
              /\ External(k)' <=> External(k)
              /\ CopyIsOwn(k)' <=> CopyIsOwn(k)
              /\ CheckedAgain(k)' <=> CheckedAgain(k)
              /\ Reliable(k)' <=> Reliable(k)
<1>1. Entries' = Entries /\ args' = args /\ opt' = opt
  BY DEF Entries, args, opt
<1>2. \A k \in Entries : IsLast(k)' <=> IsLast(k)
  BY <1>1 DEF IsLast
<1>3. ASSUME NEW k \in Entries, mtd'[k].type = mtd[k].type
      PROVE  (External(k)' <=> External(k)) /\ (CopyIsOwn(k)' <=> CopyIsOwn(k))
  BY <1>1, <1>3 DEF External, CopyIsOwn
<1> QED
  BY <1>1, <1>2, <1>3 DEF CheckedAgain, Reliable, Updating

(* A step after which the program has stopped.                             *)
LEMMA Stopped ==
  ASSUME Inv, UNCHANGED <<files, cmd, mtd>>, pc' = "failed", StaleInv'
  PROVE  OptionsInv' /\ OpenedInv' /\ ChecksumInv' /\ TmpInv' /\ FlashInv'
<1>1. Entries' = Entries /\ opt' = opt
  BY SameEntries
<1>2. OptionsInv' /\ ChecksumInv' /\ TmpInv' /\ FlashInv'
  BY DEF OptionsInv, ChecksumInv, TmpInv, CopiedEntry, FlashInv, FlashedEntry,
     Checked, Copied, Flashed, MainLoop
<1>3. OpenedInv'
  BY <1>1 DEF Inv, OpenedInv, OpenedEntry, Opened, MainLoop
<1> QED
  BY <1>2, <1>3

(* The temporary directory and the files are as they were.                 *)
LEMMA SameFiles ==
  ASSUME Inv, UNCHANGED <<files, tmp>>, replaced' = replaced
  PROVE  StaleInv'
  BY DEF Inv, StaleInv

LEMMA InitHolds == Init => Inv
<1> SUFFICES ASSUME Init PROVE Inv
  OBVIOUS
<1>1. TypeOK
  BY InitType
<1>2. \A k \in Entries : ~(k < e)
  BY DEF Init, Entries
<1>3. \A k \in Entries : mtd[k].inTmp = FALSE
  BY DEF Init, Entries, args, EmptyEntry
<1>4. OptionsInv /\ OpenedInv /\ ChecksumInv
  BY <1>2, <1>3 DEF Init, OptionsInv, OpenedInv, OpenedEntry, ChecksumInv, Opened, Checked, MainLoop
<1>5. StaleInv
  <2>1. \A f \in Files : BaseName[f] \in NamesOf
    BY DEF NamesOf
  <2> QED
    BY <2>1 DEF Init, StaleInv
<1>6. TmpInv /\ FlashInv
  BY <1>2 DEF Init, TmpInv, CopiedEntry, FlashInv, FlashedEntry, Copied, Flashed, MainLoop
<1> QED
  BY <1>1, <1>4, <1>5, <1>6 DEF Inv

LEMMA InitStepInv == Inv /\ MtdPartInit => Inv'
<1> SUFFICES ASSUME Inv, MtdPartInit PROVE Inv'
  OBVIOUS
<1>1. TypeOK /\ TypeOK' /\ StaleInv'
  BY InitStepType, SameFiles DEF Inv, MtdPartInit, Fault, bounds
<1>2. CASE pc' = "failed" /\ UNCHANGED mtd
  BY <1>1, <1>2, Stopped DEF MtdPartInit, Inv
<1>3. CASE ~(pc' = "failed" /\ UNCHANGED mtd)
  <2> DEFINE r == [EmptyEntry EXCEPT !.size = Len(files[source]),
                                     !.type = IF opt.checksumOnly THEN "FTUnknown"
                                              ELSE DetectedType(source),
                                     !.crc = args[e].crc,
                                     !.crcSet = opt.checksum]
  <2>1. /\ pc = "init" /\ UNCHANGED <<files, tmp, flash, mount, cmd>> /\ replaced' = replaced
        /\ mtd' = [mtd EXCEPT ![e] = r]
        /\ NextEntry(FirstLoop)
    BY <1>3 DEF MtdPartInit, Fail, bounds
  <2>2. /\ Entries' = Entries /\ args' = args /\ opt' = opt /\ (Updating' <=> Updating)
        /\ e \in Entries
    BY <1>1, <2>1, SameEntries, EntryFacts
  <2>3. mtd'[e] = r /\ \A k \in Entries : k # e => mtd'[k] = mtd[k]
    BY <1>1, <2>1, <2>2 DEF TypeOK
  <2>4. /\ r.inTmp = FALSE /\ r.size = Len(files[source]) /\ r.crc = args[e].crc
        /\ (~opt.checksumOnly => r.type = DetectedType(source)) /\ r.crcSet = opt.checksum
    BY DEF EmptyEntry
  <2>5. \A k \in Entries : \/ pc' = pc /\ (k < e' <=> k < e \/ k = e)
                           \/ pc' = FirstLoop /\ (k < e \/ k = e) /\ ~(k < e')
    BY <1>1, <2>1, <2>2, LoopStep
  <2>6. pc' = pc \/ pc' = FirstLoop
    BY <2>1 DEF NextEntry
  <2>7. FirstLoop \in {"print", "verifyOnly", "copy", "verifyFile", "remount"}
    BY DEF FirstLoop
  <2>8. OptionsInv'
    BY <1>1, <2>1, <2>2, <2>6, EntryFacts DEF OptionsInv, FirstLoop, Updating, MainLoop, OptNames
  <2>9. OpenedInv'
    <3>1. ASSUME NEW k \in Entries, k = e PROVE OpenedEntry(k)'
      BY <2>1, <2>2, <2>3, <2>4, <3>1 DEF OpenedEntry, source, DetectedType, Updating
    <3>2. ASSUME NEW k \in Entries, k # e PROVE OpenedEntry(k)'
      <4>1. OpenedEntry(k) /\ mtd'[k] = mtd[k]
        BY <2>3, <3>2 DEF Inv, OpenedInv
      <4>2. Opened(k)' => Opened(k)
        BY <2>1, <2>5, <3>2 DEF Opened
      <4>3. DetectedType(args[k].file)' = DetectedType(args[k].file)
        BY <2>2 DEF DetectedType
      <4> QED
        BY <2>1, <2>2, <4>1, <4>2, <4>3 DEF OpenedEntry
    <3> QED
      BY <2>2, <3>1, <3>2 DEF OpenedInv
  <2>10. ChecksumInv'
    BY <1>1, <2>1, <2>2, <2>5, EntryFacts DEF ChecksumInv, Checked, FirstLoop, MainLoop, Updating, OptNames
  <2>11. TmpInv' /\ FlashInv'
    <3>1. \A k \in Entries : ~Flashed(k)' /\ (pc' = "remount" => ~opt.tmpdir)
      BY <1>1, <2>1, <2>2, <2>5, EntryFacts DEF Flashed, FirstLoop, MainLoop, OptNames
    <3>2. \A k \in Entries : ~Copied(k)'
      BY <2>1, <2>2, <2>5, <2>7, <3>1 DEF Copied, MainLoop
    <3>3. pc' # "check"
      BY <2>1, <2>6, <2>7
    <3> QED
      BY <2>2, <3>1, <3>2, <3>3 DEF TmpInv, CopiedEntry, FlashInv, FlashedEntry
  <2> QED
    BY <1>1, <2>8, <2>9, <2>10, <2>11 DEF Inv
<1> QED
  BY <1>2, <1>3

(* One iteration of the loop that checks or copies the files: the record   *)
(* of the entry keeps its type and size, and the file had the checksum     *)
(* given.                                                                  *)
LEMMA CheckingStep ==
  ASSUME Inv, UNCHANGED <<files, cmd>>, replaced' = replaced,
         pc \in {"copy", "verifyFile"}, NextEntry("remount"),
         NEW m, m \in {mtd[e], [mtd[e] EXCEPT !.inTmp = TRUE]},
         m.inTmp => opt.tmpdir,
         ChecksumAccepted(files[source], m)
  PROVE  /\ mtd'[e].inTmp = m.inTmp /\ \A k \in Entries \ {e} : mtd'[k] = mtd[k]
         /\ \A k \in Entries : mtd'[k].type = mtd[k].type
         /\ OptionsInv' /\ OpenedInv' /\ ChecksumInv' /\ FlashInv'
<1>1. TypeOK /\ e \in Entries /\ mtd[e] \in EntryType /\ source \in Files
  BY EntryFacts DEF Inv
<1>2. /\ Entries' = Entries /\ args' = args /\ opt' = opt /\ (Updating' <=> Updating)
      /\ Updating
  BY <1>1, SameEntries DEF Inv, OptionsInv
<1>3. /\ \A k \in Entries \ {e} : mtd'[k] = mtd[k]
      /\ mtd'[e].inTmp = m.inTmp /\ mtd'[e].size = mtd[e].size /\ mtd'[e].type = mtd[e].type
      /\ mtd[e].crcSet => mtd'[e].crcSet /\ mtd'[e].crc = mtd[e].crc /\ mtd[e].crc = files[source]
  BY <1>1 DEF ChecksumAccepted, TypeOK, EntryType
<1>4. \A k \in Entries : \/ pc' = pc /\ (k < e' <=> k < e \/ k = e)
                         \/ pc' = "remount" /\ (k < e \/ k = e) /\ ~(k < e')
  BY <1>1, LoopStep
<1>5. pc' = pc \/ pc' = "remount"
  BY DEF NextEntry
<1>6. OptionsInv'
  BY <1>2, <1>5 DEF Inv, OptionsInv, MainLoop
<1>7. OpenedInv'
  <2>1. ASSUME NEW k \in Entries PROVE OpenedEntry(k)'
    <3>1. OpenedEntry(k) /\ Opened(k)
      BY DEF Inv, OpenedInv, Opened
    <3>2. DetectedType(args[k].file)' = DetectedType(args[k].file)
      BY <1>2 DEF DetectedType
    <3> QED
      BY <1>2, <1>3, <3>1, <3>2 DEF OpenedEntry
  <2> QED
    BY <1>2, <2>1 DEF OpenedInv
<1>8. ChecksumInv'
  <2>1. opt.checksum => mtd[e].crcSet /\ mtd[e].crc = args[e].crc
    BY <1>1, <1>2 DEF Inv, OpenedInv, OpenedEntry, Opened
  <2>2. opt.checksum => args[e].crc = files[source]
    BY <1>3, <2>1
  <2> QED
    BY <1>2, <1>4, <2>2 DEF Inv, ChecksumInv, Checked, source
<1>9. FlashInv'
  BY <1>2, <1>5 DEF FlashInv, FlashedEntry, Flashed, MainLoop
<1> QED
  BY <1>3, <1>6, <1>7, <1>8, <1>9

(* Copying over the temporary file of the same name.                       *)
LEMMA CopyStale ==
  ASSUME Inv, UNCHANGED files, replaced' = replaced,
         NEW data \in Seq(Units), Len(data) <= Len(files[source]), tmp' = TmpAfterCopy(data)
  PROVE  StaleInv'
<1>1. TypeOK /\ BaseName[source] \in NamesOf /\ source \in Files
  BY EntryFacts DEF Inv
<1>2. ASSUME replaced = 0, NEW f \in Files, OwnName(f)
      PROVE  tmp'[BaseName[f]] = NoFile \/ Len(tmp'[BaseName[f]]) <= Len(files[f])
  <2>1. CASE BaseName[f] = BaseName[source]
    <3>1. f = source
      BY <1>1, <1>2, <2>1 DEF OwnName
    <3>2. tmp[BaseName[f]] = NoFile \/ Len(tmp[BaseName[f]]) <= Len(files[f])
      BY <1>2 DEF Inv, StaleInv
    <3>3. tmp'[BaseName[f]] = Overlay(data, tmp[BaseName[f]])
      BY <1>1, <2>1 DEF TmpAfterCopy, TypeOK
    <3>4. tmp[BaseName[f]] \in Seq(Units) \cup {NoFile} /\ Len(files[f]) \in Nat
      BY <1>1, <2>1, <3>1, EntryFacts, ContentsType
    <3> QED
      BY <3>1, <3>2, <3>3, <3>4, OverlayType
  <2>2. CASE BaseName[f] # BaseName[source]
    BY <1>1, <1>2, <2>2 DEF TmpAfterCopy, TypeOK, Inv, StaleInv
  <2> QED
    BY <2>1, <2>2
<1> QED
  BY <1>2 DEF StaleInv, OwnName

LEMMA CopyInv == Inv /\ MtdPartCopyFile => Inv'
<1> SUFFICES ASSUME Inv, MtdPartCopyFile PROVE Inv'
  OBVIOUS
<1> DEFINE data == files[source]
<1>1. TypeOK /\ TypeOK'
  BY CopyType DEF Inv
<1>2. data \in Seq(Units) /\ Len(data) \in Nat /\ e \in Entries /\ opt.tmpdir
  BY <1>1, EntryFacts, ContentsType DEF Inv, OptionsInv, MtdPartCopyFile
<1>3. UNCHANGED <<files, cmd>> /\ replaced' = replaced /\ pc = "copy"
  BY DEF MtdPartCopyFile, Fault, bounds
<1>4. StaleInv'
  <2>1. \E d \in Seq(Units) : Len(d) <= Len(data) /\ tmp' = TmpAfterCopy(d)
    <3>1. \A n \in 0..(Len(data) - 1) :
            SubSeq(data, 1, n) \in Seq(Units) /\ Len(SubSeq(data, 1, n)) <= Len(data)
      BY <1>2, PrefixType
    <3>2. \/ tmp' = TmpAfterCopy(data)
          \/ \E n \in 0..(Len(data) - 1) : tmp' = TmpAfterCopy(SubSeq(data, 1, n))
      BY DEF MtdPartCopyFile
    <3>3. CASE \E n \in 0..(Len(data) - 1) : tmp' = TmpAfterCopy(SubSeq(data, 1, n))
      <4>1. PICK n \in 0..(Len(data) - 1) : tmp' = TmpAfterCopy(SubSeq(data, 1, n))
        BY <3>3
      <4> QED
        BY <3>1, <4>1
    <3> QED
      BY <1>2, <3>2, <3>3
  <2> QED
    BY <1>3, <2>1, CopyStale
<1>5. CASE pc' = "failed" /\ UNCHANGED mtd
  BY <1>1, <1>3, <1>4, <1>5, Stopped DEF Inv
<1>6. CASE ~(pc' = "failed" /\ UNCHANGED mtd)
  <2> DEFINE m == [mtd[e] EXCEPT !.inTmp = TRUE]
  <2>1. /\ tmp' = TmpAfterCopy(data) /\ ChecksumAccepted(data, m) /\ NextEntry("remount")
    BY <1>6 DEF MtdPartCopyFile, Fail
  <2>2. mtd[e] \in EntryType /\ m.inTmp = TRUE
    BY <1>1, EntryFacts DEF EntryType
  <2>3. /\ mtd'[e].inTmp = TRUE /\ \A k \in Entries \ {e} : mtd'[k] = mtd[k]
        /\ \A k \in Entries : mtd'[k].type = mtd[k].type
        /\ OptionsInv' /\ OpenedInv' /\ ChecksumInv' /\ FlashInv'
    BY <1>2, <1>3, <2>1, <2>2, CheckingStep
  <2>4. TmpInv'
    <3>1. \A k \in Entries : \/ pc' = pc /\ (k < e' <=> k < e \/ k = e)
                             \/ pc' = "remount" /\ (k < e \/ k = e) /\ ~(k < e')
      BY <1>1, <1>3, <2>1, LoopStep
    <3>2. /\ Entries' = Entries /\ args' = args /\ opt' = opt
          /\ \A k \in Entries : (External(k)' <=> External(k)) /\ (CopyIsOwn(k)' <=> CopyIsOwn(k))
      BY <1>3, <2>3, SameEntries
    <3>3. ASSUME replaced = 0, NEW k \in Entries PROVE CopiedEntry(k)'
      <4> DEFINE f == args[k].file
                 old == tmp[BaseName[source]]
      <4>1. /\ f \in Files /\ BaseName[f] \in NamesOf /\ BaseName[source] \in NamesOf
            /\ source \in Files /\ old \in Seq(Units) \cup {NoFile}
        BY <1>1, EntryFacts, CommandType DEF TypeOK, Entries, args
      <4>2. CASE BaseName[f] = BaseName[source]
        <5>1. TmpData(k)' = Overlay(data, old)
          BY <1>1, <2>1, <3>2, <4>1, <4>2 DEF TmpData, TmpAfterCopy, TypeOK
        <5>2. TmpData(k)' \in Seq(Units)
          BY <1>2, <4>1, <5>1, OverlayType
        <5>3. CopyIsOwn(k) => f = source
          <6>1. source \in {args[j].file : j \in Entries}
            BY <1>2 DEF source
          <6> QED
            BY <4>1, <4>2, <6>1 DEF CopyIsOwn
        <5>4. CopyIsOwn(k) /\ External(k) => old = NoFile \/ Len(old) <= Len(data)
          <6>1. CopyIsOwn(k) /\ External(k) => OwnName(f) /\ f = source
            BY <5>3 DEF CopyIsOwn, OwnName
          <6> QED
            BY <3>3, <4>1, <6>1 DEF Inv, StaleInv
        <5>5. CopyIsOwn(k) /\ (External(k) \/ Len(TmpData(k)') = Len(data)) => TmpData(k)' = data
          BY <1>2, <4>1, <5>1, <5>4, OverlayType
        <5>6. Copied(k)' => mtd'[k].inTmp
          <6>1. CASE k = e
            BY <2>3, <6>1
          <6>2. CASE k # e
            BY <1>2, <1>3, <2>3, <3>1, <3>2, <3>3, <6>2
            DEF Copied, MainLoop, Inv, TmpInv, CopiedEntry
          <6> QED
            BY <6>1, <6>2
        <5> QED
          BY <1>3, <3>2, <5>2, <5>3, <5>5, <5>6 DEF CopiedEntry, TmpData
      <4>3. CASE BaseName[f] # BaseName[source]
        <5>1. k # e /\ TmpData(k)' = TmpData(k) /\ mtd'[k] = mtd[k]
          BY <1>1, <2>1, <2>3, <3>2, <4>1, <4>3 DEF TmpData, TmpAfterCopy, TypeOK, source
        <5>2. Copied(k)' => Copied(k)
          BY <1>3, <3>1, <3>2, <5>1 DEF Copied, MainLoop
        <5> QED
          BY <1>3, <3>2, <3>3, <5>1, <5>2 DEF Inv, TmpInv, CopiedEntry
      <4> QED
        BY <4>2, <4>3
    <3> QED
      BY <1>3, <3>2, <3>3 DEF TmpInv
  <2> QED
    BY <1>1, <1>4, <2>3, <2>4 DEF Inv
<1> QED
  BY <1>5, <1>6

LEMMA VerifyFileInv == Inv /\ MtdPartVerifyFile => Inv'
<1> SUFFICES ASSUME Inv, MtdPartVerifyFile PROVE Inv'
  OBVIOUS
<1>1. TypeOK /\ TypeOK'
  BY VerifyFileType DEF Inv
<1>2. /\ UNCHANGED <<files, tmp, cmd>> /\ replaced' = replaced /\ pc = "verifyFile"
      /\ ~opt.tmpdir /\ e \in Entries
  BY <1>1, EntryFacts DEF MtdPartVerifyFile, Fault, bounds, Inv, OptionsInv
<1>3. StaleInv'
  BY <1>2, SameFiles
<1>4. CASE pc' = "failed" /\ UNCHANGED mtd
  BY <1>1, <1>2, <1>3, <1>4, Stopped DEF Inv
<1>5. CASE ~(pc' = "failed" /\ UNCHANGED mtd)
  <2>1. ChecksumAccepted(files[source], mtd[e]) /\ NextEntry("remount")
    BY <1>5 DEF MtdPartVerifyFile, Fail
  <2>2. mtd[e].inTmp => opt.tmpdir
    BY <1>2 DEF Inv, OpenedInv, OpenedEntry
  <2>3. OptionsInv' /\ OpenedInv' /\ ChecksumInv' /\ FlashInv'
    BY <1>2, <2>1, <2>2, CheckingStep
  <2>4. opt' = opt
    BY <1>2, SameEntries
  <2>5. TmpInv'
    BY <1>2, <2>4 DEF TmpInv, CopiedEntry, Copied
  <2> QED
    BY <1>1, <1>3, <2>3, <2>5 DEF Inv
<1> QED
  BY <1>4, <1>5

(* Steps of the loops after the checks leave the files and the copies      *)
(* alone; the records keep what was noted of the files.                    *)
LEMMA LaterStep ==
  ASSUME Inv, UNCHANGED <<files, tmp, cmd>>, replaced' = replaced,
         pc \in {"remount", "erase", "write", "check"},
         pc' \in {"remount", "erase", "write", "check", "unlink", "done"},
         pc' = "unlink" => opt.tmpdir,
         \A k \in Entries : /\ mtd'[k].type = mtd[k].type /\ mtd'[k].size = mtd[k].size
                            /\ mtd'[k].inTmp = mtd[k].inTmp
  PROVE  OpenedInv' /\ ChecksumInv' /\ StaleInv' /\ TmpInv'
<1>1. /\ Entries' = Entries /\ args' = args /\ opt' = opt /\ (Updating' <=> Updating)
      /\ \A k \in Entries : (External(k)' <=> External(k)) /\ (CopyIsOwn(k)' <=> CopyIsOwn(k))
  BY SameEntries
<1>2. OpenedInv'
  <2>1. ASSUME NEW k \in Entries PROVE OpenedEntry(k)'
    <3>1. OpenedEntry(k) /\ Opened(k)
      BY DEF Inv, OpenedInv, Opened, MainLoop
    <3>2. DetectedType(args[k].file)' = DetectedType(args[k].file)
      BY <1>1 DEF DetectedType
    <3> QED
      BY <1>1, <3>1, <3>2 DEF OpenedEntry
  <2> QED
    BY <1>1, <2>1 DEF OpenedInv
<1>3. ChecksumInv'
  BY <1>1 DEF Inv, ChecksumInv, Checked, MainLoop
<1>4. StaleInv'
  BY SameFiles
<1>5. TmpInv'
  <2>1. ASSUME replaced = 0, NEW k \in Entries PROVE CopiedEntry(k)'
    <3>1. CopiedEntry(k) /\ (Copied(k)' => Copied(k))
      BY <1>1, <2>1 DEF Inv, TmpInv, Copied, MainLoop
    <3>2. TmpData(k)' = TmpData(k)
      BY <1>1 DEF TmpData
    <3> QED
      BY <1>1, <3>1, <3>2 DEF CopiedEntry
  <2> QED
    BY <1>1, <2>1 DEF TmpInv
<1> QED
  BY <1>2, <1>3, <1>4, <1>5

LEMMA RemountInv == Inv /\ MtdPartRemountAllReadOnly => Inv'
<1> SUFFICES ASSUME Inv, MtdPartRemountAllReadOnly PROVE Inv'
  OBVIOUS
<1>1. TypeOK /\ TypeOK'
  BY MainLoopType DEF Inv
<1>2. /\ UNCHANGED <<files, tmp, flash, cmd, mtd>> /\ replaced' = replaced /\ pc = "remount"
  BY DEF MtdPartRemountAllReadOnly, Fault, bounds
<1>3. CASE pc' = "failed"
  BY <1>1, <1>2, <1>3, SameFiles, Stopped DEF Inv
<1>4. CASE pc' # "failed"
  <2>1. NextEntry("erase")
    BY <1>4 DEF MtdPartRemountAllReadOnly, Fail
  <2>2. pc' \in {"remount", "erase"}
    BY <1>2, <2>1 DEF NextEntry
  <2>3. OpenedInv' /\ ChecksumInv' /\ StaleInv' /\ TmpInv'
    BY <1>2, <2>2, LaterStep
  <2>4. Entries' = Entries /\ (Updating' <=> Updating)
    BY <1>2, SameEntries
  <2>5. OptionsInv'
    BY <1>2, <2>2, <2>4 DEF Inv, OptionsInv, MainLoop
  <2>6. \A k \in Entries : ~Flashed(k)'
    <3>1. \A k \in Entries : pc' = "erase" => ~(k < e')
      BY <1>1, <1>2, <2>1, LoopStep
    <3> QED
      BY <2>2, <3>1 DEF Flashed, MainLoop
  <2>7. FlashInv'
    BY <2>2, <2>4, <2>6 DEF FlashInv, FlashedEntry
  <2> QED
    BY <1>1, <2>3, <2>5, <2>7 DEF Inv
<1> QED
  BY <1>3, <1>4

(* A step on the partition of the current entry: an earlier entry that is  *)
(* the last for its partition is for another one.                          *)
LEMMA OthersStay ==
  ASSUME Inv, UNCHANGED <<files, cmd>>, replaced' = replaced, pc \in MainLoop,
         \A k \in Entries : mtd'[k].type = mtd[k].type,
         \A p \in Partitions \ {target} : flash'[p] = flash[p],
         replaced = 0, ~died, Updating, ~opt.dryRun,
         NEW k \in Entries, k < e, IsLast(k), Reliable(k)
  PROVE  flash'[args[k].part] = files[args[k].file]
<1>1. TypeOK /\ e \in Entries /\ args[k].part \in Partitions /\ Len(args) \in Nat
  BY EntryFacts, CommandType DEF Inv, TypeOK, Entries, args
<1>2. args[k].part # target
  BY <1>1 DEF IsLast, target, Entries
<1>3. flash[args[k].part] = files[args[k].file]
  BY DEF Inv, FlashInv, FlashedEntry, Flashed
<1> QED
  BY <1>1, <1>2, <1>3

(* The entry is dealt with.                                                *)
LEMMA PartDone ==
  ASSUME Inv, UNCHANGED <<files, cmd>>, replaced' = replaced, pc \in MainLoop,
         NextPart, died => died',
         \A k \in Entries : mtd'[k].type = mtd[k].type,
         \A p \in Partitions \ {target} : flash'[p] = flash[p],
         replaced = 0 /\ ~died' /\ ~opt.dryRun /\ Updating /\ Reliable(e)
           => flash'[target] = files[source]
  PROVE  OptionsInv' /\ FlashInv' /\ pc' \in {"erase", "unlink", "done"}
         /\ (pc' = "unlink" => opt.tmpdir)
<1>1. TypeOK /\ e \in Entries /\ Updating
  BY EntryFacts DEF Inv, OptionsInv, MainLoop
<1>2. /\ Entries' = Entries /\ args' = args /\ opt' = opt /\ (Updating' <=> Updating)
      /\ \A k \in Entries : (IsLast(k)' <=> IsLast(k)) /\ (Reliable(k)' <=> Reliable(k))
  BY SameEntries
<1>3. \A k \in Entries :
        \/ pc' = "erase" /\ (k < e' <=> k < e \/ k = e)
        \/ pc' = (IF opt.tmpdir THEN "unlink" ELSE "done") /\ (k < e \/ k = e)
  BY <1>1, PartStep
<1>4. pc' \in {"erase", "unlink", "done"} /\ (pc' = "unlink" => opt.tmpdir)
  BY <1>1, <1>3
<1>5. OptionsInv'
  BY <1>1, <1>2, <1>4 DEF OptionsInv, MainLoop
<1>6. ASSUME replaced = 0, ~died', ~opt.dryRun, NEW k \in Entries PROVE FlashedEntry(k)'
  <2>1. Flashed(k)' => k < e \/ k = e
    BY <1>3 DEF Flashed, MainLoop
  <2>2. CASE k = e
    BY <1>1, <1>2, <1>6, <2>2 DEF FlashedEntry, source, target
  <2>3. CASE k < e
    <3>1. IsLast(k) /\ Reliable(k) => flash'[args[k].part] = files[args[k].file]
      BY <1>1, <1>6, <2>3, OthersStay
    <3> QED
      BY <1>2, <3>1 DEF FlashedEntry
  <2> QED
    BY <1>2, <2>1, <2>2, <2>3 DEF FlashedEntry
<1>7. FlashInv'
  BY <1>2, <1>4, <1>6 DEF FlashInv
<1> QED
  BY <1>4, <1>5, <1>7

LEMMA EraseInv == Inv /\ Erase => Inv'
<1> SUFFICES ASSUME Inv, Erase PROVE Inv'
  OBVIOUS
<1>1. TypeOK /\ TypeOK' /\ e \in Entries
  BY MainLoopType, EntryFacts DEF Inv
<1>2. /\ UNCHANGED <<files, tmp, mount, cmd, mtd, died>> /\ replaced' = replaced
      /\ pc = "erase" /\ e' = e
  BY DEF Erase, Fault, bounds, Fail
<1>3. CASE pc' = "failed"
  BY <1>1, <1>2, <1>3, SameFiles, Stopped DEF Inv
<1>4. CASE pc' # "failed"
  <2>1. pc' = "write"
    BY <1>4 DEF Erase, Fail
  <2>2. OpenedInv' /\ ChecksumInv' /\ StaleInv' /\ TmpInv'
    BY <1>2, <2>1, LaterStep
  <2>3. /\ Entries' = Entries /\ args' = args /\ opt' = opt /\ (Updating' <=> Updating)
        /\ \A k \in Entries : (IsLast(k)' <=> IsLast(k)) /\ (Reliable(k)' <=> Reliable(k))
    BY <1>2, SameEntries
  <2>4. OptionsInv'
    BY <1>2, <2>1, <2>3 DEF Inv, OptionsInv, MainLoop
  <2>5. \A p \in Partitions \ {target} : flash'[p] = flash[p]
    BY <1>1, EntryFacts DEF Erase, TypeOK
  <2>6. ASSUME replaced = 0, ~died, Updating, ~opt.dryRun, NEW k \in Entries PROVE FlashedEntry(k)'
    <3>1. k < e /\ IsLast(k) /\ Reliable(k) => flash'[args[k].part] = files[args[k].file]
      BY <1>2, <2>5, <2>6, OthersStay DEF MainLoop
    <3> QED
      BY <1>2, <2>1, <2>3, <3>1 DEF FlashedEntry, Flashed
  <2>7. FlashInv'
    BY <1>2, <2>1, <2>3, <2>6 DEF FlashInv
  <2> QED
    BY <1>1, <2>2, <2>4, <2>7 DEF Inv
<1> QED
  BY <1>3, <1>4

(* What a writer reads is the file, when its copy is reliable.             *)
LEMMA DataIsFile ==
  ASSUME Inv, replaced = 0, pc = "write", opt.tmpdir => CopyIsOwn(e),
         External(e) \/ Len(ImageData(e)) = mtd[e].size
  PROVE  ImageData(e) = files[source]
<1>1. TypeOK /\ e \in Entries /\ Updating
  BY EntryFacts DEF Inv, OptionsInv, MainLoop
<1>2. mtd[e].size = Len(files[source]) /\ (mtd[e].inTmp => opt.tmpdir)
  BY <1>1 DEF Inv, OpenedInv, OpenedEntry, Opened, MainLoop, source
<1>3. CASE opt.tmpdir
  <2>1. CopiedEntry(e) /\ Copied(e)
    BY <1>1, <1>3 DEF Inv, TmpInv, Copied, MainLoop
  <2>2. ImageData(e) = TmpData(e)
    BY <2>1 DEF CopiedEntry, ImageData, TmpData
  <2> QED
    BY <1>2, <1>3, <2>1, <2>2 DEF CopiedEntry, source
<1>4. CASE ~opt.tmpdir
  BY <1>2, <1>4 DEF ImageData, source
<1> QED
  BY <1>3, <1>4

LEMMA WriteExternallyInv == Inv /\ WriteExternally => Inv'
<1> SUFFICES ASSUME Inv, WriteExternally PROVE Inv'
  OBVIOUS
<1>1. TypeOK /\ TypeOK' /\ e \in Entries /\ target \in Partitions
  BY MainLoopType, EntryFacts DEF Inv
<1>2. /\ UNCHANGED <<files, tmp, mount, cmd, mtd>> /\ replaced' = replaced
      /\ pc = "write" /\ External(e)
  BY DEF WriteExternally, Fault, bounds
<1>3. CASE pc' = "failed"
  BY <1>1, <1>2, <1>3, SameFiles, Stopped DEF Inv
<1>4. CASE pc' # "failed"
  <2>1. /\ \E c \in {ImageData(e), Torn, flash[target]} : flash' = [flash EXCEPT ![target] = c]
        /\ ~died' => flash' = [flash EXCEPT ![target] = ImageData(e)]
        /\ NextPart /\ (died => died')
    BY <1>4 DEF WriteExternally, Fail, bounds
  <2>2. /\ ~died' => flash'[target] = ImageData(e)
        /\ \A p \in Partitions \ {target} : flash'[p] = flash[p]
    BY <1>1, <2>1 DEF TypeOK
  <2>3. replaced = 0 /\ ~died' /\ Reliable(e) => flash'[target] = files[source]
    BY <1>2, <2>2, DataIsFile DEF Reliable, CheckedAgain
  <2>4. OptionsInv' /\ FlashInv' /\ pc' \in {"erase", "unlink", "done"}
        /\ (pc' = "unlink" => opt.tmpdir)
    BY <1>2, <2>1, <2>2, <2>3, PartDone DEF MainLoop
  <2>5. OpenedInv' /\ ChecksumInv' /\ StaleInv' /\ TmpInv'
    BY <1>2, <2>4, LaterStep
  <2> QED
    BY <1>1, <2>4, <2>5 DEF Inv
<1> QED
  BY <1>3, <1>4

LEMMA MtdPartWriteInv == Inv /\ MtdPartWrite => Inv'
<1> SUFFICES ASSUME Inv, MtdPartWrite PROVE Inv'
  OBVIOUS
<1>1. TypeOK /\ TypeOK' /\ e \in Entries /\ target \in Partitions /\ mtd[e] \in EntryType
  BY MainLoopType, EntryFacts DEF Inv
<1>2. /\ UNCHANGED <<files, tmp, mount, cmd, died>> /\ replaced' = replaced
      /\ pc = "write" /\ ~External(e)
  BY DEF MtdPartWrite, Fault, bounds
<1>3. CASE pc' = "failed"
  <2>1. UNCHANGED mtd
    BY <1>3 DEF MtdPartWrite, NextPart, AfterPart
  <2> QED
    BY <1>1, <1>2, <1>3, <2>1, SameFiles, Stopped DEF Inv
<1>4. CASE pc' # "failed"
  <2>1. /\ Len(ImageData(e)) = mtd[e].size /\ flash' = Written(ImageData(e))
        /\ IF NeedsCheck THEN pc' = "check" /\ UNCHANGED e ELSE NextPart
    BY <1>4 DEF MtdPartWrite, Fail
  <2>2. /\ \A p \in Partitions \ {target} : flash'[p] = flash[p]
        /\ ~opt.dryRun => flash'[target] = ImageData(e)
    BY <1>1, <2>1 DEF Written, TypeOK
  <2>3. \A k \in Entries : /\ mtd'[k].type = mtd[k].type /\ mtd'[k].size = mtd[k].size
                           /\ mtd'[k].inTmp = mtd[k].inTmp
    <3> DEFINE r == [mtd[e] EXCEPT !.crc = ImageData(e), !.crcSet = TRUE, !.crcCalculated = TRUE]
    <3>1. mtd' = mtd \/ mtd' = [mtd EXCEPT ![e] = r]
      BY <1>1, <1>4 DEF MtdPartWrite, Fail, TypeOK
    <3>2. r.type = mtd[e].type /\ r.size = mtd[e].size /\ r.inTmp = mtd[e].inTmp
      BY <1>1 DEF EntryType
    <3>3. \A k \in Entries : mtd'[k] = mtd[k] \/ (k = e /\ mtd'[k] = r)
      BY <1>1, <3>1 DEF TypeOK
    <3> QED
      BY <3>2, <3>3
  <2>4. replaced = 0 /\ ~opt.dryRun /\ (opt.tmpdir => CopyIsOwn(e))
          => flash'[target] = files[source]
    BY <1>2, <2>1, <2>2, DataIsFile
  <2>5. CASE NeedsCheck
    <3>1. /\ Entries' = Entries /\ args' = args /\ opt' = opt /\ (Updating' <=> Updating)
          /\ \A k \in Entries : /\ IsLast(k)' <=> IsLast(k)
                                /\ Reliable(k)' <=> Reliable(k)
                                /\ External(k)' <=> External(k)
      BY <1>2, <2>3, SameEntries
    <3>2. pc' = "check" /\ e' = e
      BY <2>1, <2>5
    <3>3. OptionsInv'
      <4>1. External(e)' <=> External(e)
        BY <1>1, <2>3, <3>1, <3>2 DEF External
      <4> QED
        BY <1>2, <3>1, <3>2, <4>1 DEF Inv, OptionsInv, MainLoop
    <3>4. ASSUME replaced = 0, ~died, Updating, ~opt.dryRun, NEW k \in Entries PROVE FlashedEntry(k)'
      <4>1. k < e /\ IsLast(k) /\ Reliable(k) => flash'[args[k].part] = files[args[k].file]
        BY <1>2, <2>2, <2>3, <3>4, OthersStay DEF MainLoop
      <4> QED
        BY <1>2, <3>1, <3>2, <4>1 DEF FlashedEntry, Flashed
    <3>5. ~opt.verify /\ (Reliable(e))' => (opt.tmpdir => CopyIsOwn(e))
      BY <1>1, <3>1, <3>2 DEF Reliable, CheckedAgain, CopyIsOwn
    <3>6. (flash[target] = files[source])' <=> flash'[target] = files[source]
      BY <1>2, <3>1, <3>2 DEF target, source
    <3>7. FlashInv'
      BY <1>2, <2>4, <3>1, <3>4, <3>5, <3>6 DEF FlashInv
    <3> QED
      BY <1>1, <1>2, <2>3, <3>2, <3>3, <3>7, LaterStep DEF Inv
  <2>6. CASE ~NeedsCheck
    <3>1. replaced = 0 /\ ~opt.dryRun /\ Reliable(e) => flash'[target] = files[source]
      BY <2>4, <2>6 DEF NeedsCheck, Reliable, CheckedAgain
    <3>2. OptionsInv' /\ FlashInv' /\ pc' \in {"erase", "unlink", "done"}
          /\ (pc' = "unlink" => opt.tmpdir)
      BY <1>2, <2>1, <2>2, <2>3, <2>6, <3>1, PartDone DEF MainLoop
    <3>3. OpenedInv' /\ ChecksumInv' /\ StaleInv' /\ TmpInv'
      BY <1>2, <2>3, <3>2, LaterStep
    <3> QED
      BY <1>1, <3>2, <3>3 DEF Inv
  <2> QED
    BY <2>5, <2>6
<1> QED
  BY <1>3, <1>4

LEMMA CheckInv == Inv /\ Check => Inv'
<1> SUFFICES ASSUME Inv, Check PROVE Inv'
  OBVIOUS
<1>1. TypeOK /\ TypeOK' /\ e \in Entries
  BY MainLoopType, EntryFacts DEF Inv
<1>2. /\ UNCHANGED <<files, tmp, flash, mount, cmd, mtd, died>> /\ replaced' = replaced
      /\ pc = "check"
  BY DEF Check, Fault, bounds
<1>3. CASE pc' = "failed"
  BY <1>1, <1>2, <1>3, SameFiles, Stopped DEF Inv
<1>4. CASE pc' # "failed"
  <2>1. NextPart /\ (opt.verify => flash[target] = files[source])
    BY <1>4 DEF Check, Fail, FlashIs
  <2>2. replaced = 0 /\ ~died /\ ~opt.dryRun /\ Updating /\ Reliable(e)
          => flash'[target] = files[source]
    BY <1>2, <2>1 DEF Inv, FlashInv
  <2>3. OptionsInv' /\ FlashInv' /\ pc' \in {"erase", "unlink", "done"}
        /\ (pc' = "unlink" => opt.tmpdir)
    BY <1>2, <2>1, <2>2, PartDone DEF MainLoop
  <2>4. OpenedInv' /\ ChecksumInv' /\ StaleInv' /\ TmpInv'
    BY <1>2, <2>3, LaterStep
  <2> QED
    BY <1>1, <2>3, <2>4 DEF Inv
<1> QED
  BY <1>3, <1>4

LEMMA UnlinkInv == Inv /\ Unlink => Inv'
<1> SUFFICES ASSUME Inv, Unlink PROVE Inv'
  OBVIOUS
<1>1. TypeOK /\ TypeOK' /\ e \in Entries
  BY MainLoopType, EntryFacts DEF Inv
<1>2. /\ UNCHANGED <<files, flash, mount, cmd, mtd, died>> /\ replaced' = replaced
      /\ pc = "unlink" /\ opt.tmpdir /\ Updating
  BY DEF Unlink, Fault, bounds, Inv, OptionsInv
<1>3. StaleInv'
  <2>1. tmp' = tmp \/ tmp' = [tmp EXCEPT ![BaseName[source]] = NoFile]
    BY DEF Unlink
  <2>2. \A f \in Files : BaseName[f] \in NamesOf
    BY DEF NamesOf
  <2> QED
    BY <1>1, <1>2, <2>1, <2>2 DEF Inv, StaleInv, TypeOK
<1>4. CASE pc' = "failed"
  BY <1>1, <1>2, <1>3, <1>4, Stopped DEF Inv
<1>5. CASE pc' # "failed"
  <2>1. pc' \in {"unlink", "done"}
    BY <1>2, <1>5 DEF Unlink, NextEntry, Fail
  <2>2. /\ Entries' = Entries /\ args' = args /\ opt' = opt /\ (Updating' <=> Updating)
        /\ \A k \in Entries : (IsLast(k)' <=> IsLast(k)) /\ (Reliable(k)' <=> Reliable(k))
    BY <1>2, SameEntries
  <2>3. OptionsInv' /\ ChecksumInv'
    BY <1>2, <2>1, <2>2 DEF Inv, OptionsInv, ChecksumInv, Checked, MainLoop
  <2>4. OpenedInv'
    <3>1. ASSUME NEW k \in Entries PROVE OpenedEntry(k)'
      <4>1. OpenedEntry(k) /\ Opened(k)
        BY <1>2 DEF Inv, OpenedInv, Opened
      <4>2. DetectedType(args[k].file)' = DetectedType(args[k].file)
        BY <2>2 DEF DetectedType
      <4> QED
        BY <1>2, <2>1, <2>2, <4>1, <4>2 DEF OpenedEntry
    <3> QED
      BY <2>2, <3>1 DEF OpenedInv
  <2>5. TmpInv'
    BY <2>1 DEF TmpInv, CopiedEntry, Copied, MainLoop
  <2>6. FlashInv'
    BY <1>2, <2>1, <2>2 DEF Inv, FlashInv, FlashedEntry, Flashed, MainLoop
  <2> QED
    BY <1>1, <1>3, <2>3, <2>4, <2>5, <2>6 DEF Inv
<1> QED
  BY <1>4, <1>5

LEMMA OtherStepsInv ==
  Inv /\ (DoMtdVerify \/ DoPrintChecksums \/ Crash \/ Rerun \/ ReplaceFile) => Inv'
<1>4. ASSUME Inv, Crash PROVE Inv'
  <2>1. TypeOK /\ TypeOK' /\ UNCHANGED <<files, mount, cmd, mtd>> /\ replaced' = replaced
        /\ pc' = "failed"
    BY <1>4, OtherStepsType DEF Inv, Crash
  <2>2. StaleInv'
    <3>1. CASE UNCHANGED tmp
      BY <1>4, <2>1, <3>1, SameFiles
    <3>2. CASE ~UNCHANGED tmp
      <4>1. PICK n \in 0..(Len(files[source]) - 1) : tmp' = TmpAfterCopy(SubSeq(files[source], 1, n))
        BY <1>4, <3>2 DEF Crash
      <4>2. files[source] \in Seq(Units)
        BY <2>1, EntryFacts, ContentsType
      <4> QED
        BY <1>4, <2>1, <4>1, <4>2, PrefixType, CopyStale
    <3> QED
      BY <3>1, <3>2
  <2> QED
    BY <1>4, <2>1, <2>2, Stopped DEF Inv
<1>1. ASSUME Inv, DoMtdVerify \/ DoPrintChecksums PROVE Inv'
  <2>1. TypeOK /\ TypeOK' /\ UNCHANGED <<files, tmp, mount, cmd, mtd>> /\ replaced' = replaced
    BY <1>1, OtherStepsType DEF Inv, DoMtdVerify, DoPrintChecksums, Fault, bounds
  <2>2. CASE pc' = "failed"
    BY <2>1, <1>1, <2>2, SameFiles, Stopped DEF Inv
  <2>3. CASE pc' # "failed"
    <3>1. pc \in {"print", "verifyOnly"} /\ (pc' = pc \/ pc' = "done") /\ ~Updating
      BY <1>1, <2>3 DEF DoMtdVerify, DoPrintChecksums, NextEntry, Fail, Inv, OptionsInv
    <3>2. Entries' = Entries /\ opt' = opt /\ (Updating' <=> Updating)
      BY <2>1, SameEntries
    <3>3. OptionsInv' /\ OpenedInv' /\ ChecksumInv' /\ TmpInv' /\ FlashInv'
      BY <1>1, <2>1, <3>1, <3>2
      DEF Inv, OptionsInv, OpenedInv, OpenedEntry, ChecksumInv, TmpInv, CopiedEntry, Copied,
          FlashInv, MainLoop
    <3> QED
      BY <1>1, <2>1, <3>3, SameFiles DEF Inv
  <2> QED
    BY <2>2, <2>3
<1>2. ASSUME Inv, Rerun PROVE Inv'
  <2>1. TypeOK' /\ UNCHANGED <<files, tmp>> /\ replaced' = replaced /\ pc' = "init" /\ e' = 1
    BY <1>2, OtherStepsType DEF Inv, Rerun
  <2>2. \A k \in Entries' : mtd'[k].inTmp = FALSE /\ ~(k < e')
    BY <1>2, <2>1 DEF Rerun, Entries, args, EmptyEntry
  <2>3. OptionsInv' /\ OpenedInv' /\ ChecksumInv' /\ TmpInv' /\ FlashInv'
    BY <2>1, <2>2
    DEF OptionsInv, OpenedInv, OpenedEntry, Opened, ChecksumInv, Checked, TmpInv, CopiedEntry,
        Copied, FlashInv, FlashedEntry, Flashed, MainLoop
  <2> QED
    BY <1>2, <2>1, <2>3, SameFiles DEF Inv
<1>3. ASSUME Inv, ReplaceFile PROVE Inv'
  <2>1. /\ TypeOK' /\ UNCHANGED <<tmp, flash, mount, cmd, pc, e, mtd>> /\ replaced' = replaced + 1
        /\ replaced \in Nat
    BY <1>3, OtherStepsType DEF Inv, ReplaceFile, TypeOK
  <2>2. replaced' # 0
    BY <2>1
  <2>3. ChecksumInv' /\ StaleInv' /\ TmpInv' /\ FlashInv'
    BY <2>2 DEF ChecksumInv, StaleInv, TmpInv, FlashInv
  <2>4. OptionsInv'
    BY <1>3, <2>1 DEF Inv, OptionsInv, External, Updating, opt, args
  <2>5. OpenedInv'
    <3>1. Entries' = Entries /\ args' = args /\ opt' = opt /\ (Updating' <=> Updating)
      BY <2>1, SameEntries
    <3>2. ASSUME NEW k \in Entries PROVE OpenedEntry(k)'
      <4>1. OpenedEntry(k) /\ (Opened(k)' <=> Opened(k))
        BY <1>3, <2>1 DEF Inv, OpenedInv, Opened
      <4>2. DetectedType(args[k].file)' = DetectedType(args[k].file)
        BY <3>1 DEF DetectedType
      <4> QED
        BY <2>1, <2>2, <3>1, <4>1, <4>2 DEF OpenedEntry
    <3> QED
      BY <3>1, <3>2 DEF OpenedInv
  <2> QED
    BY <2>1, <2>3, <2>4, <2>5 DEF Inv
<1> QED
  BY <1>1, <1>2, <1>3, <1>4

LEMMA InvStep == Inv /\ [Next]_vars => Inv'
<1>1. Inv /\ UNCHANGED vars => Inv'
  <2> SUFFICES ASSUME Inv, UNCHANGED vars PROVE Inv'
    OBVIOUS
  <2>1. /\ UNCHANGED <<files, tmp, flash, mount, cmd, pc, e, mtd, died, replaced>>
        /\ TypeOK'
    BY TypeStep DEF vars, Inv
  <2>2. OptionsInv' /\ OpenedInv' /\ ChecksumInv'
    BY <2>1 DEF Inv, OptionsInv, OpenedInv, OpenedEntry, Opened, ChecksumInv, Checked,
                External, Updating, DetectedType, opt, args, Entries
  <2>3. StaleInv' /\ TmpInv'
    BY <2>1 DEF Inv, StaleInv, TmpInv, CopiedEntry, Copied, CopyIsOwn, External, TmpData,
                opt, args, Entries
  <2>4. FlashInv'
    BY <2>1 DEF Inv, FlashInv, FlashedEntry, Flashed, Reliable, CopyIsOwn, CheckedAgain,
                External, IsLast, Updating, opt, args, Entries, target, source
  <2> QED
    BY <2>1, <2>2, <2>3, <2>4 DEF Inv
<1> QED
  BY <1>1, InitStepInv, CopyInv, VerifyFileInv, RemountInv, EraseInv, WriteExternallyInv,
     MtdPartWriteInv, CheckInv, UnlinkInv, OtherStepsInv DEF Next, Terminated

THEOREM Invariance == Spec => []Inv
  BY InitHolds, InvStep, PTL DEF Spec

(***************************************************************************)
(* When the program ends with EXIT_SUCCESS every partition named holds the *)
(* file named last for it: for any number of entries and runs, whatever an *)
(* earlier run left in the temporary directory or in the flash.            *)
(***************************************************************************)
THEOREM SuccessProved == Spec => []SuccessMeansAllFlashed
<1>1. Inv => SuccessMeansAllFlashed
  BY DEF Inv, FlashInv, FlashedEntry, Flashed, Reliable, SuccessMeansAllFlashed
<1> QED
  BY <1>1, Invariance, PTL

(***************************************************************************)
(* A wrong checksum is found before the first partition is touched.        *)
(***************************************************************************)
THEOREM ChecksumsComeFirst == Spec => WrongChecksumTouchesNothing
<1>1. ASSUME Inv, [Next]_vars, replaced = 0, opt.checksum,
             NEW k \in Entries, args[k].crc # files[args[k].file]
      PROVE  flash' = flash
  <2>1. pc \in MainLoop => FALSE
    BY <1>1 DEF Inv, OptionsInv, ChecksumInv, Checked, MainLoop
  <2> QED
    BY <1>1, <2>1 DEF Next, vars, MtdPartInit, MtdPartCopyFile, MtdPartVerifyFile,
       MtdPartRemountAllReadOnly, Erase, WriteExternally, MtdPartWrite, Check, Unlink,
       DoMtdVerify, DoPrintChecksums, Crash, Rerun, ReplaceFile, Terminated, MainLoop
<1>2. Inv /\ [Next]_vars
        => [(/\ replaced = 0 /\ opt.checksum
             /\ \E k \in Entries : args[k].crc # files[args[k].file]) => flash' = flash]_vars
  BY <1>1
<1> QED
  BY <1>2, Invariance, PTL DEF Spec, WrongChecksumTouchesNothing

-----------------------------------------------------------------------------
(* Mounted file systems.                                                   *)

LEMMA MountStep ==
  ASSUME ~RootArgLast, Inv, MountInv, [Next]_vars
  PROVE  MountInv'
<1>1. TypeOK /\ e \in Entries /\ target \in Partitions
  BY EntryFacts DEF Inv
<1>2. CASE MtdPartRemountAllReadOnly
  <2>1. pc = "remount" /\ UNCHANGED cmd
    BY <1>2 DEF MtdPartRemountAllReadOnly
  <2>2. CASE pc' = "failed"
    BY <2>2 DEF MountInv, Remounted, MainLoop
  <2>3. CASE pc' # "failed"
    <3>1. NextEntry("erase")
      BY <1>2, <2>3 DEF MtdPartRemountAllReadOnly, Fail
    <3>2. /\ NamesPartition(target) => mount'[target].how # "rw"
          /\ \A p \in Partitions : mount'[p] # mount[p] => mount'[p].how # "rw"
          /\ \A p \in Partitions : mount'[p].by = mount[p].by
      <4>1. mount \in [Partitions -> MountStates]
        BY <1>1 DEF TypeOK
      <4>2. CASE UNCHANGED mount /\ ~Mounted(target, "mtdblock") /\ ~IsRootDev(target)
        BY <1>1, <4>1, <4>2 DEF Mounted, IsRootDev, GetRootDevice, NamesPartition
      <4>3. CASE \E m \in {"none", "ro"} : mount' = [mount EXCEPT ![target].how = m]
        BY <1>1, <4>1, <4>3 DEF MountStates
      <4> QED
        BY <1>2, <2>3, <4>2, <4>3 DEF MtdPartRemountAllReadOnly, Fail
    <3>3. ASSUME NEW k \in Entries, Remounted(k)', NamesPartition(args[k].part)
          PROVE  mount'[args[k].part].how # "rw"
      <4>1. args[k].part \in Partitions
        BY <1>1, CommandType DEF TypeOK, Entries, args
      <4>2. k < e \/ k = e
        BY <1>1, <2>1, <3>1, <3>3, LoopStep DEF Remounted, MainLoop
      <4>3. CASE k = e
        BY <3>2, <3>3, <4>3 DEF target
      <4>4. CASE k < e
        BY <2>1, <3>2, <3>3, <4>1, <4>4 DEF MountInv, Remounted
      <4> QED
        BY <4>2, <4>3, <4>4
    <3>4. Entries' = Entries /\ args' = args
      BY <2>1, SameEntries
    <3>5. \A k \in Entries : NamesPartition(args[k].part)' <=> NamesPartition(args[k].part)
      <4>1. \A k \in Entries : args[k].part \in Partitions
        BY <1>1, CommandType DEF TypeOK, Entries, args
      <4> QED
        BY <3>2, <3>4, <4>1 DEF NamesPartition
    <3> QED
      BY <3>3, <3>4, <3>5 DEF MountInv
  <2> QED
    BY <2>2, <2>3
<1>3. ASSUME UNCHANGED <<cmd, mount>>, \A k \in Entries : Remounted(k)' => Remounted(k)
      PROVE  MountInv'
  <2>1. Entries' = Entries /\ args' = args
    BY <1>3, SameEntries
  <2> QED
    BY <1>3, <2>1 DEF MountInv, NamesPartition
<1>4. CASE MtdPartInit
  <2>1. pc' \in {"init", "print", "verifyOnly", "copy", "verifyFile", "remount", "failed"}
    BY <1>4 DEF MtdPartInit, NextEntry, Fail, FirstLoop
  <2>2. \A k \in Entries : pc' = "remount" => ~(k < e')
    BY <1>1, <1>4, LoopStep DEF MtdPartInit, Fail
  <2> QED
    BY <1>3, <1>4, <2>1, <2>2 DEF MtdPartInit, Remounted, MainLoop
<1>5. CASE MtdPartCopyFile \/ MtdPartVerifyFile
  <2>1. pc' \in {"copy", "verifyFile", "remount", "failed"} /\ UNCHANGED <<cmd, mount>>
    BY <1>5 DEF MtdPartCopyFile, MtdPartVerifyFile, NextEntry, Fail
  <2>2. \A k \in Entries : pc' = "remount" => ~(k < e')
    BY <1>1, <1>5, LoopStep DEF MtdPartCopyFile, MtdPartVerifyFile, Fail
  <2> QED
    BY <1>3, <2>1, <2>2 DEF Remounted, MainLoop
<1>6. CASE Erase \/ WriteExternally \/ MtdPartWrite \/ Check
  BY <1>3, <1>6 DEF Erase, WriteExternally, MtdPartWrite, Check, Remounted, MainLoop
<1>7. CASE Unlink \/ DoMtdVerify \/ DoPrintChecksums \/ Crash
  <2>1. pc' \notin {"remount"} \cup MainLoop \/ UNCHANGED <<pc, e>>
    BY <1>7 DEF Unlink, DoMtdVerify, DoPrintChecksums, Crash, NextEntry, Fail, MainLoop
  <2>2. pc' \notin {"remount"} \cup MainLoop
    BY <1>7, <2>1 DEF Unlink, DoMtdVerify, DoPrintChecksums, Crash, MainLoop
  <2> QED
    BY <2>2 DEF MountInv, Remounted
<1>8. CASE Rerun
  BY <1>8 DEF Rerun, MountInv, Remounted, MainLoop
<1>9. CASE ReplaceFile \/ Terminated \/ UNCHANGED vars
  BY <1>3, <1>9 DEF ReplaceFile, Terminated, vars, Remounted
<1> QED
  BY <1>2, <1>4, <1>5, <1>6, <1>7, <1>8, <1>9 DEF Next

(***************************************************************************)
(* No partition is written while a file system on it is mounted read-write *)
(* by its block device, or as the /dev/root that root= explains, unless    *)
(* root= ends the kernel command line (see GetRootDevice).  Nothing is     *)
(* said of UBI volumes, which the program does not look for.               *)
(***************************************************************************)
THEOREM WrittenUnmounted ==
  ASSUME ~RootArgLast
  PROVE  Spec => NotMountedWhileWritten
<1>1. Init => MountInv
  BY DEF Init, MountInv, Remounted, MainLoop
<1>2. ASSUME Inv, MountInv, [Next]_vars, NEW p \in Partitions, flash'[p] # flash[p],
             NamesPartition(p)
      PROVE  mount[p].how # "rw"
  <2>1. pc \in {"erase", "write"} /\ p = target
    BY <1>2 DEF Inv, TypeOK, Next, vars, MtdPartInit, MtdPartCopyFile, MtdPartVerifyFile,
       MtdPartRemountAllReadOnly, Erase, WriteExternally, MtdPartWrite, Written, Check, Unlink,
       DoMtdVerify, DoPrintChecksums, Crash, Rerun, ReplaceFile, Terminated
  <2>2. e \in Entries
    BY <1>2 DEF Inv, TypeOK
  <2> QED
    BY <1>2, <2>1, <2>2 DEF MountInv, Remounted, MainLoop, target
<1>3. Inv /\ MountInv /\ [Next]_vars
        => [\A p \in Partitions :
              flash'[p] # flash[p] /\ NamesPartition(p) => mount[p].how # "rw"]_vars
  BY <1>2
<1>4. Inv /\ MountInv /\ [Next]_vars => MountInv'
  BY MountStep
<1> QED
  BY <1>1, <1>3, <1>4, Invariance, PTL DEF Spec, NotMountedWhileWritten

-----------------------------------------------------------------------------
(* The abstract specification.                                             *)

(* One of the entries for a partition is the last.                         *)
LEMMA LastExists ==
  ASSUME TypeOK, NEW p, NEW j \in Entries, args[j].part = p
  PROVE  \E k \in Entries : args[k].part = p /\ IsLast(k)
<1>1. Len(args) \in Nat
  BY EntryFacts
<1> DEFINE n == Len(args)
           T == {d \in Nat : \E k \in Entries : d = n - k /\ args[k].part = p}
<1>2. n - j \in T
  BY <1>1 DEF Entries
<1>3. PICK x \in T : \A y \in T : x <= y
  <2>1. T \in SUBSET Nat /\ T # {}
    BY <1>2
  <2> HIDE DEF T
  <2> QED
    BY <2>1, NatMin
<1>4. PICK k \in Entries : x = n - k /\ args[k].part = p
  BY <1>3
<1>5. ASSUME NEW i \in Entries, args[i].part = p PROVE i <= k
  <2>1. n - i \in T
    BY <1>1, <1>5 DEF Entries
  <2>2. n - k <= n - i
    BY <1>3, <1>4, <2>1
  <2> QED
    BY <1>1, <2>2 DEF Entries
<1> QED
  BY <1>4, <1>5 DEF IsLast

(* The file wanted in a partition is that of its last entry.               *)
LEMMA WantedIs ==
  TypeOK => \A k \in Entries : IsLast(k) => Wanted(args[k].part) = files[args[k].file]
<1> SUFFICES ASSUME TypeOK, NEW k \in Entries, IsLast(k)
             PROVE  Wanted(args[k].part) = files[args[k].file]
  OBVIOUS
<1> DEFINE p == args[k].part
           j == CHOOSE i \in Entries : args[i].part = p /\ IsLast(i)
<1>1. j \in Entries /\ args[j].part = p /\ IsLast(j)
  OBVIOUS
<1>2. j <= k /\ k <= j
  BY <1>1 DEF IsLast
<1>3. j \in Int /\ k \in Int
  BY <1>1, EntryFacts DEF Entries
<1> HIDE DEF j
<1>4. j = k
  BY <1>2, <1>3
<1> QED
  BY <1>4 DEF Wanted, j

LEMMA WantedFacts ==
  ASSUME PlainUpdates, TypeOK, NEW p \in Partitions
  PROVE  \E k \in Entries : /\ args[k].part = p /\ IsLast(k)
                            /\ Wanted(p) = files[args[k].file] /\ Wanted(p) \in Seq(Units)
<1>1. PICK j \in Entries : args[j].part = p
  BY DEF PlainUpdates, TypeOK, Entries, args
<1>2. PICK k \in Entries : args[k].part = p /\ IsLast(k)
  BY <1>1, LastExists
<1>3. Wanted(p) = files[args[k].file]
  BY <1>2, WantedIs
<1>4. files[args[k].file] \in Seq(Units)
  BY CommandType, ContentsType DEF TypeOK, Entries, args
<1> QED
  BY <1>2, <1>3, <1>4

LEMMA WantedSame ==
  ASSUME PlainUpdates, TypeOK, TypeOK', UNCHANGED <<files, cmd>>, NEW p \in Partitions
  PROVE  Wanted(p)' = Wanted(p)
<1>1. (TypeOK => \A k \in Entries : IsLast(k) => Wanted(args[k].part) = files[args[k].file])'
  BY WantedIs, PTL
<1>2. PICK k \in Entries : args[k].part = p /\ IsLast(k) /\ Wanted(p) = files[args[k].file]
  BY WantedFacts
<1>3. k \in Entries' /\ IsLast(k)' /\ args' = args
  BY <1>2, SameEntries
<1> QED
  BY <1>1, <1>2, <1>3

(* Every entry of a plain update gets what its copy can be trusted with.   *)
LEMMA PlainFacts ==
  ASSUME PlainUpdates, Inv
  PROVE  /\ Updating /\ ~opt.dryRun
         /\ pc # "init" => \A k \in Entries : pc # "failed" => Reliable(k)
<1>1. TypeOK /\ cmd \in CommandLines
  BY DEF Inv, TypeOK
<1>2. Updating /\ ~opt.dryRun
  BY <1>1 DEF PlainUpdates, Updating, opt
<1>3. ASSUME pc # "init", pc # "failed", NEW k \in Entries, opt.tmpdir
      PROVE  CopyIsOwn(k) \/ CheckedAgain(k)
  <2>1. Opened(k)
    BY <1>1, <1>2, <1>3 DEF Inv, OptionsInv, TypeOK, PcSet, Opened, MainLoop
  <2>2. mtd[k].type = DetectedType(args[k].file)
    BY <1>2, <2>1 DEF Inv, OpenedInv, OpenedEntry
  <2>3. CASE OwnName(args[k].file)
    <3>1. \A j \in Entries : args[j].file \in Files
      BY <1>1, CommandType DEF Entries, args
    <3> QED
      BY <2>3, <3>1 DEF OwnName, CopyIsOwn
  <2>4. CASE ~OwnName(args[k].file)
    <3>1. opt.verify /\ PartType[args[k].part] # "FTBootstream" /\ FileType[args[k].file] # "FTUBI"
      BY <1>1, <1>3, <2>4 DEF PlainUpdates, opt, args, Entries
    <3> QED
      BY <2>2, <3>1 DEF CheckedAgain, External, DetectedType
  <2> QED
    BY <2>3, <2>4
<1> QED
  BY <1>2, <1>3 DEF Reliable

LEMMA ContentsSame ==
  ASSUME PlainUpdates, TypeOK, TypeOK', UNCHANGED <<files, cmd, flash>>
  PROVE  AbstractContents' = AbstractContents
<1>1. \A p \in Partitions : Wanted(p)' = Wanted(p)
  BY WantedSame
<1> QED
  BY <1>1 DEF AbstractContents

(* A write to the current partition is one in the abstract specification.  *)
LEMMA ContentsChange ==
  ASSUME PlainUpdates, TypeOK, TypeOK', UNCHANGED <<files, cmd>>,
         NEW c \in Seq(Units) \cup {NoFile, Torn}, flash' = [flash EXCEPT ![target] = c]
  PROVE  /\ target \in Partitions
         /\ \E a \in {"torn", "new"} : /\ AbstractContents' = [AbstractContents EXCEPT ![target] = a]
                                       /\ c = Torn => a = "torn"
<1>1. target \in Partitions
  BY EntryFacts
<1>2. \A p \in Partitions : Wanted(p)' = Wanted(p) /\ Wanted(p) \in Seq(Units)
  BY WantedSame, WantedFacts
<1>3. c # Old /\ Torn \notin Seq(Units)
  BY MarkersDiffer
<1> DEFINE a == IF c = Wanted(target) THEN "new" ELSE "torn"
<1>4. \A p \in Partitions : AbstractContents'[p] = [AbstractContents EXCEPT ![target] = a][p]
  BY <1>1, <1>2, <1>3 DEF AbstractContents, TypeOK
<1>5. AbstractContents' = [AbstractContents EXCEPT ![target] = a]
  BY <1>4 DEF AbstractContents
<1> QED
  BY <1>1, <1>2, <1>3, <1>5

(* The program ends with success only when everything is new.              *)
LEMMA DoneIsNew ==
  PlainUpdates /\ Inv /\ pc = "done" /\ replaced = 0 /\ ~died
    => \A p \in Partitions : AbstractContents[p] = "new"
<1> SUFFICES ASSUME PlainUpdates, Inv, pc = "done", replaced = 0, ~died, NEW p \in Partitions
             PROVE  AbstractContents[p] = "new"
  OBVIOUS
<1>1. PICK k \in Entries : /\ args[k].part = p /\ IsLast(k)
                           /\ Wanted(p) = files[args[k].file] /\ Wanted(p) \in Seq(Units)
  BY WantedFacts DEF Inv
<1>2. Updating /\ ~opt.dryRun /\ Reliable(k)
  BY PlainFacts
<1>3. flash[p] = Wanted(p)
  BY <1>1, <1>2 DEF Inv, FlashInv, FlashedEntry, Flashed
<1> QED
  BY <1>1, <1>3, MarkersDiffer DEF AbstractContents

(* Steps that do not touch the flash.                                      *)
LEMMA QuietSteps ==
  ASSUME PlainUpdates, Inv, Inv', UNCHANGED <<files, cmd, flash>>,
         replaced' = replaced, replaced = 0, ~died'
  PROVE  /\ AbstractStatus' = AbstractStatus => UNCHANGED <<AbstractContents, AbstractStatus>>
         /\ AbstractStatus = "checking" /\ AbstractStatus' = "updating" => Abstract!Next
         /\ AbstractStatus = "updating" /\ pc' = "done" => Abstract!Next
         /\ AbstractStatus \in {"checking", "updating"} /\ pc' = "failed" => Abstract!Next
<1>1. AbstractContents' = AbstractContents
  BY ContentsSame DEF Inv
<1>2. target \in Partitions
  BY EntryFacts DEF Inv
<1>3. AbstractStatus = "checking" /\ AbstractStatus' = "updating" => Abstract!Next
  BY <1>1 DEF Abstract!Next, Abstract!Begin
<1>4. ASSUME AbstractStatus = "updating", pc' = "done" PROVE Abstract!Next
  <2>1. AbstractStatus' = "succeeded"
    BY <1>4 DEF AbstractStatus
  <2>2. (PlainUpdates /\ Inv /\ pc = "done" /\ replaced = 0 /\ ~died
           => \A p \in Partitions : AbstractContents[p] = "new")'
    BY DoneIsNew, PTL
  <2>3. \A p \in Partitions : AbstractContents'[p] = "new"
    BY <1>4, <2>2
  <2>4. Abstract!Succeed
    BY <1>1, <1>2, <1>4, <2>1, <2>3 DEF Abstract!Succeed
  <2> QED
    BY <2>4 DEF Abstract!Next
<1>5. ASSUME AbstractStatus \in {"checking", "updating"}, pc' = "failed" PROVE Abstract!Next
  <2>1. AbstractStatus' = "failed"
    BY <1>5 DEF AbstractStatus
  <2> QED
    BY <1>1, <1>5, <2>1 DEF Abstract!Next, Abstract!Abort
<1> QED
  BY <1>1, <1>3, <1>4, <1>5

(* Steps that change the partition of the current entry.                   *)
LEMMA FlashSteps ==
  ASSUME PlainUpdates, Inv, Inv', UNCHANGED <<files, cmd>>,
         replaced' = replaced, replaced = 0, ~died', pc \in {"erase", "write"},
         NEW c \in Seq(Units) \cup {NoFile, Torn}, flash' = [flash EXCEPT ![target] = c]
  PROVE  /\ pc' \in {"erase", "write", "check", "unlink", "done"} => Abstract!Next
         /\ pc' = "failed" => Abstract!Next
<1>1. PICK a \in {"torn", "new"} : AbstractContents' = [AbstractContents EXCEPT ![target] = a]
  BY ContentsChange DEF Inv
<1>2. target \in Partitions /\ AbstractStatus = "updating"
  BY EntryFacts DEF Inv, AbstractStatus
<1>3. ASSUME pc' \in {"erase", "write", "check", "unlink"} PROVE Abstract!Next
  <2>1. AbstractStatus' = "updating"
    BY <1>3 DEF AbstractStatus
  <2>2. Abstract!Tear(target) \/ Abstract!Complete(target)
    BY <1>1, <1>2, <2>1 DEF Abstract!Tear, Abstract!Complete
  <2> QED
    BY <1>2, <2>2 DEF Abstract!Next
<1>4. ASSUME pc' = "done" PROVE Abstract!Next
  <2>1. AbstractStatus' = "succeeded"
    BY <1>4 DEF AbstractStatus
  <2>2. (PlainUpdates /\ Inv /\ pc = "done" /\ replaced = 0 /\ ~died
           => \A p \in Partitions : AbstractContents[p] = "new")'
    BY DoneIsNew, PTL
  <2>3. \A p \in Partitions : AbstractContents'[p] = "new"
    BY <1>4, <2>2
  <2>4. AbstractContents' = [AbstractContents EXCEPT ![target] = "new"]
    BY <1>1, <1>2, <2>3 DEF AbstractContents
  <2>5. Abstract!Succeed
    BY <1>2, <2>1, <2>3, <2>4 DEF Abstract!Succeed
  <2> QED
    BY <2>5 DEF Abstract!Next
<1>5. ASSUME pc' = "failed" PROVE Abstract!Next
  <2>1. AbstractStatus' = "failed"
    BY <1>5 DEF AbstractStatus
  <2>2. Abstract!Abort
    BY <1>1, <1>2, <2>1 DEF Abstract!Abort
  <2> QED
    BY <2>2 DEF Abstract!Next
<1> QED
  BY <1>3, <1>4, <1>5

LEMMA StepSimulated ==
  ASSUME PlainUpdates, Inv, Inv', [Next]_vars, replaced = 0, MaxReplace = 0,
         ~died', ~WritersKilled
  PROVE  Abstract!Next \/ UNCHANGED <<AbstractContents, AbstractStatus>>
<1>1. TypeOK /\ Updating /\ ~opt.dryRun /\ pc \notin {"print", "verifyOnly"} /\ target \in Partitions
  BY PlainFacts, EntryFacts DEF Inv, OptionsInv
<1>2. CASE MtdPartInit \/ MtdPartCopyFile \/ MtdPartVerifyFile \/ MtdPartRemountAllReadOnly
  <2>1. /\ UNCHANGED <<files, cmd, flash>> /\ replaced' = replaced
        /\ pc \in {"init", "copy", "verifyFile", "remount"}
        /\ pc' \in {"init", "copy", "verifyFile", "remount", "erase", "failed"}
    BY <1>1, <1>2 DEF MtdPartInit, MtdPartCopyFile, MtdPartVerifyFile, MtdPartRemountAllReadOnly,
       NextEntry, Fail, Fault, bounds, FirstLoop, Updating
  <2>2. AbstractStatus = "checking" /\ (pc' # "failed" => AbstractStatus' \in {"checking", "updating"})
    BY <2>1 DEF AbstractStatus
  <2> QED
    BY <2>1, <2>2, QuietSteps
<1>3. CASE Erase
  <2>1. /\ UNCHANGED <<files, cmd>> /\ replaced' = replaced /\ pc = "erase"
        /\ pc' \in {"write", "failed"}
        /\ flash' = flash \/ flash' = [flash EXCEPT ![target] = Torn]
    BY <1>3 DEF Erase, Fail, Fault, bounds
  <2>2. AbstractStatus = "updating" /\ (pc' = "write" => AbstractStatus' = "updating")
    BY <2>1 DEF AbstractStatus
  <2> QED
    BY <2>1, <2>2, QuietSteps, FlashSteps
<1>4. CASE WriteExternally
  <2>1. /\ UNCHANGED <<files, cmd>> /\ replaced' = replaced /\ pc = "write"
        /\ pc' \in {"erase", "unlink", "done", "failed"}
    BY <1>4 DEF WriteExternally, NextPart, AfterPart, Fail, Fault, bounds
  <2>2. \/ flash' = [flash EXCEPT ![target] = ImageData(e)]
        \/ flash' = [flash EXCEPT ![target] = Torn]
        \/ flash' = flash /\ pc' = "failed"
    BY <1>1, <1>4 DEF WriteExternally, Fail, TypeOK
  <2>3. ImageData(e) \in Seq(Units) \cup {NoFile} /\ AbstractStatus = "updating"
    BY <1>1, <2>1, EntryFacts DEF AbstractStatus
  <2> QED
    BY <2>1, <2>2, <2>3, QuietSteps, FlashSteps
<1>5. CASE MtdPartWrite
  <2>1. /\ UNCHANGED <<files, cmd>> /\ replaced' = replaced /\ pc = "write"
        /\ pc' \in {"erase", "check", "unlink", "done", "failed"}
    BY <1>5 DEF MtdPartWrite, NextPart, AfterPart, Fail, Fault, bounds
  <2>2. \/ flash' = [flash EXCEPT ![target] = ImageData(e)]
        \/ flash' = [flash EXCEPT ![target] = Torn]
    BY <1>1, <1>5 DEF MtdPartWrite, Written
  <2>3. ImageData(e) \in Seq(Units) \cup {NoFile}
    BY <1>1, EntryFacts
  <2> QED
    BY <2>1, <2>2, <2>3, FlashSteps
<1>6. CASE Check \/ Unlink
  <2>1. /\ UNCHANGED <<files, cmd, flash>> /\ replaced' = replaced
        /\ pc \in {"check", "unlink"} /\ pc' \in {"erase", "unlink", "done", "failed"}
    BY <1>6 DEF Check, Unlink, NextPart, NextEntry, AfterPart, Fail, Fault, bounds
  <2>2. AbstractStatus = "updating" /\ (pc' \in {"erase", "unlink"} => AbstractStatus' = "updating")
    BY <2>1 DEF AbstractStatus
  <2> QED
    BY <2>1, <2>2, QuietSteps
<1>7. CASE DoMtdVerify \/ DoPrintChecksums
  BY <1>1, <1>7 DEF DoMtdVerify, DoPrintChecksums
<1>8. CASE Crash
  <2>1. /\ UNCHANGED <<files, cmd>> /\ replaced' = replaced /\ pc' = "failed" /\ Running
        /\ \/ flash' = flash
           \/ pc \in {"erase", "write"} /\ flash' = [flash EXCEPT ![target] = Torn]
    BY <1>8 DEF Crash
  <2>2. AbstractStatus \in {"checking", "updating"}
    BY <1>1, <2>1 DEF AbstractStatus, Running, TypeOK, PcSet
  <2> QED
    BY <2>1, <2>2, QuietSteps, FlashSteps
<1>9. CASE Rerun
  <2>1. AbstractStatus = "failed" /\ AbstractStatus' = "checking" /\ flash' = flash
    BY <1>9 DEF Rerun, AbstractStatus
  <2>2. AbstractContents' \in [Partitions -> {"old", "torn", "new"}]
    BY DEF AbstractContents
  <2>3. \A p \in Partitions : AbstractContents'[p] = "old" <=> AbstractContents[p] = "old"
    BY <2>1 DEF AbstractContents
  <2> QED
    BY <2>1, <2>2, <2>3 DEF Abstract!Next, Abstract!Repeat
<1>10. CASE ReplaceFile
  BY <1>1, <1>10 DEF ReplaceFile, TypeOK
<1>11. CASE Terminated \/ UNCHANGED vars
  <2>1. UNCHANGED <<files, cmd, flash>> /\ replaced' = replaced /\ AbstractStatus' = AbstractStatus
    BY <1>11 DEF Terminated, vars, AbstractStatus
  <2> QED
    BY <2>1, QuietSteps
<1> QED
  BY <1>2, <1>3, <1>4, <1>5, <1>6, <1>7, <1>8, <1>9, <1>10, <1>11 DEF Next

(***************************************************************************)
(* update_flash implements FlashUpdate: nothing changes before all checks  *)
(* are passed, success is reported when every partition is new, and a      *)
(* failed or killed update can be repeated; for command lines that update  *)
(* every partition, image files nobody replaces meanwhile and an ubiformat *)
(* that no signal kills.                                                   *)
(***************************************************************************)
THEOREM ImplementsFlashUpdate ==
  ASSUME PlainUpdates, MaxReplace = 0, ~WritersKilled
  PROVE  Spec => AbstractSpec
<1>1. Init => replaced = 0 /\ ~died /\ Abstract!Init
  <2> SUFFICES ASSUME Init PROVE replaced = 0 /\ ~died /\ Abstract!Init
    OBVIOUS
  <2>1. flash = [p \in Partitions |-> Old] /\ pc = "init" /\ replaced = 0 /\ ~died
    BY DEF Init
  <2>2. AbstractContents = [p \in Partitions |-> "old"]
    BY <2>1 DEF AbstractContents
  <2> QED
    BY <2>1, <2>2 DEF Abstract!Init, AbstractStatus
<1>2. replaced = 0 /\ ~died /\ [Next]_vars => (replaced = 0)' /\ ~died'
  <2> SUFFICES ASSUME replaced = 0, ~died, [Next]_vars PROVE replaced' = 0 /\ ~died'
    OBVIOUS
  <2>1. CASE ReplaceFile
    BY <2>1 DEF ReplaceFile
  <2>2. CASE MtdPartInit \/ MtdPartCopyFile \/ MtdPartVerifyFile \/ MtdPartRemountAllReadOnly
    BY <2>2 DEF bounds, Fault, MtdPartInit, MtdPartCopyFile, MtdPartVerifyFile,
       MtdPartRemountAllReadOnly
  <2>3. CASE Erase \/ WriteExternally \/ MtdPartWrite \/ Check \/ Unlink
    BY <2>3 DEF bounds, Fault, Erase, WriteExternally, MtdPartWrite, Check, Unlink
  <2>4. CASE DoMtdVerify \/ DoPrintChecksums \/ Crash \/ Rerun \/ Terminated \/ UNCHANGED vars
    BY <2>4 DEF bounds, Fault, DoMtdVerify, DoPrintChecksums, Crash, Rerun, Terminated, vars
  <2> QED
    BY <2>1, <2>2, <2>3, <2>4 DEF Next
<1>3. Inv /\ Inv' /\ replaced = 0 /\ ~died' /\ [Next]_vars
        => [Abstract!Next]_<<AbstractContents, AbstractStatus>>
  BY StepSimulated
<1> QED
  BY <1>1, <1>2, <1>3, Invariance, PTL DEF Spec, AbstractSpec, Abstract!Spec
=============================================================================
