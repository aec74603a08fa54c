--------------------------- MODULE MCUpdateFlash ---------------------------
(***************************************************************************)
(* Instances of UpdateFlash: a kernel, a bootstream and an unnamed         *)
(* partition; raw, UBI and bootstream images, two of them with the same    *)
(* base name in different directories.                                     *)
(***************************************************************************)
EXTENDS UpdateFlash

AllParts == {"kernel", "boot", "rootfs"}
AllFiles == {"a/uImage", "b/uImage", "root.ubi", "u-boot.sb"}
Names == [f \in Files |-> IF f \in {"a/uImage", "b/uImage"} THEN "uImage" ELSE f]
FileTypes == [f \in Files |-> CASE f = "root.ubi" -> "FTUBI"
                                    [] f = "u-boot.sb" -> "FTBootstream"
                                    [] OTHER -> "FTKernel"]
PartTypes == [p \in Partitions |-> CASE p = "boot" -> "FTBootstream"
                                    [] p = "kernel" -> "FTKernel"
                                    [] OTHER -> "FTUnknown"]
AllUnits == {"x", "y"}
TwoContents == {<<"x">>, <<"y", "x">>}
SameSize == {<<"x">>, <<"y">>}
ThreeContents == SameSize \cup TwoContents

With(S) == [o \in OptNames |-> o \in S]
Entry(f, p, c) == [file |-> f, part |-> p, crc |-> c]

\* one, two or three entries; with -c every combination of checksums
ArgLists == {<<<<"a/uImage", "kernel">>>>,
             <<<<"a/uImage", "kernel">>, <<"root.ubi", "rootfs">>>>,
             <<<<"u-boot.sb", "boot">>, <<"a/uImage", "rootfs">>>>,
             <<<<"a/uImage", "kernel">>, <<"a/uImage", "rootfs">>>>,
             <<<<"a/uImage", "kernel">>, <<"b/uImage", "rootfs">>>>,
             <<<<"a/uImage", "kernel">>, <<"b/uImage", "kernel">>>>,
             <<<<"root.ubi", "kernel">>>>}
OptSets == {{}, {"verify"}, {"tmpdir"}, {"tmpdir", "verify"}, {"noTypeCheck"},
            {"verifyOnly"}, {"checksumOnly"}, {"noTypeCheck", "tmpdir"}}
CrcOptSets == {{"checksum"}, {"checksum", "tmpdir"}, {"checksum", "verify"},
               {"checksum", "checksumOnly"}, {"checksum", "noTypeCheck"},
               {"checksum", "tmpdir", "verify"}}

Lines(ls, S) == {[opt |-> With(s), args |-> [k \in 1..Len(l) |-> Entry(l[k][1], l[k][2], <<>>)]] :
                 l \in ls, s \in S}
CrcLines(ls, S) == UNION {{[opt |-> With(s), args |-> [k \in 1..Len(l) |-> Entry(l[k][1], l[k][2], c[k])]] :
                 s \in S, c \in [1..Len(l) -> SameSize]} : l \in ls}

UpdateLines == Lines(ArgLists, OptSets)
ChecksumLines == CrcLines(ArgLists, CrcOptSets)
AllLines == UpdateLines \cup ChecksumLines

\* command lines with the same targets, for the refinement
PairLists == {<<<<"a/uImage", "kernel">>, <<"root.ubi", "rootfs">>>>,
              <<<<"b/uImage", "kernel">>, <<"a/uImage", "rootfs">>>>}
PairLines == Lines(PairLists, {{}, {"verify"}, {"tmpdir", "verify"}, {"noTypeCheck"}})
                \cup CrcLines(PairLists, {{"checksum"}, {"checksum", "verify", "tmpdir"}})
Pair == {"kernel", "rootfs"}
PairFiles == {"a/uImage", "b/uImage", "root.ubi"}

DryLines == Lines(ArgLists, {{"dryRun"}})
CollisionLines == CrcLines({<<<<"a/uImage", "kernel">>, <<"b/uImage", "rootfs">>>>},
                           {{"checksum", "tmpdir"}})
TmpLines == Lines({<<<<"a/uImage", "kernel">>>>, <<<<"b/uImage", "kernel">>>>}, {{"tmpdir"}})

\* the root file system and another one: on the block device, or a UBI volume
MountTable(by) == [p \in Partitions |->
    CASE p = "rootfs" -> [by |-> "root", how |-> "rw"]
      [] p = "kernel" -> [by |-> by, how |-> "rw"]
      [] OTHER -> [by |-> "mtdblock", how |-> "none"]]
SomeMounts == {MountTable("mtdblock"), MountTable("ubi")}
NoMounts == {[p \in Partitions |-> [by |-> "mtdblock", how |-> "none"]]}
=============================================================================
