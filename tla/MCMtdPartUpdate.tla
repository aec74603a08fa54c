-------------------------- MODULE MCMtdPartUpdate --------------------------
(***************************************************************************)
(* Instances of MtdPartUpdate: which option combinations, images and       *)
(* initially bad or worn blocks the runs consider.                         *)
(***************************************************************************)
EXTENDS MtdPartUpdate

With(S) == [o \in BoolOptions |-> o \in S]

\* -v, -c, -i, -f and -b in the combinations that take different paths
UpdateOptions ==
    {With(S) : S \in {{}, {"cVerify"}, {"cHasChecksum"}, {"cMarkBadBlocks"},
                      {"cMarkBadBlocks", "cVerify"},
                      {"cHasChecksum", "cMarkBadBlocks"},
                      {"cNoImageTypeCheck"}, {"cEraseAll"},
                      {"cVerifyOnly"}, {"cDryRun"},
                      {"jffs2Name"}, {"jffs2Name", "cVerify"}}}

ChecksumOptions == {With({"cHasChecksum"})}
MarkerOptions == {With({"cWriteCleanMarker"})}
VerifyOnlyOptions == {With({"cVerifyOnly", "cMarkBadBlocks"})}

NandImages == {<<"a", "b">>, <<"a", "b", "a">>, <<NODE, "a", "b", "a", NODE>>}
SmallImages == {<<"a", "b">>, <<"b", "a">>}

AtMostOneBad == {{}} \cup {{b} : b \in Blocks}
NoneBad == {{}}
=============================================================================
