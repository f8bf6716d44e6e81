---------------------------- MODULE MCFileBackup ----------------------------
(* FileBackup for TLC: three contents, so that the committed content, the  *)
(* one being written and a torn one can all differ.                        *)
EXTENDS FileBackup, TLC

CONSTANTS c1, c2, c3, s1, s2, s3

MCContents == {c1, c2, c3}
MCSums     == {s1, s2, s3}
MCCrc32    == (c1 :> s1) @@ (c2 :> s2) @@ (c3 :> s3)

(* A permutation of the contents, and of their checksums with them.        *)
ContentSymmetry ==
  { p @@ [s \in MCSums |-> LET c == CHOOSE d \in MCContents : MCCrc32[d] = s
                           IN  MCCrc32[p[c]]] : p \in Permutations(MCContents) }

=============================================================================
