----------------------------- MODULE MCDmalloc -----------------------------
(***************************************************************************)
(* Small instances of Dmalloc for TLC: chunks of one page's shape (64      *)
(* bytes, aligned like a page), two of them side by side.                  *)
(***************************************************************************)
EXTENDS Dmalloc

MCChunkBases == {128, 192, 640}
MCSizes == {4, 8, 12, 20, 44}
FullSizes == {8, 56}

=============================================================================
