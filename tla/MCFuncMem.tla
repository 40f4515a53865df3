----------------------------- MODULE MCFuncMem -----------------------------
(***************************************************************************)
(* Small instances of FuncMem for TLC: a heap of two blocks in the upper   *)
(* addresses, the library's regions and the program's own below.           *)
(***************************************************************************)
EXTENDS FuncMem

CONSTANTS f1, f2

MCFuncs == {f1, f2}
OneFunc == {f1}
MCLengths == {1, 2}
OneLength == {1}
MCBases == {5, 6}       \* a long block at 5 leaves no room at 6
MCHeapArea == 4 .. 7

Request(perm, lo, hi) == [perm |-> perm, lo |-> lo, hi |-> hi]

MCFrameRequests ==
    << Request({"R", "V"}, 0, 1),
       Request({"R", "W", "V"}, 1, 2),
       Request({"R", "W"}, 2, 3) >>
MCOtherRequests == {Request({"R", "V"}, 3, 4)}
NoRequests == {}

=============================================================================
