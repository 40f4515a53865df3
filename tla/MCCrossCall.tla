---------------------------- MODULE MCCrossCall ----------------------------
(***************************************************************************)
(* Small instances of CrossCall for TLC: a trusted program and two         *)
(* untrusted libraries that call one another.                              *)
(***************************************************************************)
EXTENDS CrossCall

CONSTANTS main, liba, libb

MCLibs == {main, liba, libb}
MCMainLibs == {main}

Region(lo, hi) == [lo |-> lo, hi |-> hi]

\* The regions of the libraries share no granule; the stack is its own.
MCReadRegion ==
    [l \in MCLibs |-> IF l = liba THEN Region(0, 1) ELSE Region(2, 3)]
MCWriteRegion ==
    [l \in MCLibs |-> IF l = liba THEN Region(1, 2) ELSE Region(3, 4)]
MCStackRegions == {Region(4, 5)}

=============================================================================
