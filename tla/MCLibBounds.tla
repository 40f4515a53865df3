---------------------------- MODULE MCLibBounds ----------------------------
(***************************************************************************)
(* Small instances of LibBounds for TLC.                                   *)
(***************************************************************************)
EXTENDS LibBounds

\* Overlapping and nested requests, unaligned ends, both permissions.
MCRequests ==
    { [perm |-> {"R", "V"}, lo |-> 1, hi |-> 3],
      [perm |-> {"R", "W"}, lo |-> 2, hi |-> 4] }

MCHandleArgs == -1 .. MaxHandles

NoOSEntries == [s \in {} |-> 0]

OSEntry(lo, hi, priv) == [bound |-> [lo |-> lo, hi |-> hi], priv |-> priv]

\* The kernel left the first register in use, or the first and the last.
FirstOSEntry == [s \in {0} |-> OSEntry(0, 4, {"V", "R"})]
TwoOSEntries ==
    [s \in {0, NumSlots - 1} |->
        IF s = 0 THEN OSEntry(0, 4, {"V", "R"})
        ELSE OSEntry(2, 6, {"V", "R", "W"})]

\* The kernel left only the last register in use.
LastOSEntry == [s \in {NumSlots - 1} |-> OSEntry(0, 4, {"V", "R"})]

=============================================================================
