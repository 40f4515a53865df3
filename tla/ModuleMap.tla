----------------------------- MODULE ModuleMap -----------------------------
(***************************************************************************)
(* The areas of an ELF object as _fill_module_map of dynamic.c computes    *)
(* them from its loadable segments. One area of each kind is all there is: *)
(* cross_call makes one bound of the read-only area, one of the writable   *)
(* area, and a jump register of the text.                                  *)
(***************************************************************************)
EXTENDS Integers, SequencesExt

Segment == [lo : Nat, hi : Nat, flags : SUBSET {"R", "W", "X"}]
Area == [lo : Nat, hi : Nat]

NoArea == [lo |-> 0, hi |-> 0]

IsText(seg) == "X" \in seg.flags
IsReadOnly(seg) == "R" \in seg.flags /\ "W" \notin seg.flags
IsWritable(seg) == {"R", "W"} \subseteq seg.flags

\* Mutant of Span: the end is set with the start, once.
SpanFirst(segs, kind) ==
    IF kind = {} THEN NoArea
    ELSE [lo |-> segs[Min(kind)].lo, hi |-> segs[Min(kind)].hi]

\* From the start of the first segment of a kind to the end of the last one, in
\* the order of the program headers.
Span(segs, kind) ==
    IF kind = {} THEN NoArea
    ELSE [lo |-> segs[Min(kind)].lo, hi |-> segs[Max(kind)].hi]

ModuleMap(segs) ==
    [ text  |-> Span(segs, {p \in DOMAIN segs : IsText(segs[p])}),
      read  |-> Span(segs, {p \in DOMAIN segs : IsReadOnly(segs[p])}),
      write |-> Span(segs, {p \in DOMAIN segs : IsWritable(segs[p])}) ]

NoAreas == [text |-> NoArea, read |-> NoArea, write |-> NoArea]

\* The comparison RANGE of dynamic.h: both ends are left out.
Between(a, area) == area.lo < a /\ a < area.hi

Inside(inner, outer) == outer.lo <= inner.lo /\ inner.hi <= outer.hi
Apart(x, y) == x.hi <= y.lo \/ y.hi <= x.lo

=============================================================================
