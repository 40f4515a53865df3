------------------------------ MODULE Bounds ------------------------------
(***************************************************************************)
(* The vocabulary of memory bounds shared by the specification of what     *)
(* LibDASICS promises (UnboundedBounds) and by the model of how it keeps   *)
(* the promise with a handful of hardware registers (BoundRegs and the     *)
(* modules above it): permissions, entries, alignment and coverage.        *)
(***************************************************************************)
EXTENDS Integers

CONSTANTS
    Grain,      \* alignment of a bound in bytes: 8 (align8up, align8down)
    AddrSpace   \* number of byte addresses: 2^64, addresses wrap around

ASSUME GrainAssumption == Grain \in Nat \ {0}
ASSUME AddrSpaceAssumption ==
    AddrSpace \in Nat \ {0} /\ AddrSpace % Grain = 0

Addrs == 0 .. AddrSpace - 1

(***************************************************************************)
(* A configuration is the set of its flag bits; the fourth bit of the      *)
(* nibble is never used by the library.                                    *)
(***************************************************************************)
Flags == {"V", "R", "W"}
Kinds == {"R", "W"}         \* a load needs R, a store needs W

Cfg == SUBSET Flags
Bound == [lo : Nat, hi : Nat]
Entry == [bound : Bound, priv : Cfg]

\* The integer dasics_libcfg_get returns for a configuration.
CfgBits(priv) ==
    (IF "V" \in priv THEN 8 ELSE 0) + (IF "R" \in priv THEN 2 ELSE 0)
        + (IF "W" \in priv THEN 1 ELSE 0)

RoundDown(a) == a - (a % Grain)
RoundUp(a) == RoundDown((a + Grain - 1) % AddrSpace)

\* What dasics_libcfg_alloc stores for a request (cfg, lo, hi).
RoundedEntry(req) ==
    [ bound |-> [lo |-> RoundDown(req.lo), hi |-> RoundUp(req.hi)],
      priv  |-> req.perm \cup {"V"} ]

Within(a, bound) == bound.lo <= a /\ a < bound.hi

\* Does an entry authorise an access of kind k to address a?
Covers(entry, a, k) == Within(a, entry.bound) /\ {"V", k} \subseteq entry.priv

=============================================================================
