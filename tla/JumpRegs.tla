----------------------------- MODULE JumpRegs -----------------------------
(***************************************************************************)
(* The jump-bound registers ("active zones") of a hart as operators on a   *)
(* record [valid, range]: dasics_jumpcfg_alloc and dasics_jumpcfg_free of  *)
(* udasics.c. There is no table behind them: four registers, no eviction.  *)
(***************************************************************************)
EXTENDS Integers

CONSTANT NumJumps       \* DASICS_JUMPCFG_WIDTH: 4 jump registers

ASSUME NumJumpsAssumption == NumJumps \in Nat \ {0}

JumpSlots == 0 .. NumJumps - 1

\* What dasics_jumpcfg_alloc may return: the lowest register not in use, or -1.
JumpResults(jump) ==
    LET unused == JumpSlots \ jump.valid
    IN  IF unused = {} THEN {-1}
        ELSE {s \in unused : \A t \in unused : s <= t}

JumpAllocIn(jump, s, range) ==
    IF s \in JumpSlots
    THEN [ valid |-> jump.valid \cup {s},
           range |-> [jump.range EXCEPT ![s] = range] ]
    ELSE jump

\* Mutants of JumpFreeIn: the shift is forgotten; nothing is written back.
JumpFreeInUnshifted(jump, s) ==
    IF s \in JumpSlots THEN [jump EXCEPT !.valid = jump.valid \ {0}] ELSE jump
JumpFreeInLost(jump, s) == jump

\* dasics_jumpcfg_free: the bounds stay, the V bit goes; -1 is refused.
JumpFreeIn(jump, s) ==
    IF s \in JumpSlots THEN [jump EXCEPT !.valid = jump.valid \ {s}] ELSE jump

=============================================================================
