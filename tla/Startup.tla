------------------------------ MODULE Startup ------------------------------
(***************************************************************************)
(* From the entry of the process to its main program (entry.S, stage1.c,   *)
(* stage2.c, stage3.c, fault.c, original.c): the untrusted linker runs     *)
(* with every register opened and a trap entry of its own, twice when      *)
(* copies of the trusted libraries are mapped, and the stages behind it    *)
(* have to put everything in place and close the registers again.          *)
(* Built as the Makefile does, with DASICS_LINUX.                          *)
(***************************************************************************)
EXTENDS Naturals

CONSTANTS
    NumSlots,   \* DASICS_LIBCFG_WIDTH
    NumJumps,   \* DASICS_JUMPCFG_WIDTH
    Targets     \* addresses the linker may jump to

ASSUME SizesAssumption == NumSlots \in Nat \ {0} /\ NumJumps \in Nat \ {0}

VARIABLES
    copyBuild,  \* built with DASICS_COPY
    auxv,       \* the entries of the auxiliary vector that are used, 0 if absent
    regs,       \* bound register -> free, kernel, or whole (all of user space)
    jumps,      \* jump register -> the same
    left,       \* history: registers and jump registers as the kernel left them
    trap,       \* CSR 0x005, the trap entry
    ready,      \* what has been set up
    exits,      \* the functions registered with atexit
    stage,      \* dasics_stage
    pcs,        \* DasicsReturnPC and DasicsFreeZoneReturnPC
    at          \* the code that runs

vars == <<copyBuild, auxv, regs, jumps, left, trap, ready, exits,
          stage, pcs, at>>

Slots == 0 .. NumSlots - 1
JumpSlots == 0 .. NumJumps - 1
Fill == {"free", "kernel"}

Init ==
    /\ copyBuild \in BOOLEAN
    /\ auxv \in [linker : {0, 1}, dasics : {0, 1}, copyLinker : {0, 1},
                 entry : {"check"}]
    /\ regs \in [Slots -> Fill]
    /\ jumps \in [JumpSlots -> Fill]
    /\ left = [regs |-> regs, jumps |-> jumps]
    /\ trap = "none"
    /\ ready = {}
    /\ exits = {}
    /\ stage = 0
    /\ pcs = [return |-> 0, free |-> 0]
    /\ at = "check"

-----------------------------------------------------------------------------
\* Mutant of Opened: the loop runs one register too far.
OpenedPast(file) ==
    LET slots == DOMAIN file \cup {NumSlots}
        free == {s \in DOMAIN file : file[s] = "free"} \cup {NumSlots}
    IN  [s \in slots |->
            IF s \in free /\ \A f \in free : s <= f THEN "whole"
            ELSE IF s \in DOMAIN file THEN file[s] ELSE "free"]

\* original_libcfg_alloc takes the first register that is not valid; the -1 it
\* returns when there is none is not looked at.
Opened(file) ==
    LET free == {s \in DOMAIN file : file[s] = "free"}
    IN  [s \in DOMAIN file |->
            IF s \in free /\ \A f \in free : s <= f THEN "whole" ELSE file[s]]

\* original_jumpcfg_alloc does the same with the jump registers.
OpenedJumps == Opened(jumps)

\* Mutant of Closed: the loop misses the last register.
ClosedButLast(file) ==
    [s \in DOMAIN file |-> IF s + 1 \in DOMAIN file THEN "free" ELSE file[s]]

\* original_libcfg_free_all and original_jumpcfg_free_all.
Closed(file) == [s \in DOMAIN file |-> "free"]
ClosedJumps == Closed(jumps)

\* _set_auxv_entry changes an entry that is there.
SetDasics(value) == IF auxv.dasics = 0 THEN 0 ELSE value

UsesLinker == auxv.linker # 0 /\ auxv.dasics # 0

\* _dasics_entry_stage1 for a process that DASICS and a linker are for.
Stage1 ==
    /\ at = "check"
    /\ UsesLinker
    /\ auxv' = [auxv EXCEPT !.entry = "mainlib", !.dasics = SetDasics(1)]
    /\ regs' = Opened(regs)
    /\ jumps' = OpenedJumps
    /\ trap' = "setup"
    /\ stage' = 1
    /\ ready' = ready \cup {"checks"}
    /\ at' = "linker"
    /\ UNCHANGED <<copyBuild, left, exits, pcs>>

\* Any other process goes on to its program at once, with the exit function it
\* may have been handed.
Stage1Program ==
    /\ at = "check"
    /\ ~ UsesLinker
    /\ exits' \in {{}, IF auxv.linker # 0 THEN {"handed"} ELSE {}}
    /\ ready' = ready \cup {"checks"}
    /\ at' = "program"
    /\ UNCHANGED <<copyBuild, auxv, regs, jumps, left, trap, stage, pcs>>

\* The chain, the main call and the cross stack, on every path.
Prepared == ready \cup {"chain", "maincall", "cross"}

\* Mutant of CopyEntry: AT_ENTRY is left as stage 1 set it.
CopyEntryKept == auxv.entry

\* The entry the copy linker is to jump to.
CopyEntry == "copylib"

\* Mutant of CopyRegs: the registers are closed on this path, too.
CopyRegsClosed == Closed(regs)

\* The second linker runs with the registers stage 1 opened.
CopyRegs == regs

Stage2Copy ==
    /\ at = "mainlib"
    /\ copyBuild
    /\ auxv.copyLinker # 0
    /\ ready' = Prepared \cup {"memory"}
    /\ auxv' = [auxv EXCEPT !.entry = CopyEntry, !.dasics = SetDasics(2)]
    /\ stage' = 2
    /\ trap' = "setup"
    /\ regs' = CopyRegs
    /\ exits' = exits \cup {"linker"}
    /\ at' = "linker"
    /\ UNCHANGED <<copyBuild, jumps, left, pcs>>

\* stage2.c:69 returns before the registers are closed.
Stage2Return ==
    /\ at = "mainlib"
    /\ copyBuild
    /\ auxv.copyLinker = 0
    /\ ready' = Prepared
    /\ at' = "program"
    /\ UNCHANGED <<copyBuild, auxv, regs, jumps, left, trap, exits, stage, pcs>>

Stage2 ==
    /\ at = "mainlib"
    /\ ~ copyBuild
    /\ ready' = Prepared
    /\ regs' = Closed(regs)
    /\ jumps' = ClosedJumps
    /\ trap' = "ufault"
    /\ exits' = exits \cup {"count"}
    /\ at' = "program"
    /\ UNCHANGED <<copyBuild, auxv, left, stage, pcs>>

Stage3 ==
    /\ at = "copylib"
    /\ ready' = ready \cup {"copies", "maincall"}
    /\ regs' = Closed(regs)
    /\ jumps' = ClosedJumps
    /\ trap' = "ufault"
    /\ at' = "program"
    /\ UNCHANGED <<copyBuild, auxv, left, exits, stage, pcs>>

-----------------------------------------------------------------------------
(***************************************************************************)
(* The linker, and dasics_start_fault on its behalf. A load or store that  *)
(* no register allows ends in while (1); a jump is noted in the two return *)
(* registers and tried again.                                              *)
(***************************************************************************)
Open(file) == \E s \in DOMAIN file : file[s] = "whole"

LinkerAccessFaults ==
    /\ at = "linker"
    /\ ~ Open(regs)
    /\ at' = "hung"
    /\ UNCHANGED <<copyBuild, auxv, regs, jumps, left, trap, ready, exits,
                   stage, pcs>>

LinkerJumpFaults(t) ==
    /\ at = "linker"
    /\ ~ Open(jumps)
    /\ pcs' = [return |-> t, free |-> t]
    /\ UNCHANGED <<copyBuild, auxv, regs, jumps, left, trap, ready, exits,
                   stage, at>>

LinkerDone ==
    /\ at = "linker"
    /\ at' = auxv.entry
    /\ UNCHANGED <<copyBuild, auxv, regs, jumps, left, trap, ready, exits,
                   stage, pcs>>

Stages == Stage1 \/ Stage1Program \/ Stage2Copy \/ Stage2Return \/ Stage2
          \/ Stage3

Next ==
    \/ Stages
    \/ LinkerAccessFaults
    \/ \E t \in Targets : LinkerJumpFaults(t)
    \/ LinkerDone

Spec == Init /\ [][Next]_vars

\* The stages are straight-line code, and the linkers come to an end.
LiveSpec == Spec /\ WF_vars(Stages) /\ WF_vars(LinkerDone)

-----------------------------------------------------------------------------
Contents == {"free", "kernel", "whole"}

\* The type invariant.
TypeOK ==
    /\ auxv \in [linker : {0, 1}, dasics : 0 .. 2, copyLinker : {0, 1},
                 entry : {"check", "mainlib", "copylib"}]
    /\ regs \in [Slots -> Contents]
    /\ jumps \in [JumpSlots -> Contents]
    /\ trap \in {"none", "setup", "ufault"}
    /\ exits \subseteq {"handed", "linker", "count"}
    /\ stage \in 0 .. 2
    /\ at \in {"check", "linker", "mainlib", "copylib", "program", "hung"}

Dynamic == stage # 0

\* The path on which the code gives up in the middle: built for copies, started
\* without a second linker.
NoCopyLinker == copyBuild /\ auxv.copyLinker = 0

\* A dynamically linked program starts with no register valid, neither what was
\* opened for a linker nor what the kernel left, with the trap entry of the
\* library and everything set up, copies included, except on the path of
\* stage2.c:69, which keeps all that was opened for the linker.
ProgramConfined ==
    at = "program" /\ Dynamic /\ ~ NoCopyLinker =>
        /\ \A s \in Slots : regs[s] = "free"
        /\ \A s \in JumpSlots : jumps[s] = "free"
        /\ trap = "ufault"
        /\ {"checks", "chain", "maincall", "cross"} \subseteq ready
        /\ copyBuild <=> "copies" \in ready

\* The kernel left every bound register valid: stage 1 opens none.
NoneLeft == \A s \in Slots : left.regs[s] = "kernel"

\* Each linker, the second one too, runs with the trap entry that serves it,
\* told by AT_DASICS which one it is, with user space open unless the kernel
\* left no register for that, and with the bounds of the kernel untouched.
LinkerPrepared ==
    at = "linker" =>
        /\ trap = "setup"
        /\ auxv.dasics = stage
        /\ Open(regs) \/ NoneLeft
        /\ \A s \in Slots : left.regs[s] = "kernel" => regs[s] = "kernel"

\* The program is started: no stage or linker is gone through again for ever,
\* and the linkers, the second one too, only hang on a memory access when stage 1
\* found no register to open for them.
ProgramStarts == <>(at = "program" \/ (at = "hung" /\ NoneLeft))

\* entry.S:83, "we must save a0 for the func before we enter the _start": the
\* exit function the linker hands over, which runs the destructors of the
\* libraries, is registered when the program starts. It does not hold without
\* copies: stage 2 keeps it in dll_fini, which nobody reads, and _start gets 0.
LinkerExits == at = "program" /\ Dynamic => "linker" \in exits

=============================================================================
