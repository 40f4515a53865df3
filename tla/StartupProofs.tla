--------------------------- MODULE StartupProofs ---------------------------
(***************************************************************************)
(* Startup, for every number of registers and every contents the kernel    *)
(* leaves in them: what each part of startup may rely on (Phases) and,     *)
(* from it, that linkers and program start as they should.                 *)
(***************************************************************************)
EXTENDS Startup, TLAPS, WellFoundedInduction

-----------------------------------------------------------------------------
(***************************************************************************)
(* A non-empty set of natural numbers has a least element.                 *)
(***************************************************************************)
LEMMA NatMin ==
    ASSUME NEW T \in SUBSET Nat, T # {}
    PROVE  \E x \in T : \A y \in T : x <= y
<1> DEFINE R == OpToRel(<, Nat)
<1>1. \E x \in T : \A y \in T : ~ (<<y, x>> \in R)
  <2>1. IsWellFoundedOn(R, Nat)
    BY NatLessThanWellFounded
  <2> HIDE DEF R
  <2> QED
    BY <2>1, WFMin
<1>2. PICK x \in T : \A y \in T : ~ (<<y, x>> \in R)
  BY <1>1
<1>3. ASSUME NEW y \in T, y < x PROVE FALSE
  <2>1. <<y, x>> \in Nat \X Nat /\ <<y, x>>[1] < <<y, x>>[2]
    BY <1>3
  <2>2. <<y, x>> \in R
    BY <2>1 DEF OpToRel
  <2> QED
    BY <2>2, <1>2
<1> HIDE DEF R
<1>4. x \in Nat
  BY <1>2
<1>5. ASSUME NEW y \in T PROVE x <= y
  BY <1>3, <1>4
<1> QED
  BY <1>5

-----------------------------------------------------------------------------
\* The registers a linker needs, with what the kernel left untouched.
OpenForLinker ==
    /\ Open(regs) \/ \A s \in Slots : left.regs[s] = "kernel"
    /\ \A s \in Slots : left.regs[s] = "kernel" => regs[s] = "kernel"

Basics == {"checks", "chain", "maincall", "cross"}

\* Nothing has been changed when stage 1 is entered.
AtCheck ==
    /\ stage = 0
    /\ regs = left.regs
    /\ "copies" \notin ready

\* The first linker, and stage 2 behind it.
InFirst ==
    /\ stage = 1
    /\ auxv.dasics = 1
    /\ "checks" \in ready
    /\ "copies" \notin ready

\* The second linker, and stage 3 behind it.
InSecond ==
    /\ stage = 2
    /\ copyBuild
    /\ auxv.dasics = 2
    /\ auxv.copyLinker # 0
    /\ Basics \subseteq ready

\* The inductive invariant: what each part of startup finds.
Phases ==
    /\ TypeOK
    /\ left.regs \in [Slots -> Fill]
    /\ at = "check" => AtCheck
    /\ at = "mainlib" => InFirst /\ OpenForLinker
    /\ at = "copylib" => InSecond
    /\ at = "linker" =>
          /\ trap = "setup"
          /\ OpenForLinker
          /\ \/ auxv.entry = "mainlib" /\ InFirst
             \/ auxv.entry = "copylib" /\ InSecond
    /\ ProgramConfined

-----------------------------------------------------------------------------
\* The search for a register that is not valid finds one if there is any, and
\* opens it; every other register stays as it is.
LEMMA OpenedFile ==
    ASSUME NEW n \in Nat, NEW file \in [0 .. n - 1 -> Contents]
    PROVE  /\ Opened(file) \in [0 .. n - 1 -> Contents]
           /\ \A s \in 0 .. n - 1 :
                 file[s] # "free" => Opened(file)[s] = file[s]
           /\ (\E s \in 0 .. n - 1 : file[s] = "free") => Open(Opened(file))
<1> DEFINE free == {s \in 0 .. n - 1 : file[s] = "free"}
<1>1. Opened(file) = [s \in 0 .. n - 1 |->
                        IF s \in free /\ \A f \in free : s <= f THEN "whole"
                        ELSE file[s]]
  BY DEF Opened
<1>2. Opened(file) \in [0 .. n - 1 -> Contents]
  BY <1>1 DEF Contents
<1>3. \A s \in 0 .. n - 1 : file[s] # "free" => Opened(file)[s] = file[s]
  BY <1>1
<1>4. ASSUME NEW s \in 0 .. n - 1, file[s] = "free"
      PROVE  Open(Opened(file))
  <2>1. free \in SUBSET Nat /\ free # {}
    BY <1>4
  <2>2. PICK least \in free : \A f \in free : least <= f
    BY <2>1, NatMin
  <2>3. least \in 0 .. n - 1 /\ Opened(file)[least] = "whole"
    BY <1>1, <2>2
  <2> QED
    BY <1>1, <2>3 DEF Open
<1> QED
  BY <1>2, <1>3, <1>4

\* Nothing is left open by original_libcfg_free_all.
LEMMA ClosedFile ==
    ASSUME NEW n \in Nat, NEW file \in [0 .. n - 1 -> Contents]
    PROVE  Closed(file) \in [0 .. n - 1 -> {"free"}]
  BY DEF Closed

\* What _set_auxv_entry makes of the auxiliary vector.
Auxv == [linker : {0, 1}, dasics : 0 .. 2, copyLinker : {0, 1},
         entry : {"check", "mainlib", "copylib"}]

LEMMA AuxvUpdated ==
    ASSUME NEW a \in Auxv, NEW e \in {"check", "mainlib", "copylib"},
           NEW d \in 0 .. 2
    PROVE  [a EXCEPT !.entry = e, !.dasics = d] \in Auxv
  BY DEF Auxv

-----------------------------------------------------------------------------
LEMMA InitPhases == Init => Phases
<1> SUFFICES ASSUME Init PROVE Phases
  OBVIOUS
<1>1. TypeOK /\ left.regs \in [Slots -> Fill]
  BY DEF Init, TypeOK, Fill, Contents
<1>2. AtCheck /\ ProgramConfined
  BY DEF Init, AtCheck, ProgramConfined
<1> QED
  BY <1>1, <1>2 DEF Phases, Init

LEMMA Stage1Phases == Phases /\ Stage1 => Phases'
<1> SUFFICES ASSUME Phases, Stage1 PROVE Phases'
  OBVIOUS
<1>1. TypeOK /\ AtCheck /\ left.regs \in [Slots -> Fill]
  BY DEF Phases, Stage1
<1>2. regs' \in [Slots -> Contents] /\ jumps' \in [JumpSlots -> Contents]
  BY <1>1, OpenedFile, SizesAssumption
     DEF TypeOK, Stage1, Slots, JumpSlots, OpenedJumps
<1>3. auxv' = [auxv EXCEPT !.entry = "mainlib", !.dasics = 1]
  BY DEF Stage1, UsesLinker, SetDasics
<1>4. auxv'.dasics = 1 /\ auxv'.entry = "mainlib"
  BY <1>1, <1>3 DEF TypeOK
<1>5. TypeOK'
  <2>1. auxv \in Auxv
    BY <1>1 DEF TypeOK, Auxv
  <2>2. 1 \in 0 .. 2 /\ "mainlib" \in {"check", "mainlib", "copylib"}
    OBVIOUS
  <2>3. auxv' \in Auxv
    BY <1>3, <2>1, <2>2, AuxvUpdated, Zenon
  <2> QED
    BY <1>1, <1>2, <2>3 DEF TypeOK, Stage1, Auxv
<1>6. OpenForLinker'
  <2>1. regs' = Opened(regs) /\ left' = left /\ regs = left.regs
    BY <1>1 DEF Stage1, AtCheck
  <2>2. regs \in [0 .. NumSlots - 1 -> Contents] /\ NumSlots \in Nat
    BY <1>1, SizesAssumption DEF TypeOK, Slots
  <2>3. \A s \in Slots : left.regs[s] = "kernel" => regs'[s] = "kernel"
    BY <2>1, <2>2, OpenedFile DEF Slots
  <2>4. CASE \E s \in Slots : regs[s] = "free"
    BY <2>1, <2>2, <2>3, <2>4, OpenedFile DEF Slots, OpenForLinker, Open
  <2>5. CASE \A s \in Slots : regs[s] # "free"
    <3>1. \A s \in Slots : left.regs[s] = "kernel"
      BY <1>1, <2>1, <2>5 DEF Fill
    <3> QED
      BY <2>1, <2>3, <3>1 DEF OpenForLinker
  <2> QED
    BY <2>4, <2>5
<1>7. InFirst' /\ trap' = "setup" /\ at' = "linker" /\ left' = left
  BY <1>1, <1>4 DEF Stage1, AtCheck, InFirst
<1> QED
  BY <1>1, <1>4, <1>5, <1>6, <1>7 DEF Phases, ProgramConfined

LEMMA Stage1ProgramPhases == Phases /\ Stage1Program => Phases'
<1> SUFFICES ASSUME Phases, Stage1Program PROVE Phases'
  OBVIOUS
<1>1. TypeOK /\ AtCheck
  BY DEF Phases, Stage1Program
<1>2. TypeOK'
  BY <1>1 DEF TypeOK, Stage1Program
<1>3. ProgramConfined'
  BY <1>1 DEF ProgramConfined, Dynamic, AtCheck, Stage1Program
<1> QED
  BY <1>2, <1>3 DEF Phases, Stage1Program

\* The second linker gets the registers as the first one had them: stage 2 leaves
\* them open on this path.
LEMMA Stage2CopyPhases == Phases /\ Stage2Copy => Phases'
<1> SUFFICES ASSUME Phases, Stage2Copy PROVE Phases'
  OBVIOUS
<1>1. TypeOK /\ InFirst /\ OpenForLinker
  BY DEF Phases, Stage2Copy
<1>2. auxv' = [auxv EXCEPT !.entry = "copylib", !.dasics = 2]
  BY <1>1 DEF Stage2Copy, CopyEntry, SetDasics, InFirst
<1>3. auxv'.dasics = 2 /\ auxv'.entry = "copylib" /\ auxv'.copyLinker # 0
  BY <1>1, <1>2 DEF TypeOK, Stage2Copy
<1>4. TypeOK'
  <2>1. auxv \in Auxv
    BY <1>1 DEF TypeOK, Auxv
  <2>2. 2 \in 0 .. 2 /\ "copylib" \in {"check", "mainlib", "copylib"}
    OBVIOUS
  <2>3. auxv' \in Auxv
    BY <1>2, <2>1, <2>2, AuxvUpdated, Zenon
  <2> QED
    BY <1>1, <2>3 DEF TypeOK, Stage2Copy, CopyRegs, Auxv
<1>5. OpenForLinker'
  BY <1>1 DEF OpenForLinker, Open, Stage2Copy, CopyRegs
<1>6. InSecond' /\ trap' = "setup" /\ at' = "linker" /\ left' = left
  BY <1>1, <1>3 DEF Stage2Copy, InFirst, InSecond, Prepared, Basics
<1> QED
  BY <1>3, <1>4, <1>5, <1>6 DEF Phases, ProgramConfined

LEMMA Stage2ReturnPhases == Phases /\ Stage2Return => Phases'
<1> SUFFICES ASSUME Phases, Stage2Return PROVE Phases'
  OBVIOUS
<1>1. TypeOK'
  BY DEF Phases, TypeOK, Stage2Return
<1>2. NoCopyLinker'
  BY DEF Stage2Return, NoCopyLinker
<1> QED
  BY <1>1, <1>2 DEF Phases, ProgramConfined, Stage2Return

LEMMA Stage2Phases == Phases /\ Stage2 => Phases'
<1> SUFFICES ASSUME Phases, Stage2 PROVE Phases'
  OBVIOUS
<1>1. TypeOK /\ InFirst
  BY DEF Phases, Stage2
<1>2. regs' \in [Slots -> {"free"}] /\ jumps' \in [JumpSlots -> {"free"}]
  BY <1>1, ClosedFile, SizesAssumption
     DEF TypeOK, Slots, JumpSlots, Stage2, ClosedJumps
<1>3. TypeOK'
  BY <1>1, <1>2 DEF TypeOK, Stage2, Contents
<1>4. ProgramConfined'
  BY <1>1, <1>2 DEF ProgramConfined, Stage2, InFirst, Prepared
<1> QED
  BY <1>3, <1>4 DEF Phases, Stage2

LEMMA Stage3Phases == Phases /\ Stage3 => Phases'
<1> SUFFICES ASSUME Phases, Stage3 PROVE Phases'
  OBVIOUS
<1>1. TypeOK /\ InSecond
  BY DEF Phases, Stage3
<1>2. regs' \in [Slots -> {"free"}] /\ jumps' \in [JumpSlots -> {"free"}]
  BY <1>1, ClosedFile, SizesAssumption
     DEF TypeOK, Slots, JumpSlots, Stage3, ClosedJumps
<1>3. TypeOK'
  BY <1>1, <1>2 DEF TypeOK, Stage3, Contents
<1>4. ProgramConfined'
  BY <1>1, <1>2 DEF ProgramConfined, Stage3, InSecond, Basics
<1> QED
  BY <1>3, <1>4 DEF Phases, Stage3

\* The linkers change nothing the stages rely on.
LEMMA LinkerPhases ==
    ASSUME Phases,
           LinkerAccessFaults \/ (\E t \in Targets : LinkerJumpFaults(t))
               \/ LinkerDone \/ UNCHANGED vars
    PROVE  Phases'
<1>1. CASE LinkerAccessFaults
  BY <1>1 DEF LinkerAccessFaults, Phases, TypeOK, ProgramConfined
<1>2. ASSUME NEW t \in Targets, LinkerJumpFaults(t) PROVE Phases'
  BY <1>2 DEF LinkerJumpFaults, Phases, TypeOK, ProgramConfined, OpenForLinker,
     Open, InFirst, InSecond
<1>3. CASE LinkerDone
  BY <1>3 DEF LinkerDone, Phases, TypeOK, ProgramConfined, OpenForLinker, Open,
     InFirst, InSecond
<1>4. CASE UNCHANGED vars
  BY <1>4 DEF vars, Phases, TypeOK, ProgramConfined, Dynamic, NoCopyLinker,
     OpenForLinker, Open, AtCheck, InFirst, InSecond
<1> QED
  BY <1>1, <1>2, <1>3, <1>4

\* Each part of startup finds what the parts before it are there to prepare.
THEOREM InvariantHolds == Spec => []Phases
<1>1. Init => Phases
  BY InitPhases
<1>2. Phases /\ [Next]_vars => Phases'
  BY Stage1Phases, Stage1ProgramPhases, Stage2CopyPhases, Stage2ReturnPhases,
     Stage2Phases, Stage3Phases, LinkerPhases DEF Next, Stages
<1> QED
  BY <1>1, <1>2, PTL DEF Spec

-----------------------------------------------------------------------------
\* The registers, the stage, the trap entry and the auxiliary vector only ever
\* hold what the code knows how to read.
THEOREM TypeCorrect == Spec => []TypeOK
<1>1. Phases => TypeOK
  BY DEF Phases
<1> QED
  BY <1>1, InvariantHolds, PTL

\* A dynamically linked program starts with every register closed, for every
\* number of registers and whatever the kernel left in them.
THEOREM ProgramStartsConfined == Spec => []ProgramConfined
<1>1. Phases => ProgramConfined
  BY DEF Phases
<1> QED
  BY <1>1, InvariantHolds, PTL

\* Both linkers get what they need, and no register of the kernel is lost.
THEOREM LinkersArePrepared == Spec => []LinkerPrepared
<1>1. Phases => LinkerPrepared
  BY DEF Phases, LinkerPrepared, NoneLeft, OpenForLinker, InFirst, InSecond
<1> QED
  BY <1>1, InvariantHolds, PTL

=============================================================================
