----------------------------- MODULE CrossCall -----------------------------
(***************************************************************************)
(* Calls between libraries through dasics_umaincall (umaincall_entry.S,    *)
(* umaincall.c, cross.c). A call into an untrusted library other than the  *)
(* caller's own gets bounds for the callee's read-only region, its         *)
(* writable region and the stack, and a jump register for its code; the    *)
(* return address is kept on the cross stack and replaced by               *)
(* dasics_umaincall, so that the return comes back here to undo it all.    *)
(* Calls through a PLT, returns of cross calls and calls of its helper all *)
(* enter dasics_umaincall, which tells them apart by the registers t3, set *)
(* by the PLT, and ra.                                                     *)
(* No library has delegated memory (namespace_func is NULL): nothing in    *)
(* the repository sets it.                                                 *)
(***************************************************************************)
EXTENDS BoundRegs, JumpRegs, SequencesExt

CONSTANTS
    Libs,           \* the ELF objects of the process
    MainLibs,       \* those in the main (trusted) area
    Start,          \* the object whose code runs first
    ReadRegion,     \* object -> bounds of its read-only segments
    WriteRegion,    \* object -> bounds of its writable segments
    StackRegions,   \* the stack areas [sp - 16 * PAGE_SIZE, sp) of call sites
    FrameBytes,     \* sizeof(struct cross)
    HandleBytes,    \* sizeof(int) * DASICS_LIBCFG_WIDTH
    CrossDepth,     \* MAX_DEPTH: 4096
    WordSpace,      \* 2^64, at which the difference of two addresses wraps
    MaxHandles,     \* bound on the handles given out: stands for INT_MAX
    MaxDepth        \* bound on the nesting of calls

ASSUME LibsAssumption == MainLibs \subseteq Libs /\ Start \in Libs
ASSUME RegionsAssumption ==
    /\ ReadRegion \in [Libs -> [lo : Addrs, hi : Addrs]]
    /\ WriteRegion \in [Libs -> [lo : Addrs, hi : Addrs]]
    /\ StackRegions \subseteq [lo : Addrs, hi : Addrs]

ASSUME StackAssumption ==
    /\ FrameBytes \in Nat \ {0} /\ HandleBytes \in Nat /\ CrossDepth \in Nat
    /\ WordSpace \in Nat \ {0}

ASSUME LimitsAssumption == MaxHandles \in Nat /\ MaxDepth \in Nat \ {0}

VARIABLES
    lib,        \* the bound registers and the table (see BoundRegs)
    jump,       \* the jump registers (see JumpRegs)
    cross,      \* the cross stack: what pop_cross needs, innermost last
    acts,       \* the activations of the program, innermost last
    here,       \* the activation control is in, by its position in acts
    entry,      \* the registers dasics_umaincall looks at, and who enters it
    mode        \* run, enter (dasics_umaincall runs), aborted, or corrupt

vars == <<lib, jump, cross, acts, here, entry, mode>>

\* A return address is the activation it resumes, or dasics_umaincall.
Umaincall == 0

\* Whether t3 is the address of dasics_umaincall, ra, the objects that t0 and t1
\* stand for (from and to), and whether this is a call, a return or a call of
\* the helper. Outside dasics_umaincall only t3 is kept.
Outer(t3) == [t3 |-> t3, ra |-> 1, from |-> Start, to |-> Start, is |-> "none"]

NoRange == "none"       \* the contents of a jump register never written

Init ==
    /\ lib = [ table |-> [h \in {} |-> 0],
               next  |-> 0,
               cfg   |-> [s \in Slots |-> {}],
               bound |-> [s \in Slots |-> [lo |-> 0, hi |-> 0]],
               map   |-> InitialMap ]
    /\ jump = [valid |-> {}, range |-> [s \in JumpSlots |-> NoRange]]
    /\ cross = <<>>
    /\ acts = <<[code |-> Start, ra |-> 1]>>
    /\ here = 1
    /\ entry = Outer(FALSE)
    /\ mode = "run"

Running == acts[here].code
ReadRequest(region) == [perm |-> {"R", "V"}, lo |-> region.lo, hi |-> region.hi]
WriteRequest(region) ==
    [perm |-> {"R", "W"}, lo |-> region.lo, hi |-> region.hi]

-----------------------------------------------------------------------------
(***************************************************************************)
(* A tail call hands the caller's return address on and gives up its       *)
(* activation; any other call returns to the caller.                       *)
(***************************************************************************)
\* Mutant of ReturnAddress: a tail call is treated like any other call.
ReturnAddressOfCall(tail) == here

ReturnAddress(tail) == IF tail THEN acts[here].ra ELSE here

\* The cases in which cross_call does nothing.
NotCross(from, target) == target \in MainLibs \/ target = from

\* The bounds of the model, on handles and nesting.
Affordable(target, tail) ==
    /\ NotCross(Running, target) \/ lib.next + 3 <= MaxHandles
    /\ tail \/ Len(acts) < MaxDepth

\* A call through the PLT of the running object, which sets t3.
Call(target, tail) ==
    /\ mode = "run"
    /\ tail => here > 1
    /\ Affordable(target, tail)
    /\ acts' = IF tail THEN Front(acts) ELSE acts
    /\ entry' = [ t3 |-> TRUE, ra |-> ReturnAddress(tail),
                  from |-> Running, to |-> target, is |-> "call" ]
    /\ mode' = "enter"
    /\ UNCHANGED <<lib, jump, cross, here>>

\* Untrusted code calls dasics_umaincall by its address, which leaves t3 alone.
CallHelper(tail) ==
    /\ mode = "run"
    /\ tail => here > 1
    /\ Running \notin MainLibs
    /\ acts' = IF tail THEN Front(acts) ELSE acts
    /\ entry' = [entry EXCEPT !.ra = ReturnAddress(tail), !.is = "helper"]
    /\ mode' = "enter"
    /\ UNCHANGED <<lib, jump, cross, here>>

\* How dasics_umaincall tells its entries apart.
TakenForCall == mode = "enter" /\ entry.t3
TakenForReturn == mode = "enter" /\ ~ entry.t3 /\ entry.ra = Umaincall
TakenForHelper == mode = "enter" /\ ~ entry.t3 /\ entry.ra # Umaincall

Activate(ra) ==
    /\ acts' = Append(acts, [code |-> entry.to, ra |-> ra])
    /\ here' = Len(acts')
    /\ mode' = "run"

\* Mutant of T3AfterMain: t3 is left as the PLT set it.
T3AfterMainKept == TRUE

\* The path to trusted functions clears t3; the other leaves the node there.
T3AfterMain == FALSE

MainCall ==
    /\ TakenForCall
    /\ entry.to \in MainLibs
    /\ Activate(entry.ra)
    /\ entry' = Outer(T3AfterMain)
    /\ UNCHANGED <<lib, jump, cross>>

PlainCall ==
    /\ TakenForCall
    /\ entry.to \notin MainLibs
    /\ NotCross(entry.from, entry.to)
    /\ Activate(entry.ra)
    /\ entry' = Outer(FALSE)
    /\ UNCHANGED <<lib, jump, cross>>

-----------------------------------------------------------------------------
(***************************************************************************)
(* The cross stack grows down to cross_stack_base. push_cross compares the *)
(* bytes left, an unsigned number, with the size of a frame, reports when  *)
(* the frame does not fit, and pushes it in any case.                      *)
(***************************************************************************)
\* Mutant of StackSize: a pair of parentheses is missing.
StackSizeOnce == FrameBytes + HandleBytes * CrossDepth

StackSize == (FrameBytes + HandleBytes) * CrossDepth

BytesLeft(depth) == StackSize - FrameBytes * depth
Outside(depth) == BytesLeft(depth) < 0

\* Mutant of PushReports: the end of the stack is one frame off.
PushReportsLate == FrameBytes > BytesLeft(Len(cross) - 1) % WordSpace

PushReports == FrameBytes > BytesLeft(Len(cross)) % WordSpace

(***************************************************************************)
(* cross_call: one jump register, which may be missing (-1), then three    *)
(* bounds, each with its own choice of victim, then push_cross.            *)
(***************************************************************************)
AllocResults(st, req) == {AllocIn(st, req, v) : v \in AllocVictims(st)}

CrossInto ==
    /\ TakenForCall
    /\ entry.to \notin MainLibs
    /\ ~ NotCross(entry.from, entry.to)
    /\ \E j \in JumpResults(jump) :
          /\ jump' = JumpAllocIn(jump, j, entry.to)
          /\ cross' = Append(cross,
                         [ target   |-> entry.to,
                           ra       |-> entry.ra,
                           jmp      |-> j,
                           handles  |-> <<lib.next, lib.next + 1, lib.next + 2>>,
                           reported |-> PushReports ])
    /\ \E read \in AllocResults(lib, ReadRequest(ReadRegion[entry.to])) :
       \E write \in AllocResults(read, WriteRequest(WriteRegion[entry.to])) :
       \E stack \in StackRegions :
          lib' \in AllocResults(write, WriteRequest(stack))
    /\ Activate(Umaincall)
    /\ entry' = Outer(FALSE)

\* Control goes to a return address: back into the caller, or to umaincall.
ReturnTo(ra) ==
    IF ra = Umaincall
    THEN /\ mode' = "enter"
         /\ entry' = [entry EXCEPT !.ra = ra, !.is = "return"]
         /\ UNCHANGED here
    ELSE mode' = "run" /\ here' = ra /\ entry' = Outer(entry.t3)

\* The running function executes ret.
Return ==
    /\ mode = "run"
    /\ here > 1
    /\ acts' = Front(acts)
    /\ ReturnTo(acts[here].ra)
    /\ UNCHANGED <<lib, jump, cross>>

\* The helper is a trusted function, entered by a jump.
HelperRuns ==
    /\ TakenForHelper
    /\ ReturnTo(entry.ra)
    /\ UNCHANGED <<lib, jump, cross, acts>>

(***************************************************************************)
(* pop_cross: the loops that release bounds and jump registers skip the    *)
(* value 0, which they take for an empty field, and assert that each       *)
(* release succeeds.                                                       *)
(***************************************************************************)
\* Mutants of Releases: everything the map mentions goes; the loop stops one
\* handle early.
ReleasesMapped(frame) == MappedHandles(lib) \ {0}
ReleasesButLast(frame) == {frame.handles[1], frame.handles[2]} \ {0}

Releases(frame) == Range(frame.handles) \ {0}

BoundsFail(frame) == ~ (Releases(frame) \subseteq Live(lib))
JumpFails(frame) == frame.jmp = -1
Fails(frame) == BoundsFail(frame) \/ JumpFails(frame)

PopCross ==
    /\ TakenForReturn
    /\ LET frame == Last(cross) IN
          /\ ~ Fails(frame)
          /\ lib' = ReleaseIn(lib, Releases(frame))
          /\ jump' = IF frame.jmp # 0 THEN JumpFreeIn(jump, frame.jmp) ELSE jump
          /\ cross' = Front(cross)
          /\ ReturnTo(frame.ra)
    /\ UNCHANGED acts

\* An assertion of pop_cross fails: abort() ends the process.
PopAborts ==
    /\ TakenForReturn
    /\ Fails(Last(cross))
    /\ mode' = "aborted"
    /\ UNCHANGED <<lib, jump, cross, acts, here, entry>>

\* The frame lies outside the stack, in memory of someone else who changed it.
PopCorrupt ==
    /\ TakenForReturn
    /\ Outside(Len(cross))
    /\ mode' = "corrupt"
    /\ UNCHANGED <<lib, jump, cross, acts, here, entry>>

\* What dasics_umaincall may do.
Entered ==
    \/ MainCall
    \/ PlainCall
    \/ CrossInto
    \/ HelperRuns
    \/ PopCross
    \/ PopAborts
    \/ PopCorrupt

\* An access of untrusted code faults and its entry is brought in.
Refill ==
    /\ mode = "run"
    /\ Running \notin MainLibs
    /\ \E a \in Addrs, k \in Kinds :
          /\ ~ HwAllows(lib, a, k)
          /\ \E h \in FirstGrant(lib, a, k), v \in Slots :
                lib' = LoadIn(lib, h, v)
    /\ UNCHANGED <<jump, cross, acts, here, entry, mode>>

Next ==
    \/ \E target \in Libs, tail \in BOOLEAN : Call(target, tail)
    \/ \E tail \in BOOLEAN : CallHelper(tail)
    \/ Return
    \/ Entered
    \/ Refill

Spec == Init /\ [][Next]_vars

\* dasics_umaincall is trusted, straight-line code: once entered, it runs.
LiveSpec == Spec /\ WF_vars(Entered)

-----------------------------------------------------------------------------
Frame == [ target : Libs \ MainLibs, ra : 0 .. MaxDepth,
           jmp : JumpSlots \cup {-1}, handles : [1 .. 3 -> 0 .. MaxHandles],
           reported : BOOLEAN ]
Activation == [code : Libs, ra : 0 .. MaxDepth]
EntryRegisters == [ t3 : BOOLEAN, ra : 0 .. MaxDepth, from : Libs, to : Libs,
                    is : {"none", "call", "return", "helper"} ]

\* The type invariant.
TypeOK ==
    /\ LibType(lib)
    /\ jump \in [ valid : SUBSET JumpSlots,
                  range : [JumpSlots -> Libs \cup {NoRange}] ]
    /\ cross \in Seq(Frame)
    /\ acts \in Seq(Activation)
    /\ here \in 1 .. MaxDepth
    /\ entry \in EntryRegisters
    /\ mode \in {"run", "enter", "aborted", "corrupt"}

\* Every return lands in the innermost activation that waits for it, however
\* cross calls, plain calls and tail calls were nested: no frame of the cross
\* stack is popped for another call, left behind or popped twice.
ReturnsToCaller == mode = "run" => here = Len(acts)

\* dasics_umaincall takes every call and every return for what it is: t3 as a
\* finished call left it is never taken for a new call when the callee returns or
\* asks for the helper. A call of the helper is taken for a return only where it
\* hands dasics_umaincall on as its return address (see HelperReached).
EntriesToldApart ==
    mode = "enter" =>
        /\ entry.is = "call" <=> TakenForCall
        /\ entry.is = "return" => TakenForReturn
        /\ entry.is = "helper" /\ entry.ra # Umaincall <=> TakenForHelper

\* Until its call returns, an untrusted callee has live bounds for exactly its
\* own regions, whatever the calls nested in it allocate, free or evict.
CalleeGranted ==
    \A i \in DOMAIN cross :
        LET f == cross[i]
            granted(n) == lib.table[f.handles[n]]
        IN  /\ Range(f.handles) \subseteq Live(lib)
            /\ granted(1) = RoundedEntry(ReadRequest(ReadRegion[f.target]))
            /\ granted(2) = RoundedEntry(WriteRequest(WriteRegion[f.target]))
            /\ \E stack \in StackRegions :
                  granted(3) = RoundedEntry(WriteRequest(stack))

\* Bounds of calls that returned are gone from the table and the registers,
\* handle 0 excepted (see BoundsReleased).
ReturnRevokes ==
    LET pending == UNION {Range(cross[i].handles) : i \in DOMAIN cross}
    IN  /\ Live(lib) \ {0} \subseteq pending
        /\ \A s \in Valid(lib) : lib.map[s] \in pending \cup {0}

\* The jump register a pending call obtained is its own and opens its target's
\* code; every other register is closed, register 0 excepted (see JumpsFreed).
JumpsMatchCalls ==
    LET holders(s) == {i \in DOMAIN cross : cross[i].jmp = s}
    IN  /\ \A i \in DOMAIN cross : cross[i].jmp \in JumpSlots =>
              /\ cross[i].jmp \in jump.valid
              /\ jump.range[cross[i].jmp] = cross[i].target
              /\ holders(cross[i].jmp) = {i}
        /\ \A s \in jump.valid \ {0} : holders(s) # {}

\* MAX_DEPTH cross calls always fit, and no frame was ever pushed past the base of
\* the cross stack without the report of the one that crossed it, though the
\* comparison is blind once the difference has wrapped.
StackSound ==
    \A i \in DOMAIN cross : Outside(i) =>
        /\ i > CrossDepth
        /\ \E j \in 1 .. i : Outside(j) /\ cross[j].reported

OutOfJumps == Len(cross) >= NumJumps /\ JumpFails(Last(cross))
OutOfStack == cross # <<>> /\ Outside(Len(cross))

\* dasics_umaincall is left again and the program goes on, by returns through as
\* many frames as tail calls chained. It ends only with a call for which no jump
\* register was left, no less deep than there are jump registers, or with a frame
\* past the end of the cross stack.
ReturnCompletes ==
    mode = "enter" ~>
        \/ mode = "run"
        \/ mode = "aborted" /\ OutOfJumps
        \/ mode = "corrupt" /\ OutOfStack

(***************************************************************************)
(* What the comments and assertions of the code say and the code does not  *)
(* do.                                                                     *)
(***************************************************************************)

\* Every call of the helper reaches it. A function called across that ends in a
\* tail call of the helper hands dasics_umaincall on as the return address, which
\* umaincall_entry.S:60 takes for a return: the frame is popped, no helper runs.
HelperReached == mode = "enter" /\ entry.is = "helper" => TakenForHelper

Idle == cross = <<>> /\ mode = "run"

\* cross.c:51, "Realse Bounds": once no cross call is pending, no bound that
\* cross_call allocated is left.
BoundsReleased == Idle => Live(lib) = {}

\* cross.c:59, "Free Jmp": once no cross call is pending, no jump register is
\* left open.
JumpsFreed == Idle => jump.valid = {}

\* cross.c:63: the assertion on dasics_jumpcfg_free holds.
JumpFreeAsserted == TakenForReturn => ~ JumpFails(Last(cross))

=============================================================================
