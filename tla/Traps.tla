------------------------------- MODULE Traps -------------------------------
(***************************************************************************)
(* Traps of untrusted code (trap_entry.S, fault.c, the switch of           *)
(* dasics_ufault_handler, ldst.c, fetch.c, ecall.c, usyscall.c): the       *)
(* hardware stops an instruction, the entry saves the context, a handler   *)
(* changes the saved context or the registers, and uret resumes there.     *)
(* Bounds are reduced to the accesses they cover; LibBounds has the rest.  *)
(***************************************************************************)
EXTENDS Integers, Sequences

CONSTANTS
    Code,       \* address -> instruction, see Instruction
    NumCalls    \* __NR_syscalls

\* The hardware keeps a return out of the active zone (jump) and one out of
\* the free zone (freejump) to the address in a register for each of them.
\* "main" stands for trusted code, which goes on at arg.
Kinds == {"load", "store", "jump", "freejump", "ecall", "main"}
Instruction == [kind : Kinds, len : {2, 4}, arg : Nat]

Successor(p) == IF Code[p].kind \in {"jump", "freejump", "main"}
                THEN Code[p].arg ELSE p + Code[p].len

\* Control stays in the code, also behind a jump that a handler steps over.
\* The processor has no compressed ecall; system calls are numbered correctly.
ASSUME CodeAssumption ==
    /\ DOMAIN Code \subseteq Nat
    /\ \A p \in DOMAIN Code :
          /\ Code[p] \in Instruction
          /\ Successor(p) \in DOMAIN Code \ {p}
          /\ Code[p].kind \in {"jump", "freejump"} =>
                p + Code[p].len \in DOMAIN Code
          /\ Code[p].kind = "ecall" =>
                Code[p].len = 4 /\ Code[p].arg \in 0 .. NumCalls - 1
ASSUME NumCallsAssumption == NumCalls \in Nat

VARIABLES
    pc,         \* the instruction untrusted code is at
    at,         \* who runs
    frame,      \* the saved context
    pcs,        \* DasicsReturnPC and DasicsFreeZoneReturnPC
    granted,    \* accesses a bound of the table covers
    loaded,     \* accesses a register covers
    entry,      \* CSR 0x005: _setup_fault or dasics_ufault_entry
    handlers,   \* udasics_*_fault_handler
    checks,     \* syscall_check
    made,       \* history: system calls made for the instruction at pc
    ran,        \* history: checks run for it
    faults      \* history: traps it took, counted up to MaxFaults

history == <<made, ran, faults>>
tables == <<granted, entry, handlers, checks>>
vars == <<pc, at, frame, pcs, granted, loaded, entry, handlers, checks,
          made, ran, faults>>

Accesses == {<<Code[p].kind, Code[p].arg>> :
                p \in {q \in DOMAIN Code : Code[q].kind \in {"load", "store"}}}
Reasons == {"load", "store", "jump", "ecall"}
Sysnos == 0 .. NumCalls - 1
MaxFaults == 3

\* Besides the default there are handlers that step over the instruction and
\* return 0 (skip) or -1 (fatal), and a check that returns an error (strict).
HandlerNames == {"default", "skip", "fatal"}
CheckNames == {"default", "strict"}
ErrorNames == {"default", "report"}
Check == [check : CheckNames, error : ErrorNames]
Refuses(c) == c = "strict"

Frame == [uepc : Nat, reason : Reasons \cup {"none", "mpk"}, arg : Nat]
NoFrame == [uepc |-> 0, reason |-> "none", arg |-> 0]

Init ==
    /\ pc \in {p \in DOMAIN Code : Code[p].kind = "main"}
    /\ at = "user"
    /\ frame = NoFrame
    /\ pcs = [return |-> 0, free |-> 0]
    /\ granted = {}
    /\ loaded = {}
    /\ entry = "setup"
    /\ handlers = [r \in Reasons |-> "default"]
    /\ checks = [n \in Sysnos |-> [check |-> "default", error |-> "default"]]
    /\ made = <<>>
    /\ ran = <<>>
    /\ faults = 0

-----------------------------------------------------------------------------
(***************************************************************************)
(* The hardware.                                                           *)
(***************************************************************************)
\* During startup the registers are open for the linker.
HwAllows ==
    LET i == Code[pc] IN
    \/ i.kind = "main"
    \/ i.kind \in {"load", "store"} /\
          (entry = "setup" \/ <<i.kind, i.arg>> \in loaded)
    \/ i.kind = "jump" /\ i.arg = pcs.return
    \/ i.kind = "freejump" /\ i.arg = pcs.free

ReasonOf(kind) == IF kind = "freejump" THEN "jump" ELSE kind

\* A protection key may stop a load or store whatever the bounds say.
TrapReasons ==
    (IF HwAllows THEN {} ELSE {ReasonOf(Code[pc].kind)})
        \cup (IF Code[pc].kind \in {"load", "store"} THEN {"mpk"} ELSE {})

ArriveAt(p) ==
    /\ pc' = p
    /\ IF p = pc THEN UNCHANGED history
       ELSE made' = <<>> /\ ran' = <<>> /\ faults' = 0

Execute ==
    /\ at = "user"
    /\ Code[pc].kind # "main"
    /\ HwAllows
    /\ ArriveAt(Successor(pc))
    /\ UNCHANGED <<at, frame, pcs, loaded, tables>>

\* SAVE_CONTEXT; system calls then go their own way. arg stands for utval, and
\* for a7 at a system call.
Trap ==
    /\ at = "user"
    /\ \E reason \in TrapReasons :
          /\ frame' = [uepc |-> pc, reason |-> reason, arg |-> Code[pc].arg]
          /\ at' = IF reason = "ecall" THEN "invoke" ELSE "handler"
    /\ faults' = IF faults < MaxFaults THEN faults + 1 ELSE faults
    /\ UNCHANGED <<pc, pcs, loaded, tables, made, ran>>

-----------------------------------------------------------------------------
(***************************************************************************)
(* Handlers.                                                               *)
(***************************************************************************)
\* An error of -1 ends the process; every other way leads to __dasics_uret.
Leave(handler) == at' = IF handler = "fatal" THEN "exited" ELSE "return"

\* Mutant of StepOver: all instructions are taken to be four bytes long.
StepOverFour(f) == [f EXCEPT !.uepc = @ + 4]

\* The default load and store handlers look at the two low bits.
StepOver(f) == [f EXCEPT !.uepc = @ + Code[@].len]

\* Mutant of Recorded: only DasicsReturnPC is ever set.
RecordedFirst(target) == [pcs EXCEPT !.return = target]

\* handle_DasicsUFetchFault does not know which zone the jump came from: it
\* sets one register, and the other one when the jump traps again.
Recorded(target) ==
    IF pcs.return # target THEN [pcs EXCEPT !.return = target]
    ELSE [pcs EXCEPT !.free = target]

Handling(reasons, e) == at = "handler" /\ frame.reason \in reasons /\ entry = e

JumpFault ==
    /\ Handling({"jump"}, "ufault")
    /\ IF handlers["jump"] = "default"
       THEN pcs' = Recorded(frame.arg) /\ UNCHANGED frame
       ELSE frame' = StepOver(frame) /\ UNCHANGED pcs
    /\ Leave(handlers["jump"])
    /\ UNCHANGED <<pc, loaded, tables, history>>

\* Mutant of Finds: the permission of the other kind of access is looked for.
FindsOther ==
    <<IF frame.reason = "load" THEN "store" ELSE "load", frame.arg>> \in granted

\* dasics_ldst_checker finds an entry of the table for the access.
Finds == <<frame.reason, frame.arg>> \in granted

\* The bound found replaces some other: accesses only that one covered are out.
Refill ==
    /\ Handling({"load", "store"}, "ufault")
    /\ Finds
    /\ \E kept \in SUBSET loaded :
          loaded' = kept \cup {<<frame.reason, frame.arg>>}
    /\ at' = "return"
    /\ UNCHANGED <<pc, frame, pcs, tables, history>>

AccessFault ==
    /\ Handling({"load", "store"}, "ufault")
    /\ ~ Finds
    /\ frame' = StepOver(frame)
    /\ Leave(handlers[frame.reason])
    /\ UNCHANGED <<pc, pcs, loaded, tables, history>>

UnknownFault ==
    /\ Handling({"mpk"}, "ufault")
    /\ at' = "exited"
    /\ UNCHANGED <<pc, frame, pcs, loaded, tables, history>>

\* dasics_start_fault sets both registers at once.
SetupJumpFault ==
    /\ Handling({"jump"}, "setup")
    /\ pcs' = [return |-> frame.arg, free |-> frame.arg]
    /\ at' = "return"
    /\ UNCHANGED <<pc, frame, loaded, tables, history>>

\* while (1)
SetupOtherFault ==
    /\ Handling({"load", "store", "mpk"}, "setup")
    /\ at' = "hung"
    /\ UNCHANGED <<pc, frame, pcs, loaded, tables, history>>

-----------------------------------------------------------------------------
(***************************************************************************)
(* System calls.                                                           *)
(***************************************************************************)
\* Mutant of Advanced: the saved pc still points to the ecall.
AdvancedNot(f) == f

\* handle_DasicsUEcallFault steps over the ecall.
Advanced(f) == [f EXCEPT !.uepc = @ + 4]

\* Mutant of Goes: bnez is taken for beqz.
GoesOnError(handler) == handler = "fatal"

\* invoke_syscall goes on to the ecall when the handler returns 0. The default
\* handler does so whatever the check returned.
Goes(handler) == handler # "fatal"

\* invoke_syscall up to bnez. A handler that was registered has its own checks.
CheckCall ==
    /\ at = "invoke"
    /\ IF handlers["ecall"] = "default"
       THEN /\ frame' = Advanced(frame)
            /\ ran' = Append(ran, checks[frame.arg].check)
       ELSE frame' = StepOver(frame) /\ UNCHANGED ran
    /\ at' = IF Goes(handlers["ecall"]) THEN "call" ELSE "return"
    /\ UNCHANGED <<pc, pcs, loaded, tables, made, faults>>

\* The context is restored and the trusted area makes the call.
PerformCall ==
    /\ at = "call"
    /\ made' = Append(made, frame.arg)
    /\ at' = "return"
    /\ UNCHANGED <<pc, frame, pcs, loaded, tables, ran, faults>>

\* __dasics_uret
Return ==
    /\ at = "return"
    /\ ArriveAt(frame.uepc)
    /\ at' = "user"
    /\ frame' = NoFrame
    /\ UNCHANGED <<pcs, loaded, tables>>

-----------------------------------------------------------------------------
(***************************************************************************)
(* Trusted code, at a "main" instruction.                                  *)
(***************************************************************************)
InMain == at = "user" /\ Code[pc].kind = "main"

\* register_udasics installs dasics_ufault_entry.
RegisterUdasics ==
    /\ InMain
    /\ entry' = "ufault"
    /\ UNCHANGED <<pc, at, frame, pcs, granted, loaded, handlers, checks,
                   history>>

\* The register_u*_fault_handler functions ignore NULL. The bound: one handler
\* at a time differs from the default.
RegisterHandler(reason, handler) ==
    /\ InMain
    /\ \A r \in Reasons \ {reason} : handlers[r] = "default"
    /\ handlers' = IF handler = "NULL" THEN handlers
                   ELSE [handlers EXCEPT ![reason] = handler]
    /\ UNCHANGED <<pc, at, frame, pcs, granted, loaded, entry, checks, history>>

OrKept(new, old) == IF new = "NULL" THEN old ELSE new

RegisterCheck(sysno, check, error) ==
    /\ InMain
    /\ checks' = IF sysno \notin Sysnos THEN checks
                 ELSE [checks EXCEPT
                         ![sysno] = [check |-> OrKept(check, @.check),
                                     error |-> OrKept(error, @.error)]]
    /\ UNCHANGED <<pc, at, frame, pcs, granted, loaded, entry, handlers, history>>

\* Bounds are allocated and freed: see LibBounds.
ChangeBounds ==
    /\ InMain
    /\ entry = "ufault"
    /\ granted' \in SUBSET Accesses
    /\ loaded' \in SUBSET granted'
    /\ UNCHANGED <<pc, at, frame, pcs, entry, handlers, checks, history>>

\* Trusted code calls untrusted code: the processor notes where to return to.
MainGoesOn ==
    /\ InMain
    /\ ArriveAt(Successor(pc))
    /\ pcs' = [pcs EXCEPT !.return = pc]
    /\ UNCHANGED <<at, frame, loaded, tables>>

-----------------------------------------------------------------------------
Untrusted ==
    \/ Execute \/ Trap \/ Return
    \/ JumpFault \/ Refill \/ AccessFault \/ UnknownFault
    \/ SetupJumpFault \/ SetupOtherFault
    \/ CheckCall \/ PerformCall

Next ==
    \/ Untrusted
    \/ RegisterUdasics
    \/ \E r \in Reasons, h \in HandlerNames \cup {"NULL"} : RegisterHandler(r, h)
    \/ \E n \in -1 .. NumCalls, c \in CheckNames \cup {"NULL"},
          e \in ErrorNames \cup {"NULL"} : RegisterCheck(n, c, e)
    \/ ChangeBounds
    \/ MainGoesOn

Spec == Init /\ [][Next]_vars

\* Instructions execute or trap, and handlers are straight-line code.
LiveSpec == Spec /\ WF_vars(Untrusted)

-----------------------------------------------------------------------------
\* The type invariant: in particular uret always resumes at an instruction.
TypeOK ==
    /\ pc \in DOMAIN Code
    /\ at \in {"user", "handler", "invoke", "call", "return", "exited", "hung"}
    /\ frame \in Frame
    /\ pcs \in [return : Nat, free : Nat]
    /\ loaded \subseteq granted
    /\ granted \subseteq Accesses
    /\ entry \in {"setup", "ufault"}
    /\ handlers \in [Reasons -> HandlerNames]
    /\ checks \in [Sysnos -> Check]
    /\ made \in Seq(Nat) /\ ran \in Seq(CheckNames)
    /\ faults \in 0 .. MaxFaults

\* An ecall of untrusted code makes the call it names at most once, however
\* often it traps, and with the default handler only after the check that is
\* registered for its number ran.
SyscallOnce ==
    /\ made \in {<<>>, <<Code[pc].arg>>}
    /\ made # <<>> /\ handlers["ecall"] = "default" =>
          ran = <<checks[Code[pc].arg].check>>

\* No system call is lost: untrusted code gets past an ecall only when the call
\* was made or the registered handler refused it (trap_entry.S:143).
CallsMade ==
    [][pc' # pc /\ Code[pc].kind = "ecall" =>
          made = IF handlers["ecall"] = "fatal" THEN <<>>
                 ELSE <<Code[pc].arg>>]_vars

\* Whatever traps, execution goes on with the instruction that follows in the
\* program: the next one, compressed or not, or the target of the jump.
ResumesNext ==
    [][pc' # pc => \/ pc' = Successor(pc)
                   \/ handlers["jump"] # "default" /\ pc' = pc + Code[pc].len]_vars

\* A load or store is stepped over only when no live bound covers it.
SkipsOnlyDenied ==
    [][at = "return" /\ pc' # pc =>
          <<Code[pc].kind, Code[pc].arg>> \notin granted]_vars

\* An instruction traps at most twice: one fault sets the register of one
\* zone, a second one the other (fetch.c:20), and a refilled access succeeds.
FewFaults == faults <= 2

\* Every instruction of untrusted code comes to an end, or the process does.
Progress ==
    \A p \in DOMAIN Code :
        pc = p /\ Code[p].kind # "main"
            ~> pc # p \/ at \in {"exited", "hung"}

\* README.md:98: a system call has a check that the user may set, and by
\* default none; so a call its check refused is not made.
CheckDecides ==
    [][PerformCall => \A i \in DOMAIN ran : ~ Refuses(ran[i])]_vars

=============================================================================
