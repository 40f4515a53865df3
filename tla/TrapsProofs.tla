---------------------------- MODULE TrapsProofs ----------------------------
(***************************************************************************)
(* What a trap does to untrusted code, for every program, every number of  *)
(* system calls and every history of registrations: the type invariant,    *)
(* SyscallOnce, FewFaults, and the actions CallsMade, ResumesNext and      *)
(* SkipsOnlyDenied.                                                        *)
(***************************************************************************)
EXTENDS Traps, TLAPS

AtEcall == Code[pc].kind = "ecall"
AtAccess == Code[pc].kind \in {"load", "store"}
AtJump == Code[pc].kind \in {"jump", "freejump"}

\* The saved context belongs to the instruction at pc, and its reason to the
\* kind of that instruction.
FrameInv ==
    /\ at = "handler" =>
          /\ frame.uepc = pc
          /\ frame.arg = Code[pc].arg
          /\ \/ frame.reason = "mpk" /\ AtAccess
             \/ frame.reason = "jump" /\ AtJump
             \/ frame.reason = Code[pc].kind /\ AtAccess
    /\ at \in {"invoke", "call"} => AtEcall /\ frame.arg = Code[pc].arg
    /\ at = "invoke" => frame.uepc = pc
    /\ at = "call" => frame.uepc = Successor(pc)
    /\ at = "return" =>
          \/ frame.uepc = pc /\ (AtAccess \/ AtJump)
          \/ frame.uepc = Successor(pc)
          \/ AtJump /\ handlers["jump"] # "default"
                /\ frame.uepc = pc + Code[pc].len
    /\ at = "return" /\ AtAccess /\ frame.uepc # pc =>
          <<Code[pc].kind, Code[pc].arg>> \notin granted

\* How far a system call is: nothing made before the entry, the check run
\* before the call, and both done, or the call refused, at the return.
CallInv ==
    /\ at \notin {"call", "return"} => made = <<>> /\ ran = <<>>
    /\ at = "call" =>
          /\ made = <<>>
          /\ handlers["ecall"] # "fatal"
          /\ handlers["ecall"] = "default" =>
                ran = <<checks[Code[pc].arg].check>>
    /\ at = "return" =>
          /\ ~ AtEcall => made = <<>> /\ ran = <<>>
          /\ AtEcall => made = IF handlers["ecall"] = "fatal" THEN <<>>
                               ELSE <<Code[pc].arg>>
          /\ AtEcall /\ handlers["ecall"] = "default" =>
                ran = <<checks[Code[pc].arg].check>>

\* What the faults taken so far have achieved when the instruction is retried.
Retry ==
    \/ faults = 0
    \/ faults = 1 /\ HwAllows
    \/ faults = 1 /\ Code[pc].kind = "freejump" /\ Code[pc].arg = pcs.return
    \/ faults = 2 /\ HwAllows /\ AtJump

FaultInv ==
    /\ at = "user" => Retry
    /\ at = "handler" =>
          \/ faults = 1
          \/ faults = 2 /\ frame.reason = "mpk"
          \/ faults = 2 /\ Code[pc].kind = "freejump"
                /\ Code[pc].arg = pcs.return
    /\ at = "return" /\ frame.uepc = pc => Retry
    /\ faults <= 2

\* The inductive invariant.
IInv == TypeOK /\ FrameInv /\ CallInv /\ FaultInv

-----------------------------------------------------------------------------
LEMMA InitInv == Init => IInv
  <1> SUFFICES ASSUME Init PROVE IInv
    OBVIOUS
  <1>1. TypeOK
    BY CodeAssumption DEF Init, TypeOK, Frame, NoFrame, Accesses, Reasons,
       HandlerNames, Sysnos, Check, CheckNames, ErrorNames, MaxFaults
  <1>2. FrameInv /\ CallInv /\ FaultInv
    BY DEF Init, FrameInv, CallInv, FaultInv, Retry
  <1> QED
    BY <1>1, <1>2 DEF IInv

\* What the assumption on Code says of the instruction at pc.
LEMMA AtInstruction ==
    ASSUME TypeOK
    PROVE  /\ pc \in DOMAIN Code /\ pc \in Nat
           /\ Code[pc].kind \in Kinds /\ Code[pc].len \in {2, 4}
           /\ Code[pc].arg \in Nat
           /\ Successor(pc) \in DOMAIN Code /\ Successor(pc) \in Nat
           /\ Successor(pc) # pc
           /\ ~ (AtJump \/ Code[pc].kind = "main") =>
                 Successor(pc) = pc + Code[pc].len
           /\ AtJump => pc + Code[pc].len \in DOMAIN Code
           /\ AtEcall => Code[pc].len = 4 /\ Code[pc].arg \in Sysnos
  BY CodeAssumption DEF TypeOK, Instruction, Successor, AtJump, AtEcall, Sysnos,
     Kinds

-----------------------------------------------------------------------------
(***************************************************************************)
(* Every step of untrusted code and of the handlers keeps the invariant.   *)
(***************************************************************************)
LEMMA ExecuteInv == ASSUME IInv, Execute PROVE IInv'
  <1>1. pc' = Successor(pc) /\ pc' # pc /\ pc' \in DOMAIN Code
    BY AtInstruction DEF IInv, Execute, ArriveAt
  <1>2. made' = <<>> /\ ran' = <<>> /\ faults' = 0
    BY <1>1 DEF Execute, ArriveAt
  <1>3. at = "user" /\ UNCHANGED <<at, frame, pcs, loaded, tables>>
    BY DEF Execute
  <1>4. TypeOK'
    BY <1>1, <1>2, <1>3 DEF IInv, TypeOK, tables, MaxFaults
  <1>5. FrameInv' /\ CallInv' /\ FaultInv'
    BY <1>2, <1>3 DEF FrameInv, CallInv, FaultInv, Retry
  <1> QED
    BY <1>4, <1>5 DEF IInv

LEMMA TrapInv == ASSUME IInv, Trap PROVE IInv'
  <1> USE DEF IInv
  <1> PICK reason \in TrapReasons :
           /\ frame' = [uepc |-> pc, reason |-> reason, arg |-> Code[pc].arg]
           /\ at' = IF reason = "ecall" THEN "invoke" ELSE "handler"
    BY DEF Trap
  <1>1. at = "user" /\ UNCHANGED <<pc, pcs, loaded, tables, made, ran>>
    BY DEF Trap
  <1>2. /\ reason \in Reasons \cup {"mpk"}
        /\ reason = "ecall" <=> AtEcall
        /\ reason # "ecall" =>
              \/ reason = "mpk" /\ AtAccess
              \/ reason = "jump" /\ AtJump /\ ~ HwAllows
              \/ reason = Code[pc].kind /\ AtAccess /\ ~ HwAllows
    BY AtInstruction DEF TrapReasons, ReasonOf, Reasons, Kinds, HwAllows,
       AtEcall, AtAccess, AtJump
  <1>3. faults' = faults + 1 /\ faults \in {0, 1, 2}
    BY <1>1 DEF Trap, TypeOK, MaxFaults, FaultInv, Retry
  <1>4. TypeOK'
    <2>1. frame' \in Frame
      BY <1>2, AtInstruction DEF Frame
    <2> QED
      BY <1>1, <1>2, <1>3, <2>1 DEF TypeOK, tables, MaxFaults
  <1>5. FrameInv'
    BY <1>1, <1>2 DEF FrameInv, tables, AtEcall, AtAccess, AtJump
  <1>6. CallInv'
    BY <1>1 DEF CallInv
  <1>7. FaultInv'
    <2>1. Retry
      BY <1>1 DEF FaultInv
    <2>2. faults' <= 2
      BY <1>2, <1>3, <2>1 DEF Retry, HwAllows, AtEcall, AtJump, AtAccess
    <2>3. at' = "handler" =>
             \/ faults' = 1
             \/ faults' = 2 /\ frame'.reason = "mpk"
             \/ faults' = 2 /\ Code[pc].kind = "freejump"
                   /\ Code[pc].arg = pcs.return
      BY <1>2, <1>3, <2>1 DEF Retry, HwAllows, AtJump, AtAccess
    <2> QED
      BY <1>1, <2>2, <2>3 DEF FaultInv
  <1> QED
    BY <1>4, <1>5, <1>6, <1>7

\* A handler that steps over the instruction leaves a context to return to.
LEMMA StepOverFrame ==
    ASSUME IInv, frame.uepc = pc, frame' = StepOver(frame)
    PROVE  /\ frame' \in Frame
           /\ frame'.uepc = pc + Code[pc].len
           /\ frame'.uepc # pc
           /\ frame'.arg = frame.arg
  <1>1. frame \in Frame /\ pc \in Nat /\ Code[pc].len \in {2, 4}
    BY AtInstruction DEF IInv, TypeOK
  <1> QED
    BY <1>1 DEF StepOver, Frame

\* A handler leaves the system call of the instruction alone.
LEMMA HandlerCalls ==
    ASSUME IInv, at = "handler", at' \in {"exited", "hung", "return"},
           UNCHANGED <<pc, handlers, checks, made, ran>>
    PROVE  CallInv'
  <1>1. made = <<>> /\ ran = <<>> /\ ~ AtEcall
    BY DEF IInv, CallInv, FrameInv, AtEcall, AtAccess, AtJump
  <1>2. made' = <<>> /\ ran' = <<>> /\ ~ AtEcall'
    BY <1>1 DEF AtEcall
  <1> QED
    BY <1>2 DEF CallInv

LEMMA JumpFaultInv == ASSUME IInv, JumpFault PROVE IInv'
  <1> USE DEF IInv
  <1>1. /\ at = "handler" /\ frame.reason = "jump" /\ entry = "ufault"
        /\ UNCHANGED <<pc, loaded, granted, entry, handlers, checks, made, ran,
                      faults>>
        /\ at' \in {"exited", "return"}
    BY DEF JumpFault, Handling, Leave, tables, history
  <1>2. /\ frame.uepc = pc /\ frame.arg = Code[pc].arg /\ AtJump
        /\ faults \in {1, 2}
        /\ faults = 2 => Code[pc].kind = "freejump" /\ Code[pc].arg = pcs.return
    BY <1>1 DEF FrameInv, FaultInv, AtJump, AtAccess
  <1>3. CallInv'
    BY <1>1, HandlerCalls
  <1>4. CASE handlers["jump"] = "default"
    <2>1. frame' = frame
          /\ pcs' = IF pcs.return # Code[pc].arg
                    THEN [pcs EXCEPT !.return = Code[pc].arg]
                    ELSE [pcs EXCEPT !.free = Code[pc].arg]
      <3>1. frame' = frame /\ pcs' = Recorded(frame.arg)
        BY <1>4 DEF JumpFault
      <3> QED
        BY <1>2, <3>1 DEF Recorded
    <2>2. pcs \in [return : Nat, free : Nat] /\ Code[pc].arg \in Nat
      BY AtInstruction DEF TypeOK
    <2>3. pcs' \in [return : Nat, free : Nat]
      BY <2>1, <2>2
    <2>4. TypeOK'
      BY <1>1, <2>1, <2>3 DEF TypeOK
    <2>5. FrameInv'
      BY <1>1, <1>2, <2>1 DEF FrameInv, AtEcall, AtAccess, AtJump
    <2>6. \/ pcs'.return = Code[pc].arg
          \/ pcs'.return = pcs.return /\ pcs'.free = Code[pc].arg
      BY <2>1, <2>2
    <2>7. Retry'
      <3>1. CASE faults = 1 /\ pcs.return # Code[pc].arg
        <4>1. pcs'.return = Code[pc].arg
          BY <2>1, <2>2, <3>1
        <4> QED
          BY <1>1, <1>2, <3>1, <4>1 DEF Retry, HwAllows, AtJump
      <3>2. CASE pcs.return = Code[pc].arg
        <4>1. pcs'.return = Code[pc].arg /\ pcs'.free = Code[pc].arg
          BY <2>1, <2>2, <3>2
        <4> QED
          BY <1>1, <1>2, <4>1 DEF Retry, HwAllows, AtJump
      <3> QED
        BY <1>2, <3>1, <3>2
    <2>8. FaultInv'
      BY <1>1, <1>2, <2>7 DEF FaultInv
    <2> QED
      BY <1>3, <2>4, <2>5, <2>8
  <1>5. CASE handlers["jump"] # "default"
    <2>1. frame' = StepOver(frame) /\ pcs' = pcs
      BY <1>5 DEF JumpFault
    <2>2. frame' \in Frame /\ frame'.uepc = pc + Code[pc].len /\ frame'.uepc # pc
      BY <1>2, <2>1, StepOverFrame
    <2>3. TypeOK'
      BY <1>1, <2>1, <2>2 DEF TypeOK
    <2>4. FrameInv'
      BY <1>1, <1>2, <1>5, <2>2 DEF FrameInv, AtEcall, AtAccess, AtJump
    <2>5. FaultInv'
      BY <1>1, <1>2, <2>2 DEF FaultInv
    <2> QED
      BY <1>3, <2>3, <2>4, <2>5
  <1> QED
    BY <1>4, <1>5

LEMMA RefillInv == ASSUME IInv, Refill PROVE IInv'
  <1> USE DEF IInv
  <1>1. /\ at = "handler" /\ frame.reason \in {"load", "store"}
        /\ UNCHANGED <<pc, frame, pcs, granted, entry, handlers, checks, made,
                      ran, faults>>
        /\ at' = "return"
        /\ <<frame.reason, frame.arg>> \in granted
    BY DEF Refill, Handling, Finds, tables, history
  <1>2. PICK kept \in SUBSET loaded :
            loaded' = kept \cup {<<frame.reason, frame.arg>>}
    BY DEF Refill
  <1>3. /\ frame.uepc = pc /\ frame.arg = Code[pc].arg /\ AtAccess
        /\ frame.reason = Code[pc].kind /\ faults = 1
    BY <1>1 DEF FrameInv, FaultInv, AtJump, AtAccess
  <1>4. TypeOK'
    BY <1>1, <1>2 DEF TypeOK
  <1>5. FrameInv'
    BY <1>1, <1>3 DEF FrameInv, AtAccess, AtJump, AtEcall
  <1>6. CallInv'
    BY <1>1, HandlerCalls
  <1>7. HwAllows'
    BY <1>1, <1>2, <1>3 DEF HwAllows, AtAccess
  <1>8. FaultInv'
    BY <1>1, <1>3, <1>7 DEF FaultInv, Retry
  <1> QED
    BY <1>4, <1>5, <1>6, <1>8

LEMMA AccessFaultInv == ASSUME IInv, AccessFault PROVE IInv'
  <1> USE DEF IInv
  <1>1. /\ at = "handler" /\ frame.reason \in {"load", "store"}
        /\ UNCHANGED <<pc, pcs, granted, loaded, entry, handlers, checks, made,
                      ran, faults>>
        /\ at' \in {"exited", "return"}
        /\ <<frame.reason, frame.arg>> \notin granted
        /\ frame' = StepOver(frame)
    BY DEF AccessFault, Handling, Finds, Leave, tables, history
  <1>2. /\ frame.uepc = pc /\ frame.arg = Code[pc].arg /\ AtAccess
        /\ frame.reason = Code[pc].kind /\ faults = 1
    BY <1>1 DEF FrameInv, FaultInv, AtJump, AtAccess
  <1>3. frame' \in Frame /\ frame'.uepc = pc + Code[pc].len /\ frame'.uepc # pc
    BY <1>1, <1>2, StepOverFrame
  <1>4. Successor(pc) = pc + Code[pc].len
    BY <1>2, AtInstruction DEF AtAccess, AtJump
  <1>5. TypeOK'
    BY <1>1, <1>3 DEF TypeOK
  <1>6. Successor(pc)' = Successor(pc)
    BY <1>1 DEF Successor
  <1>7. FrameInv'
    BY <1>1, <1>2, <1>3, <1>4, <1>6 DEF FrameInv, AtAccess, AtJump, AtEcall
  <1>8. CallInv'
    BY <1>1, HandlerCalls
  <1>9. FaultInv'
    BY <1>1, <1>2, <1>3 DEF FaultInv
  <1> QED
    BY <1>5, <1>7, <1>8, <1>9

LEMMA EndInv ==
    ASSUME IInv, UnknownFault \/ SetupOtherFault
    PROVE  IInv'
  <1> USE DEF IInv
  <1>1. /\ at = "handler" /\ at' \in {"exited", "hung"}
        /\ UNCHANGED <<pc, frame, pcs, granted, loaded, entry, handlers, checks,
                      made, ran, faults>>
    BY DEF UnknownFault, SetupOtherFault, Handling, tables, history
  <1>2. TypeOK'
    BY <1>1 DEF TypeOK
  <1>3. FrameInv' /\ FaultInv'
    BY <1>1 DEF FrameInv, FaultInv
  <1>4. CallInv'
    BY <1>1, HandlerCalls
  <1> QED
    BY <1>2, <1>3, <1>4

LEMMA SetupJumpFaultInv == ASSUME IInv, SetupJumpFault PROVE IInv'
  <1> USE DEF IInv
  <1>1. /\ at = "handler" /\ frame.reason = "jump" /\ at' = "return"
        /\ UNCHANGED <<pc, frame, granted, loaded, entry, handlers, checks, made,
                      ran, faults>>
        /\ pcs' = [return |-> frame.arg, free |-> frame.arg]
    BY DEF SetupJumpFault, Handling, tables, history
  <1>2. /\ frame.uepc = pc /\ frame.arg = Code[pc].arg /\ AtJump
        /\ faults \in {1, 2}
    BY <1>1 DEF FrameInv, FaultInv, AtJump, AtAccess
  <1>3. pcs' \in [return : Nat, free : Nat]
    BY <1>1, <1>2, AtInstruction
  <1>4. TypeOK'
    BY <1>1, <1>3 DEF TypeOK
  <1>5. FrameInv'
    BY <1>1, <1>2 DEF FrameInv, AtAccess, AtJump, AtEcall
  <1>6. CallInv'
    BY <1>1, HandlerCalls
  <1>7. HwAllows' /\ AtJump'
    BY <1>1, <1>2 DEF HwAllows, AtJump
  <1>8. FaultInv'
    BY <1>1, <1>2, <1>7 DEF FaultInv, Retry
  <1> QED
    BY <1>4, <1>5, <1>6, <1>8

LEMMA CheckCallInv == ASSUME IInv, CheckCall PROVE IInv'
  <1> USE DEF IInv
  <1>1. /\ at = "invoke" /\ AtEcall /\ frame.arg = Code[pc].arg
        /\ frame.uepc = pc /\ made = <<>> /\ ran = <<>>
        /\ UNCHANGED <<pc, pcs, granted, loaded, entry, handlers, checks, made,
                      faults>>
        /\ at' = IF handlers["ecall"] # "fatal" THEN "call" ELSE "return"
    BY DEF CheckCall, Goes, FrameInv, CallInv, tables
  <1>2. Code[pc].len = 4 /\ Code[pc].arg \in Sysnos /\ pc \in Nat
        /\ Successor(pc) = pc + 4 /\ Successor(pc) # pc
    BY <1>1, AtInstruction DEF AtEcall, AtJump
  <1>3. frame' = StepOver(frame) \/ frame' = Advanced(frame)
    BY DEF CheckCall
  <1>4. frame' \in Frame /\ frame'.uepc = Successor(pc) /\ frame'.arg = frame.arg
    BY <1>1, <1>2, <1>3 DEF StepOver, Advanced, Frame, TypeOK
  <1>5. ran' = IF handlers["ecall"] = "default"
               THEN <<checks[Code[pc].arg].check>> ELSE <<>>
    BY <1>1 DEF CheckCall
  <1>6. ran' \in Seq(CheckNames)
    BY <1>2, <1>5 DEF TypeOK, Check
  <1>7. TypeOK'
    BY <1>1, <1>4, <1>6 DEF TypeOK
  <1>8. Successor(pc)' = Successor(pc)
    BY <1>1 DEF Successor
  <1>9. FrameInv'
    BY <1>1, <1>4, <1>8 DEF FrameInv, AtAccess, AtJump, AtEcall
  <1>10. CallInv'
    BY <1>1, <1>5 DEF CallInv, AtEcall
  <1>11. FaultInv'
    BY <1>1, <1>2, <1>4 DEF FaultInv
  <1> QED
    BY <1>7, <1>9, <1>10, <1>11

LEMMA PerformCallInv == ASSUME IInv, PerformCall PROVE IInv'
  <1> USE DEF IInv
  <1>1. /\ at = "call" /\ at' = "return" /\ AtEcall
        /\ frame.arg = Code[pc].arg /\ frame.uepc = Successor(pc)
        /\ made = <<>> /\ made' = <<Code[pc].arg>>
        /\ handlers["ecall"] # "fatal"
        /\ UNCHANGED <<pc, frame, pcs, granted, loaded, entry, handlers, checks,
                      ran, faults>>
    BY DEF PerformCall, FrameInv, CallInv, tables
  <1>2. Code[pc].arg \in Nat /\ Successor(pc) # pc
    BY AtInstruction
  <1>3. TypeOK'
    BY <1>1, <1>2 DEF TypeOK
  <1>4. Successor(pc)' = Successor(pc)
    BY <1>1 DEF Successor
  <1>5. FrameInv'
    BY <1>1, <1>2, <1>4 DEF FrameInv, AtAccess, AtJump, AtEcall
  <1>6. CallInv'
    BY <1>1 DEF CallInv, AtEcall
  <1>7. FaultInv'
    BY <1>1, <1>2 DEF FaultInv
  <1> QED
    BY <1>3, <1>5, <1>6, <1>7

LEMMA ReturnInv == ASSUME IInv, Return PROVE IInv'
  <1> USE DEF IInv
  <1>1. /\ at = "return" /\ at' = "user" /\ pc' = frame.uepc
        /\ frame' = NoFrame
        /\ UNCHANGED <<pcs, granted, loaded, entry, handlers, checks>>
    BY DEF Return, ArriveAt, tables
  <1>2. NoFrame \in Frame
    BY DEF NoFrame, Frame
  <1>3. pc' \in DOMAIN Code
    BY <1>1, AtInstruction DEF FrameInv
  <1>4. CASE pc' = pc
    <2>1. UNCHANGED <<made, ran, faults>>
      BY <1>1, <1>4 DEF Return, ArriveAt, history
    <2>2. ~ AtEcall
      BY <1>1, <1>4, AtInstruction DEF FrameInv, AtEcall, AtAccess, AtJump
    <2>3. TypeOK'
      BY <1>1, <1>2, <1>3, <2>1 DEF TypeOK
    <2>4. FrameInv' /\ CallInv'
      BY <1>1, <2>1, <2>2 DEF FrameInv, CallInv
    <2>5. Retry'
      BY <1>1, <1>4, <2>1 DEF FaultInv, Retry, HwAllows, AtJump
    <2>6. FaultInv'
      BY <1>1, <2>1, <2>5 DEF FaultInv
    <2> QED
      BY <2>3, <2>4, <2>6
  <1>5. CASE pc' # pc
    <2>1. made' = <<>> /\ ran' = <<>> /\ faults' = 0
      BY <1>1, <1>5 DEF Return, ArriveAt
    <2>2. TypeOK'
      BY <1>1, <1>2, <1>3, <2>1 DEF TypeOK, MaxFaults
    <2>3. FrameInv' /\ CallInv' /\ FaultInv'
      BY <1>1, <2>1 DEF FrameInv, CallInv, FaultInv, Retry
    <2> QED
      BY <2>2, <2>3
  <1> QED
    BY <1>4, <1>5

-----------------------------------------------------------------------------
(***************************************************************************)
(* Trusted code.                                                           *)
(***************************************************************************)
\* Trusted code runs between instructions of untrusted code: what is said of
\* traps does not depend on the tables it changes.
LEMMA MainInv ==
    ASSUME IInv, InMain, TypeOK',
           UNCHANGED <<pc, at, frame, pcs, made, ran, faults>>
    PROVE  IInv'
  <1>1. HwAllows /\ HwAllows' /\ at = "user" /\ ~ AtJump
    BY DEF InMain, HwAllows, AtJump
  <1>2. faults = 0 \/ faults = 1
    BY <1>1 DEF IInv, FaultInv, Retry, InMain
  <1>3. FrameInv' /\ CallInv'
    BY <1>1 DEF IInv, FrameInv, CallInv
  <1>4. FaultInv'
    BY <1>1, <1>2 DEF FaultInv, Retry
  <1> QED
    BY <1>3, <1>4 DEF IInv

LEMMA RegisterUdasicsInv == ASSUME IInv, RegisterUdasics PROVE IInv'
  <1>1. TypeOK'
    BY DEF RegisterUdasics, IInv, TypeOK, history
  <1> QED
    BY <1>1, MainInv DEF RegisterUdasics, history

LEMMA RegisterHandlerInv ==
    ASSUME IInv, NEW r \in Reasons, NEW h \in HandlerNames \cup {"NULL"},
           RegisterHandler(r, h)
    PROVE  IInv'
  <1>1. handlers \in [Reasons -> HandlerNames]
    BY DEF IInv, TypeOK
  <1>2. handlers' \in [Reasons -> HandlerNames]
    BY <1>1 DEF RegisterHandler
  <1>3. TypeOK'
    BY <1>2 DEF RegisterHandler, IInv, TypeOK, history
  <1> QED
    BY <1>3, MainInv DEF RegisterHandler, history

LEMMA RegisterCheckInv ==
    ASSUME IInv, NEW n \in -1 .. NumCalls, NEW c \in CheckNames \cup {"NULL"},
           NEW e \in ErrorNames \cup {"NULL"}, RegisterCheck(n, c, e)
    PROVE  IInv'
  <1>1. checks \in [Sysnos -> Check]
    BY DEF IInv, TypeOK
  <1>2. checks' \in [Sysnos -> Check]
    BY <1>1 DEF RegisterCheck, OrKept, Check
  <1>3. TypeOK'
    BY <1>2 DEF RegisterCheck, IInv, TypeOK, history
  <1> QED
    BY <1>3, MainInv DEF RegisterCheck, history

LEMMA ChangeBoundsInv == ASSUME IInv, ChangeBounds PROVE IInv'
  <1>1. Accesses' = Accesses
    BY DEF Accesses
  <1>2. TypeOK'
    BY <1>1 DEF ChangeBounds, IInv, TypeOK, history
  <1> QED
    BY <1>2, MainInv DEF ChangeBounds, history

LEMMA MainGoesOnInv == ASSUME IInv, MainGoesOn PROVE IInv'
  <1> USE DEF IInv
  <1>1. /\ at = "user" /\ pc' = Successor(pc)
        /\ UNCHANGED <<at, frame, loaded, granted, entry, handlers, checks>>
        /\ pcs' = [pcs EXCEPT !.return = pc]
    BY DEF MainGoesOn, InMain, ArriveAt, tables
  <1>2. pc' # pc /\ pc' \in DOMAIN Code /\ pc \in Nat
    BY <1>1, AtInstruction
  <1>3. made' = <<>> /\ ran' = <<>> /\ faults' = 0
    BY <1>1, <1>2 DEF MainGoesOn, ArriveAt
  <1>4. pcs' \in [return : Nat, free : Nat]
    BY <1>1, <1>2 DEF TypeOK
  <1>5. TypeOK'
    BY <1>1, <1>2, <1>3, <1>4 DEF TypeOK, MaxFaults
  <1>6. FrameInv' /\ CallInv' /\ FaultInv'
    BY <1>1, <1>3 DEF FrameInv, CallInv, FaultInv, Retry
  <1> QED
    BY <1>5, <1>6

LEMMA StutterInv == ASSUME IInv, UNCHANGED vars PROVE IInv'
  <1>1. UNCHANGED <<pc, at, frame, pcs, granted, loaded, entry, handlers, checks,
                    made, ran, faults>>
    BY DEF vars
  <1>2. TypeOK'
    BY <1>1 DEF IInv, TypeOK
  <1>3. Successor(pc)' = Successor(pc)
    BY <1>1 DEF Successor
  <1>4. FrameInv' /\ CallInv'
    BY <1>1, <1>3 DEF IInv, FrameInv, CallInv, AtEcall, AtAccess, AtJump
  <1>5. FaultInv'
    BY <1>1 DEF IInv, FaultInv, Retry, HwAllows, AtJump
  <1> QED
    BY <1>2, <1>4, <1>5 DEF IInv

LEMMA NextInv == ASSUME IInv, [Next]_vars PROVE IInv'
  <1>1. ASSUME Untrusted PROVE IInv'
    BY <1>1, ExecuteInv, TrapInv, ReturnInv, JumpFaultInv, RefillInv,
       AccessFaultInv, EndInv, SetupJumpFaultInv, CheckCallInv, PerformCallInv
       DEF Untrusted
  <1> QED
    BY <1>1, RegisterUdasicsInv, RegisterHandlerInv, RegisterCheckInv,
       ChangeBoundsInv, MainGoesOnInv, StutterInv DEF Next

\* The invariant of the model holds in every reachable state, whatever code
\* runs: contexts belong to the trapped instruction, calls follow their checks.
THEOREM InvariantHolds == Spec => []IInv
  <1> QED
    BY InitInv, NextInv, PTL DEF Spec

\* All variables keep their types; uret always resumes at an instruction.
THEOREM TypeCorrect == Spec => []TypeOK
  <1>1. IInv => TypeOK
    BY DEF IInv
  <1> QED
    BY <1>1, InvariantHolds, PTL

\* No program makes LibDASICS repeat a system call, or make one before its
\* check ran.
THEOREM CallsAreMadeOnce == Spec => []SyscallOnce
  <1>1. IInv => SyscallOnce
    BY DEF IInv, CallInv, SyscallOnce, AtEcall, FrameInv
  <1> QED
    BY <1>1, InvariantHolds, PTL

\* No instruction traps more than twice.
THEOREM TrapsAreBounded == Spec => []FewFaults
  <1>1. IInv => FewFaults
    BY DEF IInv, FaultInv, FewFaults
  <1> QED
    BY <1>1, InvariantHolds, PTL

-----------------------------------------------------------------------------
\* Untrusted code gets past an instruction by executing it or by a return from
\* a handler, trusted code by going on.
LEMMA Moves ==
    ASSUME IInv, [Next]_vars, pc' # pc
    PROVE  \/ /\ at = "user" /\ ~ AtEcall /\ pc' = Successor(pc)
           \/ /\ at = "return" /\ pc' = frame.uepc
  <1>1. Execute \/ MainGoesOn \/ Return
    BY DEF Next, Untrusted, vars, Trap, JumpFault, Refill, AccessFault,
       UnknownFault, SetupJumpFault, SetupOtherFault, CheckCall, PerformCall,
       RegisterUdasics, RegisterHandler, RegisterCheck, ChangeBounds
  <1>2. CASE Execute
    BY <1>2 DEF Execute, ArriveAt, HwAllows, AtEcall
  <1>3. CASE MainGoesOn
    BY <1>3 DEF MainGoesOn, InMain, ArriveAt, AtEcall
  <1>4. CASE Return
    BY <1>4 DEF Return, ArriveAt
  <1> QED
    BY <1>1, <1>2, <1>3, <1>4

\* Whatever traps, execution goes on with the instruction that follows.
THEOREM ExecutionFollowsCode == Spec => ResumesNext
  <1>1. ASSUME IInv, [Next]_vars
        PROVE  [pc' # pc =>
                   \/ pc' = Successor(pc)
                   \/ handlers["jump"] # "default"
                         /\ pc' = pc + Code[pc].len]_vars
    BY <1>1, Moves DEF IInv, FrameInv
  <1> QED
    BY <1>1, InvariantHolds, PTL DEF Spec, ResumesNext

\* No program loses a system call, and none that a handler refused is made.
THEOREM NoCallIsLost == Spec => CallsMade
  <1>1. ASSUME IInv, [Next]_vars
        PROVE  [pc' # pc /\ Code[pc].kind = "ecall" =>
                   made = IF handlers["ecall"] = "fatal" THEN <<>>
                          ELSE <<Code[pc].arg>>]_vars
    BY <1>1, Moves DEF IInv, CallInv, AtEcall
  <1> QED
    BY <1>1, InvariantHolds, PTL DEF Spec, CallsMade

\* An access that a live bound covers is never stepped over.
THEOREM GrantedIsNotSkipped == Spec => SkipsOnlyDenied
  <1>1. ASSUME IInv, [Next]_vars
        PROVE  [at = "return" /\ pc' # pc =>
                   <<Code[pc].kind, Code[pc].arg>> \notin granted]_vars
    <2>1. granted \subseteq Accesses
      BY <1>1 DEF IInv, TypeOK
    <2>2. ASSUME at = "return", pc' # pc, ~ AtAccess
          PROVE  <<Code[pc].kind, Code[pc].arg>> \notin granted
      BY <2>1, <2>2 DEF Accesses, AtAccess
    <2>3. ASSUME at = "return", pc' # pc, AtAccess
          PROVE  <<Code[pc].kind, Code[pc].arg>> \notin granted
      BY <1>1, <2>3, Moves DEF IInv, FrameInv
    <2> QED
      BY <2>2, <2>3
  <1> QED
    BY <1>1, InvariantHolds, PTL DEF Spec, SkipsOnlyDenied

=============================================================================
