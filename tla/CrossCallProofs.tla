-------------------------- MODULE CrossCallProofs --------------------------
(***************************************************************************)
(* Theorems about CrossCall for any objects, regions, numbers of registers *)
(* and nesting: returns find their caller, entries are told apart, and     *)
(* bounds, jump registers and the cross stack follow the calls.            *)
(***************************************************************************)
EXTENDS CrossCall, BoundRegsProofs, WellFoundedInduction, SequenceTheorems

-----------------------------------------------------------------------------
(***************************************************************************)
(* A non-empty set of natural numbers has a least element.                 *)
(***************************************************************************)
LEMMA NatMin ==
    ASSUME NEW T \in SUBSET Nat, T # {}
    PROVE  \E x \in T : \A y \in T : x <= y
<1> DEFINE R == OpToRel(<, Nat)
<1>1. \E x \in T : \A y \in T : ~ (<<y, x>> \in R)
  <2>1. IsWellFoundedOn(R, Nat)
    BY NatLessThanWellFounded
  <2> HIDE DEF R
  <2> QED
    BY <2>1, WFMin
<1>2. PICK x \in T : \A y \in T : ~ (<<y, x>> \in R)
  BY <1>1
<1>3. ASSUME NEW y \in T, y < x PROVE FALSE
  <2>1. <<y, x>> \in Nat \X Nat /\ <<y, x>>[1] < <<y, x>>[2]
    BY <1>3
  <2>2. <<y, x>> \in R
    BY <2>1 DEF OpToRel
  <2> QED
    BY <2>2, <1>2
<1> HIDE DEF R
<1>4. x \in Nat
  BY <1>2
<1>5. ASSUME NEW y \in T PROVE x <= y
  BY <1>3, <1>4
<1> QED
  BY <1>5

-----------------------------------------------------------------------------
(***************************************************************************)
(* The first part of the inductive invariant: control and its two stacks.  *)
(***************************************************************************)
\* A call is under way; it has been counted against the bounds of the model.
Calling ==
    /\ entry.is = "call"
    /\ entry.t3
    /\ entry.ra \in {0, Len(acts)}
    /\ Len(acts) < MaxDepth
    /\ NotCross(entry.from, entry.to) \/ lib.next + 3 <= MaxHandles

\* A function called across has returned, or ended in a tail call of the helper.
Returning == entry.is \in {"return", "helper"} /\ ~ entry.t3 /\ entry.ra = 0
Helping == entry.is = "helper" /\ ~ entry.t3 /\ entry.ra = Len(acts)

\* Outside dasics_umaincall t3 is clear, and control is in the innermost
\* activation; every activation but the first returns to the one below it or
\* to dasics_umaincall.
Control ==
    /\ Len(acts) \in 1 .. MaxDepth
    /\ \A i \in 2 .. Len(acts) : acts[i].ra \in {0, i - 1}
    /\ mode = "run" => here = Len(acts) /\ ~ entry.t3
    /\ mode = "enter" => Calling \/ Returning \/ Helping

\* The activations that wait for dasics_umaincall to return to them: the one
\* above was called across, or has just been left.
Waiting ==
    {j \in 1 .. Len(acts) :
        \/ j < Len(acts) /\ acts[j + 1].ra = 0
        \/ j = Len(acts) /\ mode = "enter" /\ entry.ra = 0}

\* The frames that hold the address of an activation are in the order of the
\* activations, one for each that waits. The frames between them are those of
\* tail calls.
Increasing(frames) ==
    \A k, l \in 1 .. Len(frames) :
        k < l /\ frames[k].ra # 0 /\ frames[l].ra # 0 =>
            frames[k].ra < frames[l].ra

Resumes(frames) == {frames[k].ra : k \in 1 .. Len(frames)} \ {0}

FramesMatch ==
    mode \in {"run", "enter"} => Resumes(cross) = Waiting /\ Increasing(cross)

CallInv == TypeOK /\ Control /\ FramesMatch

-----------------------------------------------------------------------------
LEMMA AppendFacts ==
    ASSUME NEW S, NEW s \in Seq(S), NEW e \in S
    PROVE  LET t == Append(s, e)
           IN  /\ t \in Seq(S) /\ Len(s) \in Nat /\ Len(t) = Len(s) + 1
               /\ \A i \in 1 .. Len(s) : t[i] = s[i]
               /\ t[Len(s) + 1] = e
  BY AppendProperties, LenProperties

LEMMA PrefixFacts ==
    ASSUME NEW S, NEW s \in Seq(S), NEW n \in 0 .. Len(s)
    PROVE  /\ SubSeq(s, 1, n) \in Seq(S) /\ Len(SubSeq(s, 1, n)) = n
           /\ \A i \in 1 .. n : SubSeq(s, 1, n)[i] = s[i]
  OBVIOUS

LEMMA FrontFacts ==
    ASSUME NEW S, NEW s \in Seq(S), s # <<>>
    PROVE  /\ Front(s) \in Seq(S) /\ Len(s) \in Nat \ {0}
           /\ Len(Front(s)) = Len(s) - 1
           /\ \A i \in 1 .. Len(s) - 1 : Front(s)[i] = s[i]
           /\ Last(s) = s[Len(s)] /\ Last(s) \in S
<1>1. Len(s) \in Nat \ {0} /\ \A i \in 1 .. Len(s) : s[i] \in S
  BY EmptySeq, LenProperties, ElementOfSeq
<1>2. Len(s) - 1 \in 0 .. Len(s) /\ Len(s) \in 1 .. Len(s)
  BY <1>1
<1> QED
  BY <1>1, <1>2, PrefixFacts, Zenon DEF Front, Last

\* The sequences of the state, as the steps below use them.
LEMMA StackFacts ==
    ASSUME TypeOK
    PROVE  /\ Len(acts) \in Nat /\ Len(cross) \in Nat
           /\ DOMAIN acts = 1 .. Len(acts) /\ DOMAIN cross = 1 .. Len(cross)
           /\ \A i \in 1 .. Len(acts) : acts[i] \in Activation
           /\ \A i \in 1 .. Len(cross) : cross[i] \in Frame
           /\ Len(cross) = 0 <=> cross = <<>>
           /\ Len(acts) = 0 <=> acts = <<>>
  BY LenProperties, ElementOfSeq, EmptySeq DEF TypeOK

-----------------------------------------------------------------------------
LEMMA InitCallInv == Init => CallInv
<1> SUFFICES ASSUME Init PROVE CallInv
  OBVIOUS
<1>1. acts = <<[code |-> Start, ra |-> 1]>> /\ cross = <<>> /\ here = 1
      /\ mode = "run" /\ entry = Outer(FALSE)
  BY DEF Init
<1>2. acts \in Seq(Activation) /\ cross \in Seq(Frame)
      /\ Len(acts) = 1 /\ Len(cross) = 0
  BY <1>1, LibsAssumption, LimitsAssumption DEF Activation
<1>3. LibType(lib)
  <2>1. lib.table = [h \in {} |-> 0] /\ Live(lib) = {} /\ lib.next = 0
    BY DEF Init, Live
  <2>2. /\ lib.cfg \in [Slots -> Cfg] /\ lib.bound \in [Slots -> Bound]
        /\ lib.map \in [Slots -> Int]
        /\ DOMAIN lib = {"table", "next", "cfg", "bound", "map"}
    BY DEF Init, Cfg, Bound, InitialMap
  <2>3. lib.table = Restrict(lib.table, Live(lib))
    BY <2>1 DEF Restrict
  <2> QED
    BY <2>1, <2>2, <2>3 DEF LibType
<1>4. jump \in [valid : SUBSET JumpSlots,
                range : [JumpSlots -> Libs \cup {NoRange}]]
  BY DEF Init
<1>5. entry \in EntryRegisters
  BY <1>1, LibsAssumption, LimitsAssumption DEF Outer, EntryRegisters
<1>6. TypeOK
  <2>1. here \in 1 .. MaxDepth /\ mode \in {"run", "enter", "aborted", "corrupt"}
    BY <1>1, LimitsAssumption
  <2> QED
    BY <1>2, <1>3, <1>4, <1>5, <2>1 DEF TypeOK
<1>7. Control
  BY <1>1, <1>2, LimitsAssumption DEF Control, Outer
<1>8. FramesMatch
  BY <1>1, <1>2 DEF FramesMatch, Waiting, Resumes, Increasing
<1> QED
  BY <1>6, <1>7, <1>8 DEF CallInv

-----------------------------------------------------------------------------
(***************************************************************************)
(* Every step keeps it. Most leave the cross stack and the waiting         *)
(* activations alone.                                                      *)
(***************************************************************************)
\* The frame pop_cross pops resumes the innermost activation, or is that of a
\* tail call made from one further in.
LEMMA TopFrame ==
    ASSUME CallInv, TakenForReturn
    PROVE  /\ cross # <<>> /\ Returning
           /\ Len(cross) \in 1 .. Len(cross) /\ Last(cross) = cross[Len(cross)]
           /\ cross[Len(cross)].ra \in {0, Len(acts)}
<1>1. Returning /\ Len(acts) \in Nat \ {0} /\ mode = "enter"
  BY LimitsAssumption DEF CallInv, Control, TakenForReturn, Umaincall, Calling,
     Helping
<1>2. Len(acts) \in Waiting
  BY <1>1 DEF Waiting, Returning
<1>3. PICK k \in 1 .. Len(cross) : cross[k].ra = Len(acts)
  BY <1>1, <1>2 DEF CallInv, FramesMatch, Resumes
<1>4. Len(cross) \in 1 .. Len(cross) /\ cross # <<>> /\ Len(cross) \in Nat
  BY <1>3, StackFacts DEF CallInv
<1>5. cross[Len(cross)].ra \in {0, Len(acts)}
  <2> DEFINE ra == cross[Len(cross)].ra
  <2>1. SUFFICES ASSUME ra # 0 PROVE ra = Len(acts)
    OBVIOUS
  <2>2. ra \in Waiting
    BY <1>1, <1>4, <2>1 DEF CallInv, FramesMatch, Resumes
  <2>3. ra \in 1 .. Len(acts)
    BY <2>2 DEF Waiting
  <2>4. k < Len(cross) => Len(acts) < ra
    BY <1>1, <1>3, <1>4, <2>1 DEF CallInv, FramesMatch, Increasing
  <2> QED
    BY <1>1, <1>3, <1>4, <2>3, <2>4
<1> QED
  BY <1>1, <1>4, <1>5 DEF Last

\* The activations after a call: a tail call gives up the innermost one.
LEMMA HandedOn ==
    ASSUME CallInv, mode = "run", NEW tail \in BOOLEAN, tail => here > 1,
           acts' = IF tail THEN Front(acts) ELSE acts
    PROVE  /\ acts' \in Seq(Activation) /\ Len(acts') \in 1 .. Len(acts)
           /\ Len(acts') = Len(acts) - IF tail THEN 1 ELSE 0
           /\ \A i \in 1 .. Len(acts') : acts'[i] = acts[i]
           /\ ReturnAddress(tail) \in {0, Len(acts')} \cap (0 .. MaxDepth)
           /\ Waiting = {j \in 1 .. Len(acts') :
                            \/ j < Len(acts') /\ acts'[j + 1].ra = 0
                            \/ j = Len(acts') /\ ReturnAddress(tail) = 0}
<1> DEFINE n == Len(acts)
<1>1. TypeOK /\ Control /\ n \in 1 .. MaxDepth /\ n \in Nat /\ here = n
      /\ MaxDepth \in Nat
  BY LimitsAssumption, StackFacts DEF CallInv, Control
<1>2. acts[n] \in Activation /\ acts # <<>>
  BY <1>1, StackFacts
<1>3. CASE tail
  <2>1. acts' = Front(acts) /\ acts \in Seq(Activation) /\ n > 1
    BY <1>1, <1>3 DEF TypeOK
  <2>2. /\ acts' \in Seq(Activation) /\ Len(acts') = n - 1
        /\ \A i \in 1 .. n - 1 : acts'[i] = acts[i]
    BY <1>2, <2>1, FrontFacts, Zenon
  <2>3. ReturnAddress(tail) = acts[n].ra /\ acts[n].ra \in {0, n - 1}
    BY <1>1, <1>3, <2>1 DEF ReturnAddress, Control
  <2>4. Waiting = {j \in 1 .. n - 1 : acts[j + 1].ra = 0}
    BY <1>1 DEF Waiting
  <2>5. \A j \in 1 .. n - 1 :
           acts[j + 1].ra = 0 <=>
              \/ j < n - 1 /\ acts'[j + 1].ra = 0
              \/ j = n - 1 /\ ReturnAddress(tail) = 0
    BY <1>1, <2>1, <2>2, <2>3
  <2>6. ReturnAddress(tail) \in {0, n - 1} \cap (0 .. MaxDepth)
    BY <1>1, <2>1, <2>3
  <2>7. Waiting = {j \in 1 .. Len(acts') :
                     \/ j < Len(acts') /\ acts'[j + 1].ra = 0
                     \/ j = Len(acts') /\ ReturnAddress(tail) = 0}
    BY <2>2, <2>4, <2>5, Zenon
  <2>8. Len(acts') \in 1 .. n /\ Len(acts') = n - IF tail THEN 1 ELSE 0
    BY <1>1, <1>3, <2>1, <2>2
  <2> QED
    BY <2>2, <2>6, <2>7, <2>8, Zenon
<1>4. CASE ~ tail
  <2>1. acts' = acts /\ acts \in Seq(Activation) /\ ReturnAddress(tail) = n
    BY <1>1, <1>4 DEF ReturnAddress, TypeOK
  <2> QED
    BY <1>1, <1>4, <2>1 DEF Waiting
<1> QED
  BY <1>3, <1>4

LEMMA CallStep ==
    ASSUME CallInv, NEW target \in Libs, NEW tail \in BOOLEAN,
           Call(target, tail)
    PROVE  CallInv'
<1>1. TypeOK /\ Control /\ FramesMatch /\ Len(acts) \in 1 .. MaxDepth
      /\ here = Len(acts) /\ mode = "run" /\ MaxDepth \in Nat
  BY LimitsAssumption, StackFacts DEF CallInv, Control, Call
<1>2. /\ acts' \in Seq(Activation) /\ Len(acts') \in 1 .. Len(acts)
      /\ Len(acts') = Len(acts) - IF tail THEN 1 ELSE 0
      /\ \A i \in 1 .. Len(acts') : acts'[i] = acts[i]
      /\ ReturnAddress(tail) \in {0, Len(acts')} \cap (0 .. MaxDepth)
      /\ Waiting = {j \in 1 .. Len(acts') :
                       \/ j < Len(acts') /\ acts'[j + 1].ra = 0
                       \/ j = Len(acts') /\ ReturnAddress(tail) = 0}
  BY HandedOn, Zenon DEF Call
<1>3. /\ entry'.ra = ReturnAddress(tail) /\ entry'.t3 /\ entry'.is = "call"
      /\ entry'.from = Running /\ entry'.to = target
      /\ entry' \in EntryRegisters
  <2>1. Running \in Libs
    BY <1>1, StackFacts DEF Running, Activation
  <2> QED
    BY <1>2, <2>1 DEF Call, EntryRegisters
<1>4. TypeOK'
  BY <1>1, <1>2, <1>3 DEF TypeOK, Call
<1>5. Control'
  <2>1. Len(acts') < MaxDepth
    BY <1>1, <1>2 DEF Call, Affordable
  <2>2. NotCross(entry'.from, entry'.to) \/ lib'.next + 3 <= MaxHandles
    BY <1>3 DEF Call, Affordable
  <2>3. Calling'
    BY <1>2, <1>3, <2>1, <2>2 DEF Calling, NotCross
  <2>4. \A i \in 2 .. Len(acts') : acts'[i].ra \in {0, i - 1}
    BY <1>1, <1>2 DEF Control
  <2> QED
    BY <1>1, <1>2, <2>3, <2>4 DEF Control, Call
<1>6. Waiting' = Waiting
  BY <1>2, <1>3 DEF Waiting, Call
<1>7. FramesMatch'
  BY <1>1, <1>6 DEF FramesMatch, Call
<1> QED
  BY <1>4, <1>5, <1>7 DEF CallInv

LEMMA CallHelperStep ==
    ASSUME CallInv, NEW tail \in BOOLEAN, CallHelper(tail)
    PROVE  CallInv'
<1>1. TypeOK /\ Control /\ FramesMatch /\ Len(acts) \in 1 .. MaxDepth
      /\ mode = "run" /\ ~ entry.t3 /\ MaxDepth \in Nat
  BY LimitsAssumption, StackFacts DEF CallInv, Control, CallHelper
<1>2. /\ acts' \in Seq(Activation) /\ Len(acts') \in 1 .. Len(acts)
      /\ \A i \in 1 .. Len(acts') : acts'[i] = acts[i]
      /\ ReturnAddress(tail) \in {0, Len(acts')} \cap (0 .. MaxDepth)
      /\ Waiting = {j \in 1 .. Len(acts') :
                       \/ j < Len(acts') /\ acts'[j + 1].ra = 0
                       \/ j = Len(acts') /\ ReturnAddress(tail) = 0}
  BY HandedOn, Zenon DEF CallHelper
<1>3. /\ entry' \in EntryRegisters /\ ~ entry'.t3
      /\ entry'.ra = ReturnAddress(tail) /\ entry'.is = "helper"
  <2> DEFINE ra == ReturnAddress(tail)
  <2>1. /\ entry \in EntryRegisters /\ ra \in 0 .. MaxDepth
        /\ entry' = [entry EXCEPT !.ra = ra, !.is = "helper"]
    BY <1>1, <1>2 DEF TypeOK, CallHelper
  <2> HIDE DEF ra
  <2>2. /\ entry' \in EntryRegisters
        /\ entry'.t3 = entry.t3 /\ entry'.ra = ra /\ entry'.is = "helper"
    BY <2>1 DEF EntryRegisters
  <2> QED
    BY <1>1, <2>2 DEF ra
<1>4. TypeOK'
  BY <1>1, <1>2, <1>3 DEF TypeOK, CallHelper
<1>5. Control'
  <2>1. \A i \in 2 .. Len(acts') : acts'[i].ra \in {0, i - 1}
    BY <1>1, <1>2 DEF Control
  <2>2. Returning' \/ Helping'
    BY <1>2, <1>3 DEF Returning, Helping
  <2> QED
    BY <1>1, <1>2, <2>1, <2>2 DEF Control, CallHelper
<1>6. Waiting' = Waiting
  BY <1>2, <1>3 DEF Waiting, CallHelper
<1> QED
  BY <1>1, <1>4, <1>5, <1>6 DEF CallInv, FramesMatch, CallHelper

\* Control goes to an activation or back into dasics_umaincall.
LEMMA ReturnToFacts ==
    ASSUME TypeOK, NEW ra, ra = 0 \/ ra \in 1 .. MaxDepth, ~ entry.t3,
           ReturnTo(ra)
    PROVE  /\ entry' \in EntryRegisters /\ here' \in 1 .. MaxDepth
           /\ ~ entry'.t3
           /\ ra = 0 => mode' = "enter" /\ Returning'
           /\ ra # 0 => mode' = "run" /\ here' = ra
<1>1. entry \in EntryRegisters /\ here \in 1 .. MaxDepth
  BY DEF TypeOK
<1>2. CASE ra = 0
  <2>1. entry' = [entry EXCEPT !.ra = 0, !.is = "return"] /\ mode' = "enter"
        /\ here' = here
    BY <1>2 DEF ReturnTo, Umaincall
  <2>2. 0 \in 0 .. MaxDepth
    BY LimitsAssumption
  <2>3. /\ entry' \in EntryRegisters
        /\ entry'.t3 = entry.t3 /\ entry'.ra = 0 /\ entry'.is = "return"
    BY <1>1, <2>1, <2>2 DEF EntryRegisters
  <2> QED
    BY <1>1, <1>2, <2>1, <2>3 DEF Returning
<1>3. CASE ra # 0
  <2>1. entry' = Outer(entry.t3) /\ mode' = "run" /\ here' = ra
    BY <1>3 DEF ReturnTo, Umaincall
  <2>2. Outer(entry.t3) \in EntryRegisters /\ Outer(entry.t3).t3 = entry.t3
    BY <1>1, LibsAssumption, LimitsAssumption DEF Outer, EntryRegisters
  <2> QED
    BY <1>3, <2>1, <2>2
<1> QED
  BY <1>2, <1>3

LEMMA ReturnStep == ASSUME CallInv, Return PROVE CallInv'
<1> DEFINE n == Len(acts)
<1>1. TypeOK /\ Control /\ FramesMatch /\ n \in 2 .. MaxDepth /\ n \in Nat
      /\ here = n /\ mode = "run" /\ ~ entry.t3 /\ MaxDepth \in Nat
  BY LimitsAssumption, StackFacts DEF CallInv, Control, Return
<1>2. acts[n] \in Activation /\ acts # <<>> /\ acts[n].ra \in {0, n - 1}
  BY <1>1, StackFacts DEF Control
<1>3. /\ acts' \in Seq(Activation) /\ Len(acts') = n - 1
      /\ \A i \in 1 .. n - 1 : acts'[i] = acts[i]
  <2>1. acts' = Front(acts) /\ acts \in Seq(Activation)
    BY <1>1 DEF Return, TypeOK
  <2> QED
    BY <1>2, <2>1, FrontFacts, Zenon
<1>4. ReturnTo(acts[n].ra) /\ UNCHANGED <<lib, jump, cross>>
  BY <1>1 DEF Return
<1>5. /\ entry' \in EntryRegisters /\ here' \in 1 .. MaxDepth /\ ~ entry'.t3
      /\ acts[n].ra = 0 => mode' = "enter" /\ Returning'
      /\ acts[n].ra # 0 => mode' = "run" /\ here' = n - 1
  <2>1. acts[n].ra = 0 \/ acts[n].ra \in 1 .. MaxDepth
    BY <1>1, <1>2
  <2> QED
    BY <1>1, <1>2, <1>4, <2>1, ReturnToFacts
<1>6. TypeOK'
  BY <1>1, <1>3, <1>4, <1>5 DEF TypeOK
<1>7. Control'
  <2>1. \A i \in 2 .. Len(acts') : acts'[i].ra \in {0, i - 1}
    BY <1>1, <1>3 DEF Control
  <2> QED
    BY <1>1, <1>3, <1>5, <2>1 DEF Control
<1>8. Waiting' = Waiting
  BY <1>1, <1>2, <1>3, <1>5 DEF Waiting, Returning
<1> QED
  BY <1>1, <1>4, <1>6, <1>7, <1>8 DEF CallInv, FramesMatch

LEMMA HelperStep == ASSUME CallInv, HelperRuns PROVE CallInv'
<1> DEFINE n == Len(acts)
<1>1. TypeOK /\ Control /\ FramesMatch /\ n \in 1 .. MaxDepth /\ n \in Nat
      /\ mode = "enter" /\ ~ entry.t3 /\ entry.ra = n /\ MaxDepth \in Nat
  BY LimitsAssumption, StackFacts DEF CallInv, Control, HelperRuns,
     TakenForHelper, Umaincall, Calling, Returning, Helping
<1>2. /\ entry' \in EntryRegisters /\ here' \in 1 .. MaxDepth /\ ~ entry'.t3
      /\ mode' = "run" /\ here' = n
  BY <1>1, ReturnToFacts DEF HelperRuns
<1>3. TypeOK'
  BY <1>1, <1>2 DEF TypeOK, HelperRuns
<1>4. Control'
  BY <1>1, <1>2 DEF Control, HelperRuns
<1>5. Waiting' = Waiting
  BY <1>1, <1>2 DEF Waiting, HelperRuns
<1> QED
  BY <1>1, <1>3, <1>4, <1>5 DEF CallInv, FramesMatch, HelperRuns

-----------------------------------------------------------------------------
(***************************************************************************)
(* The three allocations of cross_call.                                    *)
(***************************************************************************)
Request == [perm : Cfg, lo : Addrs, hi : Addrs]

LEMMA RequestsTyped ==
    ASSUME NEW region \in [lo : Addrs, hi : Addrs]
    PROVE  ReadRequest(region) \in Request /\ WriteRequest(region) \in Request
  BY DEF ReadRequest, WriteRequest, Request, Cfg, Flags

LEMMA AllocStep ==
    ASSUME NEW st, LibType(st), NEW req \in Request,
           NEW w \in AllocResults(st, req)
    PROVE  /\ LibType(w) /\ w.next = st.next + 1
           /\ Live(w) = Live(st) \cup {st.next}
           /\ w.table[st.next] = RoundedEntry(req)
           /\ \A h \in Live(st) : w.table[h] = st.table[h]
           /\ RegsInv(st) /\ (st.next = 0 => st.map = InitialMap) => RegsInv(w)
<1>1. PICK v \in AllocVictims(st) : w = AllocIn(st, req, v)
  BY DEF AllocResults
<1>2. v \in Slots /\ req \in [perm : Cfg, lo : Addrs, hi : Addrs]
  BY DEF AllocVictims, Request
<1>3. /\ LibType(w) /\ w.next = st.next + 1
      /\ Live(w) = Live(st) \cup {st.next}
      /\ w.table[st.next] = RoundedEntry(req)
      /\ \A h \in Live(st) : w.table[h] = st.table[h]
  BY <1>1, <1>2, AllocInFields
<1>4. RegsInv(st) /\ (st.next = 0 => st.map = InitialMap) => RegsInv(w)
  BY <1>1, <1>2, AllocInInv
<1> QED
  BY <1>3, <1>4

\* Three new handles, each with its own entry, and nothing else changed.
LEMMA ThreeAllocs ==
    ASSUME NEW st, LibType(st), NEW r1 \in Request, NEW r2 \in Request,
           NEW r3 \in Request, NEW a \in AllocResults(st, r1),
           NEW b \in AllocResults(a, r2), NEW c \in AllocResults(b, r3)
    PROVE  /\ LibType(c) /\ c.next = st.next + 3
           /\ Live(c) = Live(st) \cup {st.next, st.next + 1, st.next + 2}
           /\ c.table[st.next] = RoundedEntry(r1)
           /\ c.table[st.next + 1] = RoundedEntry(r2)
           /\ c.table[st.next + 2] = RoundedEntry(r3)
           /\ \A h \in Live(st) : c.table[h] = st.table[h]
           /\ RegsInv(st) /\ (st.next = 0 => st.map = InitialMap) => RegsInv(c)
<1>1. st.next \in Nat
  BY DEF LibType
<1>2. /\ LibType(a) /\ a.next = st.next + 1
      /\ Live(a) = Live(st) \cup {st.next}
      /\ a.table[st.next] = RoundedEntry(r1)
      /\ \A h \in Live(st) : a.table[h] = st.table[h]
      /\ RegsInv(st) /\ (st.next = 0 => st.map = InitialMap) => RegsInv(a)
  BY AllocStep
<1>3. /\ LibType(b) /\ b.next = a.next + 1
      /\ Live(b) = Live(a) \cup {a.next}
      /\ b.table[a.next] = RoundedEntry(r2)
      /\ \A h \in Live(a) : b.table[h] = a.table[h]
      /\ RegsInv(a) /\ (a.next = 0 => a.map = InitialMap) => RegsInv(b)
  BY <1>2, AllocStep
<1>4. /\ LibType(c) /\ c.next = b.next + 1
      /\ Live(c) = Live(b) \cup {b.next}
      /\ c.table[b.next] = RoundedEntry(r3)
      /\ \A h \in Live(b) : c.table[h] = b.table[h]
      /\ RegsInv(b) /\ (b.next = 0 => b.map = InitialMap) => RegsInv(c)
  BY <1>3, AllocStep
<1>5. a.next # 0 /\ b.next # 0 /\ b.next = st.next + 2
      /\ c.next = st.next + 3
  BY <1>1, <1>2, <1>3, <1>4
<1>6. Live(c) = Live(st) \cup {st.next, st.next + 1, st.next + 2}
  BY <1>2, <1>3, <1>4, <1>5
<1>7. /\ c.table[st.next] = RoundedEntry(r1)
      /\ c.table[st.next + 1] = RoundedEntry(r2)
      /\ c.table[st.next + 2] = RoundedEntry(r3)
      /\ \A h \in Live(st) : c.table[h] = st.table[h]
  BY <1>2, <1>3, <1>4, <1>5
<1> QED
  BY <1>2, <1>3, <1>4, <1>5, <1>6, <1>7

\* What cross_call leaves behind: a frame with three new handles for the
\* callee's regions, and a jump register of its own or none.
CrossFrame(f) ==
    /\ f \in Frame
    /\ f.target = entry.to /\ f.ra = entry.ra
    /\ f.handles[1] = lib.next /\ f.handles[2] = lib.next + 1
    /\ f.handles[3] = lib.next + 2
    /\ f.reported = PushReports
    /\ f.jmp \in JumpResults(jump)
    /\ jump' = JumpAllocIn(jump, f.jmp, f.target)
    /\ cross' = Append(cross, f)
    /\ lib'.table[lib.next] =
          RoundedEntry(ReadRequest(ReadRegion[f.target]))
    /\ lib'.table[lib.next + 1] =
          RoundedEntry(WriteRequest(WriteRegion[f.target]))
    /\ \E stack \in StackRegions :
          lib'.table[lib.next + 2] = RoundedEntry(WriteRequest(stack))

LEMMA CrossIntoFacts ==
    ASSUME CallInv, CrossInto
    PROVE  /\ \E f \in Frame : CrossFrame(f)
           /\ LibType(lib') /\ lib'.next = lib.next + 3
           /\ Live(lib') = Live(lib) \cup {lib.next, lib.next + 1, lib.next + 2}
           /\ \A h \in Live(lib) : lib'.table[h] = lib.table[h]
           /\ RegsInv(lib) /\ (lib.next = 0 => lib.map = InitialMap) =>
                 RegsInv(lib')
<1>1. /\ LibType(lib) /\ lib.next \in Nat /\ lib.next + 3 <= MaxHandles
      /\ entry.to \in Libs \ MainLibs /\ entry.ra \in 0 .. MaxDepth
      /\ jump \in [valid : SUBSET JumpSlots,
                   range : [JumpSlots -> Libs \cup {NoRange}]]
  <2>1. TypeOK /\ Calling
    BY DEF CallInv, Control, CrossInto, TakenForCall, Returning, Helping
  <2> QED
    BY <2>1 DEF TypeOK, LibType, EntryRegisters, Calling, CrossInto
<1>2. /\ ReadRequest(ReadRegion[entry.to]) \in Request
      /\ WriteRequest(WriteRegion[entry.to]) \in Request
      /\ \A stack \in StackRegions : WriteRequest(stack) \in Request
  BY <1>1, RegionsAssumption, RequestsTyped
<1> DEFINE r1 == ReadRequest(ReadRegion[entry.to])
           r2 == WriteRequest(WriteRegion[entry.to])
<1>3. PICK read \in AllocResults(lib, r1) :
        \E write \in AllocResults(read, r2) : \E stack \in StackRegions :
            lib' \in AllocResults(write, WriteRequest(stack))
  BY DEF CrossInto
<1>4. PICK write \in AllocResults(read, r2) : \E stack \in StackRegions :
            lib' \in AllocResults(write, WriteRequest(stack))
  BY <1>3
<1>5. PICK stack \in StackRegions :
            lib' \in AllocResults(write, WriteRequest(stack))
  BY <1>4
<1>6. /\ LibType(lib') /\ lib'.next = lib.next + 3
      /\ Live(lib') = Live(lib) \cup {lib.next, lib.next + 1, lib.next + 2}
      /\ lib'.table[lib.next] = RoundedEntry(ReadRequest(ReadRegion[entry.to]))
      /\ lib'.table[lib.next + 1] =
            RoundedEntry(WriteRequest(WriteRegion[entry.to]))
      /\ lib'.table[lib.next + 2] = RoundedEntry(WriteRequest(stack))
      /\ \A h \in Live(lib) : lib'.table[h] = lib.table[h]
      /\ RegsInv(lib) /\ (lib.next = 0 => lib.map = InitialMap) => RegsInv(lib')
  BY <1>1, <1>2, <1>5, ThreeAllocs
<1>7. PICK j \in JumpResults(jump) :
         /\ jump' = JumpAllocIn(jump, j, entry.to)
         /\ cross' = Append(cross,
               [ target   |-> entry.to,
                 ra       |-> entry.ra,
                 jmp      |-> j,
                 handles  |-> <<lib.next, lib.next + 1, lib.next + 2>>,
                 reported |-> PushReports ])
  BY DEF CrossInto
<1> DEFINE f == [ target   |-> entry.to,
                  ra       |-> entry.ra,
                  jmp      |-> j,
                  handles  |-> <<lib.next, lib.next + 1, lib.next + 2>>,
                  reported |-> PushReports ]
<1>8. f \in Frame
  <2>1. j \in JumpSlots \cup {-1}
    BY <1>7 DEF JumpResults
  <2>2. <<lib.next, lib.next + 1, lib.next + 2>> \in [1 .. 3 -> 0 .. MaxHandles]
    BY <1>1, LimitsAssumption
  <2>3. PushReports \in BOOLEAN
    BY DEF PushReports
  <2> QED
    BY <1>1, <2>1, <2>2, <2>3 DEF Frame
<1>9. CrossFrame(f)
  BY <1>6, <1>7, <1>8 DEF CrossFrame
<1> QED
  BY <1>6, <1>8, <1>9

-----------------------------------------------------------------------------
\* The function called starts: its activation is the innermost one.
LEMMA ActivateFacts ==
    ASSUME CallInv, TakenForCall, NEW ra, ra \in {0, Len(acts)}, Activate(ra)
    PROVE  /\ acts' \in Seq(Activation) /\ Len(acts') = Len(acts) + 1
           /\ Len(acts') \in 1 .. MaxDepth
           /\ \A i \in 1 .. Len(acts) : acts'[i] = acts[i]
           /\ acts'[Len(acts) + 1].ra = ra
           /\ here' = Len(acts') /\ mode' = "run"
<1>1. TypeOK /\ Calling /\ Len(acts) \in Nat /\ MaxDepth \in Nat
  BY LimitsAssumption, StackFacts DEF CallInv, Control, TakenForCall, Returning,
     Helping
<1>2. [code |-> entry.to, ra |-> ra] \in Activation /\ acts \in Seq(Activation)
  BY <1>1 DEF TypeOK, EntryRegisters, Activation, Calling
<1>3. PICK act \in Activation : act = [code |-> entry.to, ra |-> ra]
  BY <1>2
<1>4. acts' = Append(acts, act)
  BY <1>3 DEF Activate
<1>5. /\ acts' \in Seq(Activation) /\ Len(acts') = Len(acts) + 1
      /\ \A i \in 1 .. Len(acts) : acts'[i] = acts[i]
      /\ acts'[Len(acts) + 1] = act
  <2>1. acts \in Seq(Activation) /\ acts' = Append(acts, act)
    BY <1>2, <1>4
  <2> QED
    BY <2>1, AppendFacts, SMT
<1> QED
  BY <1>1, <1>3, <1>5 DEF Calling, Activate

LEMMA OuterType == Outer(FALSE) \in EntryRegisters /\ ~ Outer(FALSE).t3
  BY LibsAssumption, LimitsAssumption DEF Outer, EntryRegisters

LEMMA ControlAfterCall ==
    ASSUME Control, Len(acts) \in Nat, NEW ra, ra \in {0, Len(acts)},
           Len(acts') = Len(acts) + 1, Len(acts') \in 1 .. MaxDepth,
           \A i \in 1 .. Len(acts) : acts'[i] = acts[i],
           acts'[Len(acts) + 1].ra = ra,
           here' = Len(acts'), mode' = "run", ~ entry'.t3
    PROVE  Control'
<1>1. ASSUME NEW i \in 2 .. Len(acts')
      PROVE  acts'[i].ra \in {0, i - 1}
  <2>1. CASE i \in 2 .. Len(acts)
    <3>1. i \in 1 .. Len(acts) /\ acts[i].ra \in {0, i - 1}
      BY <2>1 DEF Control
    <3> QED
      BY <3>1
  <2>2. CASE i = Len(acts) + 1
    BY <2>2
  <2> QED
    BY <2>1, <2>2
<1> QED
  BY <1>1 DEF Control

LEMMA DirectStep == ASSUME CallInv, MainCall \/ PlainCall PROVE CallInv'
<1> DEFINE n == Len(acts)
<1>1. TypeOK /\ Control /\ FramesMatch /\ Calling /\ n \in Nat /\ mode = "enter"
  BY StackFacts DEF CallInv, Control, MainCall, PlainCall, TakenForCall,
     Returning, Helping
<1>2. entry' = Outer(FALSE) /\ UNCHANGED <<lib, jump, cross>>
      /\ TakenForCall /\ Activate(entry.ra)
  BY DEF MainCall, PlainCall, T3AfterMain
<1>3. /\ acts' \in Seq(Activation) /\ Len(acts') = n + 1
      /\ Len(acts') \in 1 .. MaxDepth
      /\ \A i \in 1 .. n : acts'[i] = acts[i]
      /\ acts'[n + 1].ra = entry.ra
      /\ here' = n + 1 /\ mode' = "run"
  BY <1>1, <1>2, ActivateFacts DEF Calling
<1>4. TypeOK'
  BY <1>1, <1>2, <1>3, OuterType DEF TypeOK
<1>5. Control'
  BY <1>1, <1>2, <1>3, OuterType, ControlAfterCall DEF Calling
<1>6. Waiting' = Waiting
  BY <1>1, <1>3 DEF Waiting, Calling
<1> QED
  BY <1>1, <1>2, <1>4, <1>5, <1>6 DEF CallInv, FramesMatch

LEMMA CrossIntoStep == ASSUME CallInv, CrossInto PROVE CallInv'
<1> DEFINE n == Len(acts)
           m == Len(cross)
<1>1. /\ TypeOK /\ Control /\ FramesMatch /\ Calling
      /\ n \in Nat \ {0} /\ m \in Nat /\ mode = "enter"
  BY StackFacts DEF CallInv, Control, CrossInto, TakenForCall, Returning, Helping
<1>2. /\ acts' \in Seq(Activation) /\ Len(acts') = n + 1
      /\ Len(acts') \in 1 .. MaxDepth
      /\ \A i \in 1 .. n : acts'[i] = acts[i]
      /\ acts'[n + 1].ra = 0
      /\ here' = n + 1 /\ mode' = "run"
  BY ActivateFacts DEF CrossInto, Umaincall
<1>3. PICK f \in Frame : CrossFrame(f)
  BY CrossIntoFacts
<1>4. /\ cross' \in Seq(Frame) /\ Len(cross') = m + 1
      /\ \A i \in 1 .. m : cross'[i] = cross[i]
      /\ cross'[m + 1] = f
  <2>1. cross' = Append(cross, f) /\ cross \in Seq(Frame)
    BY <1>1, <1>3 DEF CrossFrame, TypeOK
  <2> QED
    BY <2>1, AppendFacts, Zenon
<1>5. f.ra = entry.ra /\ entry.ra \in {0, n} /\ entry' = Outer(FALSE)
  BY <1>1, <1>3 DEF CrossFrame, Calling, CrossInto
<1>6. jump' \in [valid : SUBSET JumpSlots,
                 range : [JumpSlots -> Libs \cup {NoRange}]]
  <2>1. jump' = JumpAllocIn(jump, f.jmp, f.target) /\ f.target \in Libs
    BY <1>3 DEF CrossFrame, Frame
  <2>2. jump \in [valid : SUBSET JumpSlots,
                  range : [JumpSlots -> Libs \cup {NoRange}]]
    BY <1>1 DEF TypeOK
  <2>3. CASE f.jmp \in JumpSlots
    <3>1. jump' = [ valid |-> jump.valid \cup {f.jmp},
                    range |-> [jump.range EXCEPT ![f.jmp] = f.target] ]
      BY <2>1, <2>3 DEF JumpAllocIn
    <3>2. jump.valid \cup {f.jmp} \in SUBSET JumpSlots
      BY <2>2, <2>3
    <3>3. [jump.range EXCEPT ![f.jmp] = f.target] \in
              [JumpSlots -> Libs \cup {NoRange}]
      BY <2>1, <2>2
    <3> QED
      BY <3>1, <3>2, <3>3
  <2>4. CASE f.jmp \notin JumpSlots
    BY <2>1, <2>2, <2>4 DEF JumpAllocIn
  <2> QED
    BY <2>3, <2>4
<1>7. TypeOK'
  BY <1>1, <1>2, <1>4, <1>5, <1>6, CrossIntoFacts, OuterType DEF TypeOK
<1>8. Control'
  BY <1>1, <1>2, <1>5, OuterType, ControlAfterCall
<1>9. Waiting' = Waiting \cup {n}
  BY <1>1, <1>2 DEF Waiting
<1>10. Resumes(cross') = Resumes(cross) \cup ({entry.ra} \ {0})
  BY <1>1, <1>4, <1>5 DEF Resumes
<1>11. entry.ra = 0 => n \in Waiting
  BY <1>1 DEF Waiting
<1>12. Increasing(cross')
  <2> SUFFICES ASSUME NEW k \in 1 .. m + 1, NEW l \in 1 .. m + 1, k < l,
                      cross'[k].ra # 0, cross'[l].ra # 0
               PROVE  cross'[k].ra < cross'[l].ra
    BY <1>4 DEF Increasing
  <2>1. k \in 1 .. m /\ cross'[k] = cross[k]
    BY <1>1, <1>4
  <2>2. CASE l \in 1 .. m
    BY <1>1, <1>4, <2>1, <2>2 DEF FramesMatch, Increasing
  <2>3. CASE l = m + 1
    <3>1. entry.ra = n /\ cross'[l].ra = n
      BY <1>4, <1>5, <2>3
    <3>2. cross[k].ra \in Waiting
      BY <1>1, <2>1 DEF FramesMatch, Resumes
    <3>3. cross[k].ra \in 1 .. n /\ cross[k].ra # n
      BY <1>1, <3>1, <3>2 DEF Waiting
    <3> QED
      BY <1>1, <2>1, <3>1, <3>3
  <2> QED
    BY <1>1, <2>2, <2>3
<1>13. FramesMatch'
  BY <1>1, <1>5, <1>9, <1>10, <1>11, <1>12 DEF FramesMatch
<1> QED
  BY <1>7, <1>8, <1>13 DEF CallInv

-----------------------------------------------------------------------------
LEMMA ReleasesTyped ==
    ASSUME NEW f \in Frame PROVE Releases(f) \in SUBSET Int
  BY LimitsAssumption DEF Frame, Releases, Range

\* Popping the innermost frame, which resumes ra, leaves those below it.
LEMMA PoppedFrames ==
    ASSUME TypeOK, Increasing(cross), cross # <<>>, cross' = Front(cross)
    PROVE  LET ra == cross[Len(cross)].ra
           IN  /\ cross' \in Seq(Frame) /\ Len(cross') = Len(cross) - 1
               /\ \A i \in 1 .. Len(cross) - 1 : cross'[i] = cross[i]
               /\ Increasing(cross')
               /\ Resumes(cross') = Resumes(cross) \ {ra}
<1> DEFINE m == Len(cross)
           ra == cross[m].ra
<1>1. cross \in Seq(Frame) /\ m \in Nat \ {0}
      /\ \A i \in 1 .. m : cross[i] \in Frame
  BY StackFacts DEF TypeOK
<1>2. /\ cross' \in Seq(Frame) /\ Len(cross') = m - 1
      /\ \A i \in 1 .. m - 1 : cross'[i] = cross[i]
  BY <1>1, FrontFacts, Zenon
<1>3. \A i \in 1 .. m : cross[i].ra \in Nat
  BY <1>1, LimitsAssumption DEF Frame
<1>4. Increasing(cross')
  BY <1>1, <1>2 DEF Increasing
<1>5. \A i \in 1 .. m - 1 : cross[i].ra # 0 => cross[i].ra # ra
  BY <1>1, <1>3 DEF Increasing
<1>6. Resumes(cross') = Resumes(cross) \ {ra}
  <2>1. Resumes(cross') = {cross[k].ra : k \in 1 .. m - 1} \ {0}
    BY <1>1, <1>2 DEF Resumes
  <2>2. {cross[k].ra : k \in 1 .. m} = {cross[k].ra : k \in 1 .. m - 1} \cup {ra}
    BY <1>1
  <2> QED
    BY <1>1, <1>5, <2>1, <2>2 DEF Resumes
<1> QED
  BY <1>2, <1>4, <1>6

\* pop_cross released what the innermost frame mentions.
LEMMA PopCrossFacts ==
    ASSUME CallInv, PopCross
    PROVE  LET f == cross[Len(cross)]
           IN  /\ f \in Frame /\ f.ra \in {0, Len(acts)} /\ ~ Fails(f)
               /\ cross # <<>> /\ cross' = Front(cross) /\ Returning
               /\ lib' = ReleaseIn(lib, Releases(f)) /\ LibType(lib')
               /\ jump' = IF f.jmp # 0 THEN JumpFreeIn(jump, f.jmp) ELSE jump
               /\ ReturnTo(f.ra) /\ acts' = acts
<1> DEFINE f == cross[Len(cross)]
<1>1. /\ cross # <<>> /\ Returning /\ f.ra \in {0, Len(acts)}
      /\ Last(cross) = f /\ Len(cross) \in 1 .. Len(cross)
  BY TopFrame DEF PopCross
<1>2. f \in Frame /\ LibType(lib)
  BY <1>1, StackFacts DEF CallInv, TypeOK
<1>3. /\ ~ Fails(f) /\ cross' = Front(cross) /\ ReturnTo(f.ra) /\ acts' = acts
      /\ lib' = ReleaseIn(lib, Releases(f))
      /\ jump' = IF f.jmp # 0 THEN JumpFreeIn(jump, f.jmp) ELSE jump
  BY <1>1 DEF PopCross
<1>4. LibType(lib')
  BY <1>2, <1>3, ReleasesTyped, ReleaseInFields
<1> QED
  BY <1>1, <1>2, <1>3, <1>4

LEMMA PopCrossStep == ASSUME CallInv, PopCross PROVE CallInv'
<1> DEFINE n == Len(acts)
           f == cross[Len(cross)]
<1>1. /\ TypeOK /\ Control /\ FramesMatch /\ mode = "enter"
      /\ n \in 1 .. MaxDepth /\ n \in Nat /\ MaxDepth \in Nat
  BY StackFacts, LimitsAssumption
  DEF CallInv, Control, PopCross, TakenForReturn
<1>2. /\ f \in Frame /\ f.ra \in {0, n} /\ cross # <<>>
      /\ cross' = Front(cross) /\ Returning /\ LibType(lib')
      /\ jump' = IF f.jmp # 0 THEN JumpFreeIn(jump, f.jmp) ELSE jump
      /\ ReturnTo(f.ra) /\ acts' = acts
  BY PopCrossFacts
<1>3. /\ cross' \in Seq(Frame) /\ Increasing(cross')
      /\ Resumes(cross') = Resumes(cross) \ {f.ra}
  BY <1>1, <1>2, PoppedFrames DEF FramesMatch
<1>4. /\ entry' \in EntryRegisters /\ here' \in 1 .. MaxDepth /\ ~ entry'.t3
      /\ f.ra = 0 => mode' = "enter" /\ Returning'
      /\ f.ra # 0 => mode' = "run" /\ here' = n
  BY <1>1, <1>2, ReturnToFacts DEF Returning
<1>5. jump' \in [valid : SUBSET JumpSlots,
                 range : [JumpSlots -> Libs \cup {NoRange}]]
  <2>1. jump \in [valid : SUBSET JumpSlots,
                  range : [JumpSlots -> Libs \cup {NoRange}]]
    BY <1>1 DEF TypeOK
  <2> QED
    BY <1>2, <2>1 DEF JumpFreeIn
<1>6. TypeOK'
  BY <1>1, <1>2, <1>3, <1>4, <1>5 DEF TypeOK
<1>7. Control'
  BY <1>1, <1>2, <1>4 DEF Control
<1>8. Waiting' = Waiting \ {f.ra}
  <2>1. CASE f.ra = 0
    BY <1>1, <1>2, <1>4, <2>1 DEF Waiting, Returning
  <2>2. CASE f.ra = n
    BY <1>1, <1>2, <1>4, <2>2 DEF Waiting
  <2> QED
    BY <1>2, <2>1, <2>2
<1>9. FramesMatch'
  BY <1>1, <1>3, <1>8 DEF FramesMatch
<1> QED
  BY <1>6, <1>7, <1>9 DEF CallInv

LEMMA PopStopsStep == ASSUME CallInv, PopAborts \/ PopCorrupt PROVE CallInv'
<1>1. /\ mode' \in {"aborted", "corrupt"}
      /\ UNCHANGED <<lib, jump, cross, acts, here, entry>>
  BY DEF PopAborts, PopCorrupt
<1> QED
  BY <1>1 DEF CallInv, TypeOK, Control, FramesMatch

\* A refill brings in a live entry that was in no register.
LEMMA RefillFacts ==
    ASSUME CallInv, Refill
    PROVE  /\ LibType(lib')
           /\ lib'.table = lib.table /\ lib'.next = lib.next /\ lib.next # 0
           /\ RegsInv(lib) => RegsInv(lib')
           /\ UNCHANGED <<jump, cross, acts, here, entry, mode>>
<1>1. PICK a \in Addrs, k \in Kinds :
         /\ ~ HwAllows(lib, a, k)
         /\ \E h \in FirstGrant(lib, a, k), v \in Slots :
               lib' = LoadIn(lib, h, v)
  BY DEF Refill
<1>2. PICK h \in FirstGrant(lib, a, k), v \in Slots : lib' = LoadIn(lib, h, v)
  BY <1>1
<1>3. h \in Live(lib) /\ LibType(lib) /\ lib.next # 0
  BY DEF FirstGrant, Grants, CallInv, TypeOK, LibType
<1>4. LibType(lib')
  BY <1>2, <1>3, LoadInType
<1>5. lib'.table = lib.table /\ lib'.next = lib.next
  <2>1. PICK e : lib' = WriteSlot(lib, v, h, e)
    BY <1>2 DEF LoadIn
  <2> QED
    BY <1>3, <2>1 DEF WriteSlot, LibType
<1>6. RegsInv(lib) => RegsInv(lib')
  <2> SUFFICES ASSUME RegsInv(lib) PROVE RegsInv(lib')
    OBVIOUS
  <2>1. "V" \in lib.table[h].priv /\ ~ Resident(lib, h)
    BY <1>1, FaultNotResident DEF RegsInv
  <2> QED
    BY <1>2, <1>3, <2>1, LoadInInv
<1> QED
  BY <1>3, <1>4, <1>5, <1>6 DEF Refill

LEMMA RefillStep == ASSUME CallInv, Refill PROVE CallInv'
<1>1. /\ LibType(lib') /\ lib'.next = lib.next
      /\ UNCHANGED <<jump, cross, acts, here, entry, mode>>
  BY RefillFacts
<1> QED
  BY <1>1 DEF CallInv, TypeOK, Control, FramesMatch, Waiting, Calling, Returning,
     Helping

LEMMA CallInvStep == CallInv /\ [Next]_vars => CallInv'
<1> SUFFICES ASSUME CallInv, [Next]_vars PROVE CallInv'
  OBVIOUS
<1>1. CASE \E target \in Libs, tail \in BOOLEAN : Call(target, tail)
  BY <1>1, CallStep
<1>2. CASE \E tail \in BOOLEAN : CallHelper(tail)
  BY <1>2, CallHelperStep
<1>3. CASE Return
  BY <1>3, ReturnStep
<1>4. CASE Entered
  BY <1>4, DirectStep, CrossIntoStep, HelperStep, PopCrossStep, PopStopsStep
  DEF Entered
<1>5. CASE Refill
  BY <1>5, RefillStep
<1>6. CASE UNCHANGED vars
  BY <1>6 DEF vars, CallInv, TypeOK, Control, FramesMatch, Waiting, Calling,
     Returning, Helping
<1> QED
  BY <1>1, <1>2, <1>3, <1>4, <1>5, <1>6 DEF Next

\* The calls, activations and entries of every behaviour fit together.
THEOREM CallsMatch == Spec => []CallInv
<1>1. Init => CallInv
  BY InitCallInv
<1>2. CallInv /\ [Next]_vars => CallInv'
  BY CallInvStep
<1> QED
  BY <1>1, <1>2, PTL DEF Spec

\* The state keeps its types: no step stores a value its variable cannot hold.
THEOREM TypeCorrect == Spec => []TypeOK
<1>1. CallInv => TypeOK
  BY DEF CallInv
<1> QED
  BY <1>1, CallsMatch, PTL

\* Every return lands in the innermost activation (cross.c pop_cross,
\* umaincall_entry.S).
THEOREM ReturnsFindCaller == Spec => []ReturnsToCaller
<1>1. CallInv => ReturnsToCaller
  BY DEF CallInv, Control, ReturnsToCaller
<1> QED
  BY <1>1, CallsMatch, PTL

\* dasics_umaincall takes calls for calls, returns for returns and calls of its
\* helper for those, but for a helper called with dasics_umaincall itself as the
\* return address, which it takes for a return (umaincall_entry.S).
THEOREM EntriesTold == Spec => []EntriesToldApart
<1>1. ASSUME CallInv PROVE EntriesToldApart
  <2> SUFFICES ASSUME mode = "enter"
               PROVE  /\ entry.is = "call" <=> TakenForCall
                      /\ entry.is = "return" => TakenForReturn
                      /\ entry.is = "helper" /\ entry.ra # Umaincall
                            <=> TakenForHelper
    BY DEF EntriesToldApart
  <2>1. Len(acts) # 0 /\ (Calling \/ Returning \/ Helping)
    BY <1>1 DEF CallInv, Control
  <2>2. CASE Calling
    BY <2>2 DEF Calling, TakenForCall, TakenForReturn, TakenForHelper
  <2>3. CASE Returning
    BY <2>3 DEF Returning, TakenForCall, TakenForReturn, TakenForHelper,
       Umaincall
  <2>4. CASE Helping
    BY <2>1, <2>4 DEF Helping, TakenForCall, TakenForReturn, TakenForHelper,
       Umaincall
  <2> QED
    BY <2>1, <2>2, <2>3, <2>4
<1>2. CallInv => EntriesToldApart
  BY <1>1
<1> QED
  BY <1>2, CallsMatch, PTL

-----------------------------------------------------------------------------
(***************************************************************************)
(* The second part: bounds, jump registers and the cross stack. Only the   *)
(* push and the pop of a cross call and a refill touch them.               *)
(***************************************************************************)
LEMMA StepKinds ==
    ASSUME [Next]_vars
    PROVE  CrossInto \/ PopCross \/ Refill \/ UNCHANGED <<lib, jump, cross>>
  BY DEF Next, vars, Call, CallHelper, Return, Entered, MainCall, PlainCall,
     HelperRuns, PopAborts, PopCorrupt

\* The handles of a frame are consecutive and come after those of the frames
\* below.
HandlesOrdered ==
    /\ \A i \in 1 .. Len(cross) :
          /\ cross[i].handles[2] = cross[i].handles[1] + 1
          /\ cross[i].handles[3] = cross[i].handles[1] + 2
          /\ cross[i].handles[3] < lib.next
    /\ \A i, j \in 1 .. Len(cross) :
          i < j => cross[i].handles[3] < cross[j].handles[1]

\* Bounds of the regions of f's callee are live, with the handles f keeps.
FrameGranted(f) ==
    /\ f.handles[1] \in Live(lib) /\ f.handles[2] \in Live(lib)
    /\ f.handles[3] \in Live(lib)
    /\ lib.table[f.handles[1]] = RoundedEntry(ReadRequest(ReadRegion[f.target]))
    /\ lib.table[f.handles[2]] =
          RoundedEntry(WriteRequest(WriteRegion[f.target]))
    /\ \E stack \in StackRegions :
          lib.table[f.handles[3]] = RoundedEntry(WriteRequest(stack))

FramesGranted == \A i \in 1 .. Len(cross) : FrameGranted(cross[i])

\* Live bounds are those of the frames, and bound 0.
OnlyPending ==
    \A h \in Live(lib) \ {0} : \E i \in 1 .. Len(cross) :
        \E k \in 1 .. 3 : h = cross[i].handles[k]

GrantInv ==
    /\ HandlesOrdered /\ FramesGranted /\ OnlyPending /\ RegsInv(lib)
    /\ lib.next = 0 => lib.map = InitialMap

LEMMA HandlesRange ==
    ASSUME NEW f \in Frame
    PROVE  /\ Range(f.handles) = {f.handles[1], f.handles[2], f.handles[3]}
           /\ f.handles[1] \in Nat /\ f.handles[2] \in Nat
           /\ f.handles[3] \in Nat
  BY LimitsAssumption DEF Frame, Range

LEMMA InitGrantInv == Init => GrantInv
<1> SUFFICES ASSUME Init PROVE GrantInv
  OBVIOUS
<1>1. Len(cross) = 0 /\ Live(lib) = {} /\ Valid(lib) = {}
      /\ lib.map = InitialMap
  BY DEF Init, Live, Valid
<1>2. RegsInv(lib)
  BY <1>1 DEF RegsInv, ValidBacked, ValidUnique, MapClean, ZeroFirst, InitialMap
<1> QED
  BY <1>1, <1>2 DEF GrantInv, HandlesOrdered, FramesGranted, OnlyPending

\* A new frame on the cross stack, above the others.
LEMMA PushedFrame ==
    ASSUME CallInv, NEW f \in Frame, cross' = Append(cross, f)
    PROVE  /\ Len(cross) \in Nat /\ Len(cross') = Len(cross) + 1
           /\ \A i \in 1 .. Len(cross) : cross'[i] = cross[i] /\ cross[i] \in Frame
           /\ cross'[Len(cross) + 1] = f
<1>1. cross \in Seq(Frame) /\ Len(cross) \in Nat
      /\ \A i \in 1 .. Len(cross) : cross[i] \in Frame
  BY StackFacts DEF CallInv, TypeOK
<1> QED
  BY <1>1, AppendFacts, SMT

LEMMA CrossIntoGrants == ASSUME CallInv, GrantInv, CrossInto PROVE GrantInv'
<1> DEFINE m == Len(cross)
           n == lib.next
<1>1. PICK f \in Frame : CrossFrame(f)
  BY CrossIntoFacts
<1>2. /\ m \in Nat /\ Len(cross') = m + 1
      /\ \A i \in 1 .. m : cross'[i] = cross[i] /\ cross[i] \in Frame
      /\ cross'[m + 1] = f
  BY <1>1, PushedFrame DEF CrossFrame
<1>3. /\ lib'.next = n + 3 /\ n \in Nat
      /\ Live(lib') = Live(lib) \cup {n, n + 1, n + 2}
      /\ \A h \in Live(lib) : lib'.table[h] = lib.table[h]
      /\ RegsInv(lib')
  BY CrossIntoFacts DEF GrantInv, CallInv, TypeOK, LibType
<1>4. f.handles[1] = n /\ f.handles[2] = n + 1 /\ f.handles[3] = n + 2
  BY <1>1 DEF CrossFrame
<1>5. \A i \in 1 .. m : /\ cross[i].handles[1] \in Nat
                        /\ cross[i].handles[3] \in Nat
                        /\ cross[i].handles[3] < n
                        /\ cross[i].handles[2] = cross[i].handles[1] + 1
                        /\ cross[i].handles[3] = cross[i].handles[1] + 2
  BY <1>2, HandlesRange DEF GrantInv, HandlesOrdered
<1>6. HandlesOrdered'
  <2>1. ASSUME NEW i \in 1 .. m + 1
        PROVE  /\ cross'[i].handles[2] = cross'[i].handles[1] + 1
               /\ cross'[i].handles[3] = cross'[i].handles[1] + 2
               /\ cross'[i].handles[3] < lib'.next
    <3>1. CASE i \in 1 .. m
      BY <1>2, <1>3, <1>5, <3>1
    <3>2. CASE i = m + 1
      BY <1>2, <1>3, <1>4, <3>2
    <3> QED
      BY <1>2, <3>1, <3>2
  <2>2. ASSUME NEW i \in 1 .. m + 1, NEW j \in 1 .. m + 1, i < j
        PROVE  cross'[i].handles[3] < cross'[j].handles[1]
    <3>1. i \in 1 .. m /\ cross'[i] = cross[i]
      BY <1>2, <2>2
    <3>2. CASE j \in 1 .. m
      BY <1>2, <2>2, <3>1, <3>2 DEF GrantInv, HandlesOrdered
    <3>3. CASE j = m + 1
      BY <1>2, <1>4, <1>5, <3>1, <3>3
    <3> QED
      BY <1>2, <3>2, <3>3
  <2> QED
    BY <1>2, <2>1, <2>2 DEF HandlesOrdered
<1>7. FramesGranted'
  <2> SUFFICES ASSUME NEW i \in 1 .. m + 1 PROVE FrameGranted(cross[i])'
    BY <1>2 DEF FramesGranted
  <2>1. CASE i \in 1 .. m
    <3>1. FrameGranted(cross[i]) /\ cross'[i] = cross[i]
      BY <1>2, <2>1 DEF GrantInv, FramesGranted
    <3> QED
      BY <1>3, <3>1 DEF FrameGranted
  <2>2. CASE i = m + 1
    BY <1>1, <1>2, <1>3, <1>4, <2>2 DEF FrameGranted, CrossFrame
  <2> QED
    BY <1>2, <2>1, <2>2
<1>8. OnlyPending'
  <2> SUFFICES ASSUME NEW h \in Live(lib') \ {0}
               PROVE  \E i \in 1 .. m + 1 : \E k \in 1 .. 3 :
                          h = cross'[i].handles[k]
    BY <1>2 DEF OnlyPending
  <2>1. CASE h \in Live(lib)
    <3>1. PICK i \in 1 .. m : \E k \in 1 .. 3 : h = cross[i].handles[k]
      BY <2>1 DEF GrantInv, OnlyPending
    <3>2. i \in 1 .. m + 1 /\ cross'[i] = cross[i]
      BY <1>2
    <3> QED
      BY <3>1, <3>2
  <2>2. CASE h \in {n, n + 1, n + 2}
    <3>1. m + 1 \in 1 .. m + 1 /\ \E k \in 1 .. 3 : h = f.handles[k]
      BY <1>2, <1>4, <2>2
    <3> QED
      BY <1>2, <3>1
  <2> QED
    BY <1>3, <2>1, <2>2
<1> QED
  BY <1>3, <1>6, <1>7, <1>8 DEF GrantInv

LEMMA PopCrossGrants == ASSUME CallInv, GrantInv, PopCross PROVE GrantInv'
<1> DEFINE m == Len(cross)
           f == cross[m]
<1>1. /\ f \in Frame /\ cross # <<>> /\ cross' = Front(cross)
      /\ lib' = ReleaseIn(lib, Releases(f)) /\ TypeOK /\ LibType(lib)
      /\ m \in Nat \ {0} /\ Increasing(cross)
      /\ \A i \in 1 .. m : cross[i] \in Frame
  BY PopCrossFacts, StackFacts
  DEF CallInv, TypeOK, FramesMatch, PopCross, TakenForReturn
<1>2. Len(cross') = m - 1 /\ \A i \in 1 .. m - 1 : cross'[i] = cross[i]
  BY <1>1, PoppedFrames
<1>3. Releases(f) = {f.handles[1], f.handles[2], f.handles[3]} \ {0}
      /\ Releases(f) \in SUBSET Int
  BY <1>1, HandlesRange, ReleasesTyped DEF Releases
<1>4. /\ lib'.next = lib.next
      /\ Live(lib') = Live(lib) \ Releases(f)
      /\ \A h \in Live(lib') : lib'.table[h] = lib.table[h]
  <2> DEFINE w == ReleaseIn(lib, Releases(f))
  <2>1. w.next = lib.next /\ Live(w) = Live(lib) \ Releases(f)
        /\ \A h \in Live(w) : w.table[h] = lib.table[h]
    BY <1>1, <1>3, ReleaseInFields, ZenonT(30)
  <2>2. lib' = w
    BY <1>1
  <2> HIDE DEF w
  <2> QED
    BY <2>1, <2>2
<1>5. RegsInv(lib')
  BY <1>1, <1>3, ReleaseInInv DEF GrantInv
<1>6. \A i \in 1 .. m : /\ cross[i].handles[1] \in Nat
                        /\ cross[i].handles[2] = cross[i].handles[1] + 1
                        /\ cross[i].handles[3] = cross[i].handles[1] + 2
                        /\ cross[i].handles[3] < lib.next
  BY <1>1, HandlesRange DEF GrantInv, HandlesOrdered
<1>7. HandlesOrdered'
  BY <1>1, <1>2, <1>4 DEF GrantInv, HandlesOrdered
<1>8. FramesGranted'
  <2> SUFFICES ASSUME NEW i \in 1 .. m - 1 PROVE FrameGranted(cross[i])'
    BY <1>2 DEF FramesGranted
  <2>1. FrameGranted(cross[i]) /\ cross'[i] = cross[i] /\ i \in 1 .. m
    BY <1>1, <1>2 DEF GrantInv, FramesGranted
  <2>2. cross[i].handles[3] < f.handles[1] /\ m \in 1 .. m
    BY <1>1 DEF GrantInv, HandlesOrdered
  <2>3. /\ cross[i].handles[1] \notin Releases(f)
        /\ cross[i].handles[2] \notin Releases(f)
        /\ cross[i].handles[3] \notin Releases(f)
    <3>1. /\ cross[i].handles[1] \in Nat
          /\ cross[i].handles[2] = cross[i].handles[1] + 1
          /\ cross[i].handles[3] = cross[i].handles[1] + 2
      BY <1>6, <2>1
    <3>2. /\ f.handles[1] \in Nat
          /\ f.handles[2] = f.handles[1] + 1
          /\ f.handles[3] = f.handles[1] + 2
      BY <1>6, <2>2
    <3> HIDE DEF f, m
    <3> QED
      BY <1>3, <2>2, <3>1, <3>2
  <2>4. /\ cross[i].handles[1] \in Live(lib')
        /\ cross[i].handles[2] \in Live(lib')
        /\ cross[i].handles[3] \in Live(lib')
    BY <1>4, <2>1, <2>3 DEF FrameGranted
  <2>5. /\ lib'.table[cross[i].handles[1]] = lib.table[cross[i].handles[1]]
        /\ lib'.table[cross[i].handles[2]] = lib.table[cross[i].handles[2]]
        /\ lib'.table[cross[i].handles[3]] = lib.table[cross[i].handles[3]]
    BY <1>4, <2>4
  <2> HIDE DEF m, f
  <2> QED
    BY <2>1, <2>4, <2>5 DEF FrameGranted
<1>9. OnlyPending'
  <2> SUFFICES ASSUME NEW h \in Live(lib') \ {0}
               PROVE  \E i \in 1 .. m - 1 : \E k \in 1 .. 3 :
                          h = cross'[i].handles[k]
    BY <1>2 DEF OnlyPending
  <2>1. PICK i \in 1 .. m : \E k \in 1 .. 3 : h = cross[i].handles[k]
    BY <1>4 DEF GrantInv, OnlyPending
  <2>2. \A k \in 1 .. 3 : h # f.handles[k]
    BY <1>3, <1>4
  <2>3. i \in 1 .. m - 1
    BY <1>1, <2>1, <2>2
  <2> QED
    BY <1>2, <2>1, <2>3
<1>10. lib.next # 0
  BY <1>1, <1>6 DEF LibType
<1> QED
  BY <1>4, <1>5, <1>7, <1>8, <1>9, <1>10 DEF GrantInv

LEMMA GrantInvStep ==
    ASSUME CallInv, GrantInv, [Next]_vars PROVE GrantInv'
<1>1. CASE CrossInto
  BY <1>1, CrossIntoGrants
<1>2. CASE PopCross
  BY <1>2, PopCrossGrants
<1>3. CASE Refill
  <2>1. lib'.table = lib.table /\ lib'.next = lib.next /\ lib.next # 0
        /\ RegsInv(lib') /\ cross' = cross
    BY <1>3, RefillFacts DEF GrantInv
  <2> QED
    BY <2>1 DEF GrantInv, HandlesOrdered, FramesGranted, FrameGranted,
       OnlyPending, Live
<1>4. CASE UNCHANGED <<lib, jump, cross>>
  BY <1>4 DEF GrantInv, HandlesOrdered, FramesGranted, FrameGranted,
     OnlyPending, Live, RegsInv, ValidBacked, ValidUnique, MapClean, ZeroFirst,
     Valid, Held, Unused, Resident
<1> QED
  BY <1>1, <1>2, <1>3, <1>4, StepKinds

\* Bounds follow the calls in every behaviour.
THEOREM GrantsFollowCalls == Spec => [](CallInv /\ GrantInv)
<1>1. Init => CallInv /\ GrantInv
  BY InitCallInv, InitGrantInv
<1>2. CallInv /\ GrantInv /\ [Next]_vars => (CallInv /\ GrantInv)'
  BY CallInvStep, GrantInvStep
<1> QED
  BY <1>1, <1>2, PTL DEF Spec

\* Until its call returns, the callee has live bounds for exactly its regions
\* (cross.c cross_call, pop_cross).
THEOREM CalleesGranted == Spec => []CalleeGranted
<1>1. ASSUME CallInv, GrantInv PROVE CalleeGranted
  <2> SUFFICES ASSUME NEW i \in DOMAIN cross
               PROVE  LET f == cross[i]
                          granted(n) == lib.table[f.handles[n]]
                      IN  /\ Range(f.handles) \subseteq Live(lib)
                          /\ granted(1) =
                                RoundedEntry(ReadRequest(ReadRegion[f.target]))
                          /\ granted(2) =
                                RoundedEntry(WriteRequest(WriteRegion[f.target]))
                          /\ \E stack \in StackRegions :
                                granted(3) = RoundedEntry(WriteRequest(stack))
    BY DEF CalleeGranted
  <2>1. i \in 1 .. Len(cross) /\ cross[i] \in Frame
    BY <1>1, StackFacts DEF CallInv
  <2>2. FrameGranted(cross[i])
    BY <1>1, <2>1 DEF GrantInv, FramesGranted
  <2> QED
    BY <2>1, <2>2, HandlesRange DEF FrameGranted
<1>2. CallInv /\ GrantInv => CalleeGranted
  BY <1>1
<1> QED
  BY <1>2, GrantsFollowCalls, PTL

\* Bounds of calls that returned are gone from the table and the registers
\* (cross.c pop_cross with dasics_libcfg_free).
THEOREM ReturnsRevoke == Spec => []ReturnRevokes
<1>1. ASSUME CallInv, GrantInv PROVE ReturnRevokes
  <2> DEFINE pending == UNION {Range(cross[i].handles) : i \in DOMAIN cross}
  <2>1. \A i \in 1 .. Len(cross) : i \in DOMAIN cross /\ cross[i] \in Frame
    BY <1>1, StackFacts DEF CallInv
  <2>2. ASSUME NEW h \in Live(lib) \ {0} PROVE h \in pending
    <3>1. PICK i \in 1 .. Len(cross) : \E k \in 1 .. 3 : h = cross[i].handles[k]
      BY <1>1 DEF GrantInv, OnlyPending
    <3>2. \/ h = cross[i].handles[1] \/ h = cross[i].handles[2]
          \/ h = cross[i].handles[3]
      BY <3>1
    <3>3. h \in Range(cross[i].handles)
      BY <2>1, <3>2, HandlesRange
    <3> QED
      BY <2>1, <3>3
  <2>3. ASSUME NEW s \in Valid(lib) PROVE lib.map[s] \in pending \cup {0}
    <3>1. lib.map[s] \in Live(lib)
      BY <1>1 DEF GrantInv, RegsInv, ValidBacked
    <3> QED
      BY <2>2, <3>1
  <2> QED
    BY <2>2, <2>3 DEF ReturnRevokes
<1>2. CallInv /\ GrantInv => ReturnRevokes
  BY <1>1
<1> QED
  BY <1>2, GrantsFollowCalls, PTL

-----------------------------------------------------------------------------
(***************************************************************************)
(* Jump registers: a frame holds the one it was given until it is popped.  *)
(***************************************************************************)
JumpsHeld ==
    /\ \A i \in 1 .. Len(cross) : cross[i].jmp \in JumpSlots =>
          /\ cross[i].jmp \in jump.valid
          /\ jump.range[cross[i].jmp] = cross[i].target
          /\ \A k \in 1 .. Len(cross) : cross[k].jmp = cross[i].jmp => k = i
    /\ \A s \in jump.valid \ {0} :
          \E i \in 1 .. Len(cross) : cross[i].jmp = s

LEMMA CrossIntoJumps == ASSUME CallInv, JumpsHeld, CrossInto PROVE JumpsHeld'
<1> DEFINE m == Len(cross)
<1>1. PICK f \in Frame : CrossFrame(f)
  BY CrossIntoFacts
<1>2. /\ m \in Nat /\ Len(cross') = m + 1
      /\ \A i \in 1 .. m : cross'[i] = cross[i]
      /\ cross'[m + 1] = f
  BY <1>1, PushedFrame DEF CrossFrame
<1>3. /\ jump.valid \in SUBSET JumpSlots
      /\ jump.range \in [JumpSlots -> Libs \cup {NoRange}]
      /\ f.jmp \in JumpSlots => f.jmp \notin jump.valid
      /\ f.target \in Libs
  BY <1>1 DEF CallInv, TypeOK, CrossFrame, JumpResults, Frame, JumpSlots
<1>4. /\ jump'.valid = jump.valid \cup ({f.jmp} \cap JumpSlots)
      /\ f.jmp \in JumpSlots => jump'.range[f.jmp] = f.target
      /\ \A s \in JumpSlots \ {f.jmp} : jump'.range[s] = jump.range[s]
  BY <1>1, <1>3 DEF CrossFrame, JumpAllocIn
<1>5. \A k \in 1 .. m : cross[k].jmp \in JumpSlots => cross[k].jmp # f.jmp
  BY <1>3 DEF JumpsHeld
<1>6. ASSUME NEW i \in 1 .. m + 1, cross'[i].jmp \in JumpSlots
      PROVE  /\ cross'[i].jmp \in jump'.valid
             /\ jump'.range[cross'[i].jmp] = cross'[i].target
             /\ \A k \in 1 .. m + 1 : cross'[k].jmp = cross'[i].jmp => k = i
  <2>1. CASE i \in 1 .. m
    <3>1. cross'[i] = cross[i] /\ cross[i].jmp # f.jmp
      BY <1>2, <1>5, <1>6, <2>1
    <3>2. /\ cross[i].jmp \in jump.valid
          /\ jump.range[cross[i].jmp] = cross[i].target
          /\ \A k \in 1 .. m : cross[k].jmp = cross[i].jmp => k = i
      BY <1>6, <2>1, <3>1 DEF JumpsHeld
    <3>3. \A k \in 1 .. m + 1 : k \in 1 .. m \/ k = m + 1
      BY <1>2
    <3> QED
      BY <1>2, <1>3, <1>4, <3>1, <3>2, <3>3
  <2>2. CASE i = m + 1
    <3>1. \A k \in 1 .. m + 1 : k \in 1 .. m \/ k = m + 1
      BY <1>2
    <3> QED
      BY <1>2, <1>4, <1>5, <1>6, <2>2, <3>1
  <2> QED
    BY <1>2, <2>1, <2>2
<1>7. ASSUME NEW s \in jump'.valid \ {0}
      PROVE  \E i \in 1 .. m + 1 : cross'[i].jmp = s
  <2>1. CASE s = f.jmp
    BY <1>2, <2>1
  <2>2. CASE s \in jump.valid
    <3>1. PICK i \in 1 .. m : cross[i].jmp = s
      BY <1>7, <2>2 DEF JumpsHeld
    <3>2. i \in 1 .. m + 1 /\ cross'[i] = cross[i]
      BY <1>2
    <3> QED
      BY <3>1, <3>2
  <2> QED
    BY <1>4, <1>7, <2>1, <2>2
<1> QED
  BY <1>2, <1>6, <1>7 DEF JumpsHeld

LEMMA PopCrossJumps == ASSUME CallInv, JumpsHeld, PopCross PROVE JumpsHeld'
<1> DEFINE m == Len(cross)
           f == cross[m]
<1>1. /\ f \in Frame /\ cross # <<>> /\ cross' = Front(cross) /\ f.jmp # -1
      /\ jump' = IF f.jmp # 0 THEN JumpFreeIn(jump, f.jmp) ELSE jump
      /\ TypeOK /\ m \in Nat \ {0} /\ Increasing(cross)
  BY PopCrossFacts, StackFacts
  DEF CallInv, FramesMatch, PopCross, TakenForReturn, Fails, JumpFails
<1>2. Len(cross') = m - 1 /\ \A i \in 1 .. m - 1 : cross'[i] = cross[i]
  BY <1>1, PoppedFrames
<1>3. f.jmp \in JumpSlots /\ jump.valid \in SUBSET JumpSlots
  BY <1>1 DEF Frame, TypeOK
<1>4. /\ jump'.valid = jump.valid \ ({f.jmp} \ {0})
      /\ jump'.range = jump.range
  BY <1>1, <1>3 DEF JumpFreeIn, TypeOK
<1> HIDE DEF f
<1>5. \A i \in 1 .. m - 1 : i \in 1 .. m /\ cross[i].jmp # f.jmp
  BY <1>1, <1>3 DEF JumpsHeld, f
<1>6. ASSUME NEW i \in 1 .. m - 1, cross'[i].jmp \in JumpSlots
      PROVE  /\ cross'[i].jmp \in jump'.valid
             /\ jump'.range[cross'[i].jmp] = cross'[i].target
             /\ \A k \in 1 .. m - 1 : cross'[k].jmp = cross'[i].jmp => k = i
  BY <1>2, <1>4, <1>5, <1>6 DEF JumpsHeld
<1>7. ASSUME NEW s \in jump'.valid \ {0}
      PROVE  \E i \in 1 .. m - 1 : cross'[i].jmp = s
  <2>1. PICK i \in 1 .. m : cross[i].jmp = s
    BY <1>4, <1>7 DEF JumpsHeld
  <2>2. i # m
    BY <1>4, <1>7, <2>1 DEF f
  <2> QED
    BY <1>1, <1>2, <2>1, <2>2
<1> QED
  BY <1>2, <1>6, <1>7 DEF JumpsHeld

\* The jump register of a pending call is its own and opens its target; every
\* other but register 0 is closed (dasics_jumpcfg_alloc and _free).
THEOREM JumpsFollowCalls == Spec => []JumpsMatchCalls
<1>1. Init => CallInv /\ JumpsHeld
  <2>1. Init => Len(cross) = 0 /\ jump.valid = {}
    BY DEF Init
  <2> QED
    BY <2>1, InitCallInv DEF JumpsHeld
<1>2. CallInv /\ JumpsHeld /\ [Next]_vars => (CallInv /\ JumpsHeld)'
  <2> SUFFICES ASSUME CallInv, JumpsHeld, [Next]_vars PROVE JumpsHeld'
    BY CallInvStep
  <2>1. CASE UNCHANGED <<jump, cross>>
    BY <2>1 DEF JumpsHeld
  <2> QED
    BY <2>1, StepKinds, CrossIntoJumps, PopCrossJumps, RefillFacts
<1>3. ASSUME CallInv, JumpsHeld PROVE JumpsMatchCalls
  <2>1. DOMAIN cross = 1 .. Len(cross)
    BY <1>3, StackFacts DEF CallInv
  <2> QED
    BY <1>3, <2>1 DEF JumpsMatchCalls, JumpsHeld
<1>4. CallInv /\ JumpsHeld => JumpsMatchCalls
  BY <1>3
<1> QED
  BY <1>1, <1>2, <1>4, PTL DEF Spec

-----------------------------------------------------------------------------
(***************************************************************************)
(* The cross stack: what a frame reported depends on its depth only.       *)
(***************************************************************************)
Reported ==
    \A i \in 1 .. Len(cross) :
        cross[i].reported <=> FrameBytes > BytesLeft(i - 1) % WordSpace

LEMMA ModBelow ==
    ASSUME NEW x \in Nat, NEW w \in Nat \ {0}
    PROVE  x % w <= x
  OBVIOUS

LEMMA StackSizeFacts ==
    ASSUME NEW d \in Nat
    PROVE  /\ BytesLeft(d) \in Int /\ BytesLeft(0) >= 0
           /\ BytesLeft(d + 1) = BytesLeft(d) - FrameBytes
           /\ d <= CrossDepth => BytesLeft(d) >= 0
<1>1. /\ FrameBytes \in Nat /\ HandleBytes \in Nat /\ CrossDepth \in Nat
  BY StackAssumption
<1>2. FrameBytes * d \in Nat /\ HandleBytes * CrossDepth \in Nat
      /\ FrameBytes * CrossDepth \in Nat
  BY <1>1
<1>3. StackSize = FrameBytes * CrossDepth + HandleBytes * CrossDepth
  BY <1>1 DEF StackSize
<1>4. FrameBytes * (d + 1) = FrameBytes * d + FrameBytes
  BY <1>1
<1>5. d <= CrossDepth => FrameBytes * d <= FrameBytes * CrossDepth
  BY <1>1
<1>6. FrameBytes * 0 = 0
  BY <1>1
<1> QED
  BY <1>1, <1>2, <1>3, <1>4, <1>5, <1>6 DEF BytesLeft

\* MAX_DEPTH cross calls fit, and the frame that crosses the base of the stack
\* is reported (cross.c push_cross).
THEOREM StackReported == Spec => []StackSound
<1>1. Init => CallInv /\ Reported
  <2>1. Init => Len(cross) = 0
    BY DEF Init
  <2> QED
    BY <2>1, InitCallInv DEF Reported
<1>2. CallInv /\ Reported /\ [Next]_vars => (CallInv /\ Reported)'
  <2> SUFFICES ASSUME CallInv, Reported, [Next]_vars PROVE Reported'
    BY CallInvStep
  <2>1. CASE CrossInto
    <3>1. PICK f \in Frame : CrossFrame(f)
      BY <2>1, CrossIntoFacts
    <3>2. /\ Len(cross) \in Nat /\ Len(cross') = Len(cross) + 1
          /\ \A i \in 1 .. Len(cross) : cross'[i] = cross[i]
          /\ cross'[Len(cross) + 1] = f
      BY <3>1, PushedFrame DEF CrossFrame
    <3>3. f.reported <=> FrameBytes > BytesLeft(Len(cross)) % WordSpace
      BY <3>1 DEF CrossFrame, PushReports
    <3> SUFFICES ASSUME NEW i \in 1 .. Len(cross) + 1
                 PROVE  cross'[i].reported
                           <=> FrameBytes > BytesLeft(i - 1) % WordSpace
      BY <3>2 DEF Reported, BytesLeft, StackSize
    <3>4. CASE i \in 1 .. Len(cross)
      BY <3>2, <3>4 DEF Reported
    <3>5. CASE i = Len(cross) + 1
      <4>1. i - 1 = Len(cross)
        BY <3>2, <3>5
      <4> QED
        BY <3>2, <3>3, <3>5, <4>1
    <3> QED
      BY <3>2, <3>4, <3>5
  <2>2. CASE PopCross
    <3>1. /\ cross # <<>> /\ cross' = Front(cross) /\ TypeOK
          /\ Increasing(cross) /\ Len(cross) \in Nat
      BY <2>2, PopCrossFacts, StackFacts
      DEF CallInv, FramesMatch, PopCross, TakenForReturn
    <3>2. /\ Len(cross') = Len(cross) - 1
          /\ \A i \in 1 .. Len(cross) - 1 : cross'[i] = cross[i]
      BY <3>1, PoppedFrames
    <3> QED
      BY <3>1, <3>2 DEF Reported, BytesLeft, StackSize
  <2>3. CASE UNCHANGED cross
    BY <2>3 DEF Reported, BytesLeft, StackSize
  <2> QED
    BY <2>1, <2>2, <2>3, StepKinds, RefillFacts
<1>3. ASSUME CallInv, Reported PROVE StackSound
  <2> SUFFICES ASSUME NEW i \in 1 .. Len(cross), Outside(i)
               PROVE  /\ i > CrossDepth
                      /\ \E j \in 1 .. i : Outside(j) /\ cross[j].reported
    BY <1>3, StackFacts DEF CallInv, StackSound
  <2>1. Len(cross) \in Nat /\ i \in Nat
    BY <1>3, StackFacts DEF CallInv
  <2>2. i > CrossDepth
    BY <2>1, StackSizeFacts, StackAssumption DEF Outside
  <2> DEFINE past == {d \in Nat : Outside(d)}
  <2>3. PICK j \in past : \A d \in past : j <= d
    <3>1. past \in SUBSET Nat /\ i \in past
      BY <2>1
    <3> HIDE DEF past
    <3> QED
      BY <3>1, NatMin
  <2>4. j \in Nat \ {0} /\ j <= i /\ Outside(j)
    BY <2>1, <2>3, StackSizeFacts DEF Outside
  <2>5. j - 1 \in Nat /\ j \in 1 .. Len(cross) /\ j \in 1 .. i
    BY <2>1, <2>4
  <2>6. ~ Outside(j - 1)
    BY <2>3, <2>4, <2>5
  <2>7. /\ BytesLeft(j - 1) \in Int /\ BytesLeft(j - 1) >= 0
        /\ BytesLeft(j) = BytesLeft(j - 1) - FrameBytes
    <3>1. BytesLeft((j - 1) + 1) = BytesLeft(j - 1) - FrameBytes
      BY <2>5, StackSizeFacts
    <3>2. (j - 1) + 1 = j
      BY <2>4
    <3>3. BytesLeft(j - 1) \in Int
      BY <2>5, StackSizeFacts
    <3> QED
      BY <2>6, <3>1, <3>2, <3>3 DEF Outside
  <2>8. BytesLeft(j - 1) < FrameBytes /\ BytesLeft(j - 1) \in Nat
    BY <2>4, <2>7, StackAssumption DEF Outside
  <2>9. BytesLeft(j - 1) % WordSpace <= BytesLeft(j - 1)
        /\ BytesLeft(j - 1) % WordSpace \in Int
    BY <2>8, ModBelow, StackAssumption
  <2>10. FrameBytes > BytesLeft(j - 1) % WordSpace
    BY <2>8, <2>9, StackAssumption
  <2> QED
    BY <1>3, <2>2, <2>4, <2>5, <2>10 DEF Reported
<1>4. CallInv /\ Reported => StackSound
  BY <1>3
<1> QED
  BY <1>1, <1>2, <1>4, PTL DEF Spec

=============================================================================
