-------------------------- MODULE LibBoundsProofs --------------------------
(***************************************************************************)
(* Theorems about LibBounds for any number of registers, handles, requests *)
(* and addresses.                                                          *)
(***************************************************************************)
EXTENDS LibBounds, BoundRegsProofs

\* The type of the arguments the lemmas of BoundRegsProofs take.
LEMMA RequestType ==
    ASSUME NEW req \in Requests
    PROVE  req \in [perm : Cfg, lo : Addrs, hi : Addrs]
  BY RequestsAssumption

LEMMA MappedHandlesType ==
    ASSUME LibType(lib)
    PROVE  MappedHandles(lib) \in SUBSET Int
  BY DEF MappedHandles, LibType

LEMMA VictimsAreSlots ==
    ASSUME NEW st
    PROVE  AllocVictims(st) \subseteq Slots
  BY DEF AllocVictims

LEMMA InitialLibType == LibType(InitialLib)
<1> DEFINE w == InitialLib
<1>1. w.table = [h \in {} |-> 0] /\ Live(w) = {}
  BY DEF InitialLib, Live
<1>2. w.cfg \in [Slots -> Cfg] /\ w.bound \in [Slots -> Bound]
  BY OSEntriesAssumption DEF InitialLib, Entry, Bound, Cfg, Flags
<1>3. w.map \in [Slots -> Int]
  BY DEF InitialLib, InitialMap
<1>4. w.next \in Nat /\ DOMAIN w = {"table", "next", "cfg", "bound", "map"}
  BY DEF InitialLib
<1>5. w.table = Restrict(w.table, Live(w))
  BY <1>1 DEF Restrict, Live
<1> QED
  BY <1>1, <1>2, <1>3, <1>4, <1>5 DEF LibType

-----------------------------------------------------------------------------
LEMMA InitType == Init => TypeOK
<1> SUFFICES ASSUME Init PROVE TypeOK
  OBVIOUS
<1>1. NoAccess \in [addr : Addrs, kind : Kinds, outcome : Outcomes]
  <2>1. 0 \in Addrs
    BY AddrSpaceAssumption DEF Addrs
  <2> QED
    BY <2>1 DEF NoAccess, Kinds, Outcomes
<1>2. access \in [addr : Addrs, kind : Kinds, outcome : Outcomes]
  BY <1>1 DEF Init
<1>3. LibType(lib)
  BY InitialLibType DEF Init
<1>4. registered \in BOOLEAN
  BY Zenon DEF Init
<1>5. retval \in Int
  BY DEF Init
<1> QED
  BY <1>2, <1>3, <1>4, <1>5 DEF TypeOK

LEMMA TypeStep == TypeOK /\ [Next]_vars => TypeOK'
<1> SUFFICES ASSUME TypeOK, [Next]_vars PROVE TypeOK'
  OBVIOUS
<1> USE DEF TypeOK
<1>1. CASE Register
  <2>1. LibType(AdoptIn(lib))
    BY AdoptInFields
  <2> QED
    BY <1>1, <2>1 DEF Register
<1>2. CASE Unregister
  <2>1. LibType(ForgetIn(lib))
    BY ForgetInFields
  <2> QED
    BY <1>2, <2>1 DEF Unregister
<1>3. ASSUME NEW req \in Requests, Alloc(req) PROVE TypeOK'
  <2>1. PICK v \in AllocVictims(lib) : lib' = AllocIn(lib, req, v)
    BY <1>3 DEF Alloc
  <2>2. LibType(lib')
    BY <2>1, AllocInFields, RequestType, VictimsAreSlots
  <2> QED
    BY <1>3, <2>2 DEF Alloc, LibType
<1>4. ASSUME NEW h \in HandleArgs, Free(h) PROVE TypeOK'
  <2>1. LibType(ReleaseIn(lib, {h}))
    BY ReleaseInFields, HandleArgsAssumption
  <2> QED
    BY <1>4, <2>1 DEF Free
<1>5. ASSUME NEW h \in HandleArgs, Get(h) PROVE TypeOK'
  BY <1>5 DEF Get, CfgBits
<1>6. CASE FreeAll
  <2>1. LibType(ReleaseIn(lib, MappedHandles(lib)))
    BY ReleaseInFields, MappedHandlesType
  <2> QED
    BY <1>6, <2>1 DEF FreeAll
<1>7. ASSUME NEW a \in Addrs, NEW k \in Kinds, Issue(a, k) PROVE TypeOK'
  BY <1>7 DEF Issue, Outcomes
<1>8. CASE HwPerform
  BY <1>8 DEF HwPerform, Outcomes
<1>9. CASE Refill
  <2>1. PICK h \in FirstGrant(lib, access.addr, access.kind), v \in Slots :
          lib' = LoadIn(lib, h, v)
    BY <1>9 DEF Refill
  <2>2. LibType(lib')
    BY <2>1, LoadInType DEF FirstGrant, Grants
  <2> QED
    BY <1>9, <2>2 DEF Refill
<1>10. CASE Skip
  BY <1>10 DEF Skip, Outcomes
<1>11. CASE UNCHANGED vars
  BY <1>11 DEF vars
<1> QED
  BY <1>1, <1>2, <1>3, <1>4, <1>5, <1>6, <1>7, <1>8, <1>9, <1>10, <1>11
     DEF Next, Resolve

\* Whatever trusted and untrusted code do, the registers, the table and the
\* map stay well formed: every handle in the table was given out and is below
\* the counter of dasics_libcfg_alloc. No assumption on the kernel's registers.
THEOREM TypeCorrect == Spec => []TypeOK
<1>1. Init => TypeOK
  BY InitType
<1>2. TypeOK /\ [Next]_vars => TypeOK'
  BY TypeStep
<1> QED
  BY <1>1, <1>2, PTL DEF Spec

-----------------------------------------------------------------------------
\* The inductive invariant: what the registers, the table and the map have to
\* do with one another between two calls.
THEOREM InvariantHolds == ASSUME OSLow PROVE Spec => []IInv
<1>1. Init => IInv
  <2> SUFFICES ASSUME Init PROVE IInv
    OBVIOUS
  <2>1. TypeOK
    BY InitType
  <2>2. lib.map = InitialMap /\ Live(lib) = {} /\ ~ registered
    BY DEF Init, InitialLib, Live
  <2>3. Valid(lib) = DOMAIN OSEntries
    BY OSEntriesAssumption DEF Init, InitialLib, Valid
  <2>4. MapClean(lib)
    BY <2>2 DEF MapClean, InitialMap
  <2>5. ~ Pending
    BY DEF Init, Pending, NoAccess
  <2> QED
    BY <2>1, <2>2, <2>3, <2>4, <2>5 DEF IInv
<1>2. IInv /\ [Next]_vars => IInv'
  <2> SUFFICES ASSUME IInv, [Next]_vars PROVE IInv'
    OBVIOUS
  <2>1. TypeOK /\ LibType(lib) /\ TypeOK'
    BY TypeStep DEF IInv, TypeOK
  <2>2. CASE Register
    <3>1. RegsInv(lib')
      <4>1. RegsInv(AdoptIn(lib))
        BY <2>1, <2>2, AdoptInInv DEF Register, IInv, OSLow
      <4> QED
        BY <2>2, <4>1 DEF Register
    <3>2. lib'.next = lib.next + Cardinality(Valid(lib)) /\ Valid(lib') = Valid(lib)
          /\ \A s \in Slots \ Valid(lib) : lib'.map[s] = lib.map[s]
      BY <2>1, <2>2, AdoptInFields DEF Register
    <3>3. ASSUME lib'.next = 0
          PROVE  lib'.map = InitialMap /\ Valid(lib') = DOMAIN OSEntries
      <4>1. Cardinality(Valid(lib)) \in Nat /\ lib.next \in Nat
        BY <2>1, RankFacts DEF LibType
      <4>2. lib.next = 0 /\ Cardinality(Valid(lib)) = 0
        BY <3>2, <3>3, <4>1
      <4>3. Valid(lib) = {}
        <5>1. IsFiniteSet(Valid(lib))
          BY SlotsFacts, FS_Subset DEF Valid
        <5> QED
          BY <4>2, <5>1, FS_EmptySet
      <4>4. lib.map = InitialMap /\ Valid(lib) = DOMAIN OSEntries
        BY <4>2 DEF IInv
      <4>5. lib' = AdoptIn(lib) /\ LibType(lib') /\ LibType(lib)
        BY <2>1, <2>2 DEF Register, TypeOK
      <4>6. lib'.map = lib.map
        BY <3>2, <4>3, <4>5 DEF LibType
      <4> QED
        BY <3>2, <4>4, <4>6
    <3> QED
      BY <2>1, <2>2, <3>1, <3>3 DEF Register, IInv, RegsInv
  <2>3. CASE Unregister
    <3>1. /\ lib'.next = lib.next /\ Live(lib') = {}
          /\ lib'.map = lib.map /\ Valid(lib') = Valid(lib)
      BY <2>1, <2>3, ForgetInFields DEF Unregister
    <3>2. MapClean(lib')
      BY <3>1 DEF IInv, MapClean
    <3> QED
      BY <2>1, <2>3, <3>1, <3>2 DEF Unregister, IInv, Ready, Pending
  <2>4. ASSUME NEW req \in Requests, Alloc(req) PROVE IInv'
    <3>1. PICK v \in AllocVictims(lib) : lib' = AllocIn(lib, req, v)
      BY <2>4 DEF Alloc
    <3>2. registered /\ registered' /\ RegsInv(lib)
      BY <2>4 DEF Alloc, Ready, IInv
    <3>3. RegsInv(lib')
      BY <2>1, <3>1, <3>2, AllocInInv, RequestType DEF IInv
    <3>4. lib'.next = lib.next + 1 /\ lib.next \in Nat
      BY <2>1, <3>1, AllocInFields, RequestType, VictimsAreSlots DEF LibType
    <3> QED
      BY <2>1, <3>2, <3>3, <3>4 DEF IInv, RegsInv
  <2>5. ASSUME UNCHANGED <<lib, registered>>, Pending' => registered
        PROVE  IInv'
    BY <2>1, <2>5 DEF IInv
  <2>6. ASSUME NEW H \in SUBSET Int, registered, registered',
               lib' = ReleaseIn(lib, H)
        PROVE  IInv'
    <3>1. RegsInv(lib)
      BY <2>6 DEF IInv
    <3>2. RegsInv(lib')
      BY <2>1, <2>6, <3>1, ReleaseInInv
    <3>3. ASSUME lib'.next = 0
          PROVE  lib'.map = InitialMap /\ Valid(lib') = DOMAIN OSEntries
      <4>1. lib'.next = lib.next
        BY <2>1, <2>6 DEF ReleaseIn, LibType
      <4>2. Live(lib) = {}
        BY <2>1, <3>3, <4>1 DEF LibType
      <4>3. ReleasedSlots(lib, H) = {}
        BY <4>2 DEF ReleasedSlots
      <4>4. lib'.map = lib.map /\ lib'.cfg = lib.cfg
        BY <2>1, <2>6, <4>3 DEF ReleaseIn, LibType
      <4> QED
        BY <3>3, <4>1, <4>4 DEF IInv, Valid
    <3> QED
      BY <2>1, <2>6, <3>2, <3>3 DEF IInv, RegsInv, Pending
  <2>7. ASSUME NEW h \in HandleArgs, Free(h) PROVE IInv'
    <3>1. CASE h \in Live(lib)
      BY <2>6, <2>7, <3>1, HandleArgsAssumption DEF Free, Ready
    <3>2. CASE h \notin Live(lib)
      BY <2>5, <2>7, <3>2 DEF Free, Ready, Pending
    <3> QED
      BY <3>1, <3>2
  <2>8. CASE FreeAll
    BY <2>1, <2>6, <2>8, MappedHandlesType DEF FreeAll, Ready
  <2>9. CASE Refill
    <3>1. PICK h \in FirstGrant(lib, access.addr, access.kind), v \in Slots :
            lib' = LoadIn(lib, h, v)
      BY <2>9 DEF Refill
    <3>2. CASE registered
      <4>1. RegsInv(lib)
        BY <3>2 DEF IInv
      <4>2. h \in Live(lib) /\ "V" \in lib.table[h].priv /\ ~ Resident(lib, h)
        BY <2>1, <2>9, <4>1, FaultNotResident DEF Refill, Faults, RegsInv
      <4>3. RegsInv(lib')
        BY <2>1, <3>1, <4>1, <4>2, LoadInInv
      <4>4. lib'.next = lib.next /\ lib.next # 0
        BY <2>1, <3>1, <4>2 DEF LoadIn, WriteSlot, LibType
      <4> QED
        BY <2>1, <2>9, <3>2, <4>3, <4>4 DEF Refill, IInv, RegsInv, Pending
    <3>3. CASE ~ registered
      BY <3>1, <3>3 DEF IInv, FirstGrant, Grants
    <3> QED
      BY <3>2, <3>3
  <2>10. ASSUME NEW h \in HandleArgs, Get(h) PROVE IInv'
    BY <2>5, <2>10 DEF Get, Ready
  <2>11. ASSUME NEW a \in Addrs, NEW k \in Kinds, Issue(a, k) PROVE IInv'
    BY <2>5, <2>11 DEF Issue, Ready
  <2>12. CASE HwPerform \/ Skip
    BY <2>5, <2>12 DEF HwPerform, Skip, Faults, IInv
  <2>13. CASE UNCHANGED vars
    BY <2>5, <2>13 DEF vars, IInv, Pending
  <2> QED
    BY <2>2, <2>3, <2>4, <2>7, <2>8, <2>9, <2>10, <2>11, <2>12, <2>13
       DEF Next, Resolve
<1> QED
  BY <1>1, <1>2, PTL DEF Spec

-----------------------------------------------------------------------------
\* No eviction, refill, allocation or free leaves a valid register that the
\* table does not account for, and no bound sits in two registers.
THEOREM RegistersMatchTable == ASSUME OSLow PROVE Spec => []InStep
<1>1. IInv => InStep
  BY DEF IInv, RegsInv, InStep
<1> QED
  BY <1>1, InvariantHolds, PTL

\* What the hardware lets through is covered by a live bound.
LEMMA HardwareSound ==
    ASSUME NEW st, ValidBacked(st), NEW a, NEW k, HwAllows(st, a, k)
    PROVE  Grants(st, a, k) # {}
<1>1. PICK s \in Slots : Covers(Held(st, s), a, k)
  BY DEF HwAllows
<1>2. s \in Valid(st)
  BY <1>1 DEF Covers, Held, Valid
<1>3. st.map[s] \in Live(st) /\ st.table[st.map[s]] = Held(st, s)
  BY <1>2 DEF ValidBacked
<1> QED
  BY <1>1, <1>3 DEF Grants

\* dasics_libcfg_free takes effect at once: what the hardware still lets
\* through is covered by bounds that are still live.
THEOREM FreeTakesEffect == ASSUME OSLow PROVE Spec => FreeRevokes
<1>1. IInv /\ IInv' /\ [Next]_vars =>
        [\A h \in HandleArgs : Free(h) =>
            \A a \in Addrs, k \in Kinds :
                HwAllows(lib, a, k)' => Grants(lib, a, k)' # {}]_vars
  <2> SUFFICES ASSUME IInv', NEW h \in HandleArgs, Free(h),
                      NEW a \in Addrs, NEW k \in Kinds, HwAllows(lib, a, k)'
               PROVE  Grants(lib, a, k)' # {}
    OBVIOUS
  <2>1. registered'
    BY DEF Free, Ready
  <2>2. ValidBacked(lib')
    BY <2>1 DEF IInv, RegsInv
  <2> QED
    BY <2>2, HardwareSound
<1> QED
  BY <1>1, InvariantHolds, PTL DEF Spec, FreeRevokes

\* dasics_libcfg_free_all empties the registers.
THEOREM FreeAllTakesEffect == ASSUME OSLow PROVE Spec => FreeAllClears
<1>1. IInv /\ [Next]_vars => [FreeAll => Valid(lib)' = {}]_vars
  <2> SUFFICES ASSUME IInv, FreeAll PROVE Valid(lib)' = {}
    OBVIOUS
  <2>1. LibType(lib) /\ RegsInv(lib) /\ lib' = ReleaseIn(lib, MappedHandles(lib))
    BY DEF IInv, TypeOK, FreeAll, Ready
  <2> QED
    BY <2>1, ReleaseMappedClears
<1> QED
  BY <1>1, InvariantHolds, PTL DEF Spec, FreeAllClears

-----------------------------------------------------------------------------
(***************************************************************************)
(* The registers, their evictions and refills are invisible: every step    *)
(* is a step of the unbounded table or changes nothing of it.              *)
(***************************************************************************)
THEOREM Refinement == ASSUME OSLow PROVE Spec => Implements
<1> DEFINE residue == IF registered THEN {}
                      ELSE {Held(lib, s) : s \in Valid(lib)}
<1>1. Init => Promise!Init
  <2> SUFFICES ASSUME Init PROVE Promise!Init
    OBVIOUS
  <2>1. Valid(lib) = DOMAIN OSEntries
    BY OSEntriesAssumption DEF Init, InitialLib, Valid
  <2>2. \A s \in DOMAIN OSEntries : Held(lib, s) = OSEntries[s]
    BY OSEntriesAssumption DEF Init, InitialLib, Held, Entry
  <2>3. residue = {OSEntries[s] : s \in DOMAIN OSEntries}
    BY <2>1, <2>2 DEF Init
  <2>4. lib.table = [h \in {} |-> 0] /\ lib.next = 0
    BY DEF Init, InitialLib
  <2> QED
    BY <2>3, <2>4 DEF Init, Promise!Init, NoAccess, Promise!NoAccess
<1>2. IInv /\ IInv' /\ [Next]_vars => [Promise!Next]_(Promise!vars)
  <2> SUFFICES ASSUME IInv, IInv', [Next]_vars
               PROVE  [Promise!Next]_(Promise!vars)
    OBVIOUS
  <2> USE DEF Promise!Ready, Promise!Pending, Ready, Pending
  <2>0. LibType(lib)
    BY DEF IInv, TypeOK
  <2>1. CASE Register
    <3>1. /\ lib' = AdoptIn(lib) /\ Live(lib) = {}
      BY <2>1 DEF Register, IInv
    <3>2. /\ LibType(lib')
          /\ Live(lib') = {lib'.map[s] : s \in Valid(lib)}
          /\ lib'.next = lib.next + Cardinality(Valid(lib))
          /\ \A s \in Valid(lib) :
                /\ lib'.map[s] = lib.next + Rank(lib, s)
                /\ lib'.table[lib'.map[s]] = Held(lib, s)
      BY <2>0, <3>1, AdoptInFields
    <3>3. \A h \in DOMAIN lib'.table : lib.next <= h /\ h < lib'.next
      <4> SUFFICES ASSUME NEW s \in Valid(lib)
                   PROVE  lib.next <= lib'.map[s] /\ lib'.map[s] < lib'.next
        BY <3>2 DEF Live
      <4>1. /\ Rank(lib, s) \in Nat /\ Rank(lib, s) < Cardinality(Valid(lib))
            /\ Cardinality(Valid(lib)) \in Nat /\ lib.next \in Nat
        BY <2>0, RankFacts DEF LibType
      <4> QED
        BY <3>2, <4>1
    <3>4. residue = {lib'.table[h] : h \in DOMAIN lib'.table}
      <4>1. DOMAIN lib'.table = {lib'.map[s] : s \in Valid(lib)}
        BY <3>2 DEF Live
      <4>2. residue = {Held(lib, s) : s \in Valid(lib)}
        BY <2>1 DEF Register
      <4> QED
        BY <3>2, <4>1, <4>2
    <3>5. lib'.next \in Nat
      BY <3>2 DEF LibType
    <3>6. Promise!Register
      BY <2>1, <3>3, <3>4, <3>5 DEF Register, Promise!Register
    <3> QED
      BY <3>6 DEF Promise!Next
  <2>2. CASE Unregister
    <3>1. /\ lib' = ForgetIn(lib) /\ lib'.next = lib.next
          /\ lib'.table = Restrict(lib.table, {})
      BY <2>0, <2>2, ForgetInFields DEF Unregister
    <3>2. Valid(lib') = Valid(lib) /\ \A s \in Slots : Held(lib', s) = Held(lib, s)
      BY <2>0, <3>1 DEF ForgetIn, LibType, Valid, Held
    <3>3. \A s \in Valid(lib) : \E h \in Live(lib) : lib.table[h] = Held(lib, s)
      BY <2>2 DEF Unregister, IInv, RegsInv, ValidBacked
    <3>4. residue' \subseteq {lib.table[h] : h \in DOMAIN lib.table}
      BY <2>2, <3>2, <3>3 DEF Unregister, Live, Valid
    <3>5. Promise!Unregister
      BY <2>2, <3>1, <3>4
         DEF Unregister, Promise!Unregister, Restrict, Promise!Restrict
    <3> QED
      BY <3>5 DEF Promise!Next
  <2>3. ASSUME NEW req \in Requests, Alloc(req)
        PROVE  [Promise!Next]_(Promise!vars)
    <3>1. PICK v \in AllocVictims(lib) : lib' = AllocIn(lib, req, v)
      BY <2>3 DEF Alloc
    <3>2. /\ lib'.table = PutEntry(lib.table, lib.next, RoundedEntry(req))
          /\ lib'.next = lib.next + 1
      BY <2>0, <3>1, AllocInFields, RequestType, VictimsAreSlots
    <3>3. RoundedEntry(req) = Promise!RoundedEntry(req)
      BY DEF RoundedEntry, Promise!RoundedEntry, RoundUp, Promise!RoundUp,
             RoundDown, Promise!RoundDown
    <3>4. Promise!Alloc(req)
      BY <2>3, <3>2, <3>3 DEF Alloc, Promise!Alloc, PutEntry
    <3> QED
      BY <3>4 DEF Promise!Next
  <2>4. ASSUME NEW H \in SUBSET Int, lib' = ReleaseIn(lib, H)
        PROVE  /\ lib'.next = lib.next
               /\ lib'.table = Restrict(lib.table, DOMAIN lib.table \ H)
               /\ DOMAIN lib'.table = DOMAIN lib.table \ H
    BY <2>0, <2>4 DEF ReleaseIn, LibType, Live, Restrict
  <2>5. ASSUME NEW h \in HandleArgs, Free(h)
        PROVE  [Promise!Next]_(Promise!vars)
    <3>1. Promise!Free(h)
      <4>1. CASE h \in Live(lib)
        <5>1. /\ lib'.next = lib.next
              /\ lib'.table = Restrict(lib.table, DOMAIN lib.table \ {h})
          BY <2>4, <2>5, <4>1, HandleArgsAssumption DEF Free
        <5> QED
          BY <2>5, <4>1, <5>1
             DEF Free, Promise!Free, Live, Restrict, Promise!Restrict
      <4>2. CASE h \notin Live(lib)
        <5>1. lib.table = Restrict(lib.table, DOMAIN lib.table \ {h})
          BY <2>0, <4>2 DEF Live, Restrict, LibType
        <5> QED
          BY <2>5, <4>2, <5>1
             DEF Free, Promise!Free, Live, Restrict, Promise!Restrict
      <4> QED
        BY <4>1, <4>2
    <3> QED
      BY <3>1 DEF Promise!Next
  <2>6. ASSUME NEW h \in HandleArgs, Get(h)
        PROVE  [Promise!Next]_(Promise!vars)
    <3>1. Promise!Get(h)
      BY <2>6 DEF Get, Promise!Get, Live, CfgBits, Promise!CfgBits
    <3> QED
      BY <3>1 DEF Promise!Next
  <2>7. CASE FreeAll
    <3>1. /\ lib'.next = lib.next
          /\ lib'.table = Restrict(lib.table, DOMAIN lib.table \ MappedHandles(lib))
          /\ DOMAIN lib'.table = DOMAIN lib.table \ MappedHandles(lib)
      BY <2>0, <2>4, <2>7, MappedHandlesType DEF FreeAll
    <3>2. Promise!FreeAll
      BY <2>7, <3>1 DEF FreeAll, Promise!FreeAll, Restrict, Promise!Restrict
    <3> QED
      BY <3>2 DEF Promise!Next
  <2>8. ASSUME NEW a \in Addrs, NEW k \in Kinds, Issue(a, k)
        PROVE  [Promise!Next]_(Promise!vars)
    <3>1. Promise!Issue(a, k)
      BY <2>8 DEF Issue, Promise!Issue
    <3> QED
      BY <2>8, <3>1
         DEF Promise!Next, Addrs, Promise!Addrs, Kinds, Promise!Kinds
  <2>9. Promise!Authorised <=> Grants(lib, access.addr, access.kind) # {}
    BY DEF Promise!Authorised, Grants, Live, Covers, Promise!Covers,
           Within, Promise!Within
  <2>10. CASE HwPerform
    <3>1. ASSUME registered PROVE Promise!Authorised
      BY <2>9, <2>10, <3>1, HardwareSound DEF HwPerform, IInv, RegsInv
    <3> QED
      BY <2>10, <3>1
         DEF HwPerform, Promise!Answer, Promise!Next, IInv
  <2>11. CASE Refill
    <3>1. PICK h \in FirstGrant(lib, access.addr, access.kind), v \in Slots :
            lib' = LoadIn(lib, h, v)
      BY <2>11 DEF Refill
    <3>2. lib'.table = lib.table /\ lib'.next = lib.next
      BY <2>0, <3>1 DEF LoadIn, WriteSlot, LibType
    <3>3. registered
      BY <3>1 DEF IInv, FirstGrant, Grants
    <3> QED
      BY <2>11, <3>2, <3>3 DEF Refill, Promise!vars
  <2>12. CASE Skip
    <3>1. Promise!Answer
      BY <2>9, <2>12 DEF Skip, Faults, Promise!Answer
    <3> QED
      BY <3>1 DEF Promise!Next
  <2>13. CASE UNCHANGED vars
    BY <2>13 DEF vars, Promise!vars
  <2> QED
    BY <2>1, <2>2, <2>3, <2>5, <2>6, <2>7, <2>8, <2>10, <2>11, <2>12, <2>13
       DEF Next, Resolve
<1> QED
  BY <1>1, <1>2, InvariantHolds, PTL DEF Spec, Implements, Promise!Spec

=============================================================================
