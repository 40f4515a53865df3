-------------------------- MODULE BoundRegsProofs --------------------------
(***************************************************************************)
(* What the operators of BoundRegs preserve: each lemma takes a state that *)
(* satisfies LibType and RegsInv and shows the same of the state one       *)
(* operation later. LibBoundsProofs puts them together.                    *)
(***************************************************************************)
EXTENDS BoundRegs, FiniteSetTheorems, TLAPS

\* Slots are natural numbers, and there is a register 0.
LEMMA SlotsFacts ==
    /\ 0 \in Slots
    /\ \A s \in Slots : s \in Int /\ s >= 0
    /\ IsFiniteSet(Slots)
  BY NumSlotsAssumption, FS_Interval DEF Slots

\* Rounding keeps addresses natural numbers, so that requests become entries.
LEMMA RoundedEntryType ==
    ASSUME NEW req \in [perm : Cfg, lo : Addrs, hi : Addrs]
    PROVE  RoundedEntry(req) \in Entry /\ "V" \in RoundedEntry(req).priv
<1>1. ASSUME NEW a \in Nat PROVE RoundDown(a) \in Nat
  <2>1. Grain \in Nat \ {0}
    BY GrainAssumption
  <2>2. a % Grain \in Nat /\ a % Grain <= a
    BY <2>1
  <2> QED
    BY <2>2 DEF RoundDown
<1>2. req.lo \in Nat /\ req.hi \in Nat
  BY AddrSpaceAssumption DEF Addrs
<1>3. (req.hi + Grain - 1) % AddrSpace \in Nat
  BY <1>2, GrainAssumption, AddrSpaceAssumption
<1>4. RoundDown(req.lo) \in Nat /\ RoundUp(req.hi) \in Nat
  BY <1>1, <1>2, <1>3 DEF RoundUp
<1>5. req.perm \cup {"V"} \in Cfg
  BY DEF Cfg, Flags
<1> QED
  BY <1>4, <1>5 DEF RoundedEntry, Entry, Bound

\* Where WriteSlot puts what.
LEMMA WriteSlotFields ==
    ASSUME NEW st, LibType(st), NEW v \in Slots, NEW h, NEW entry
    PROVE  LET w == WriteSlot(st, v, h, entry)
           IN  /\ DOMAIN w = {"table", "next", "cfg", "bound", "map"}
               /\ w.table = st.table /\ w.next = st.next
               /\ w.cfg = [st.cfg EXCEPT ![v] = entry.priv]
               /\ w.bound = [st.bound EXCEPT ![v] = entry.bound]
               /\ w.map = [st.map EXCEPT ![v] = h]
  BY DEF LibType, WriteSlot

\* Writing an entry into a register makes it valid and leaves the others.
LEMMA WriteSlotValid ==
    ASSUME NEW st, LibType(st), NEW v \in Slots, NEW h, NEW entry \in Entry,
           "V" \in entry.priv
    PROVE  LET w == WriteSlot(st, v, h, entry)
           IN  /\ w.table = st.table /\ w.next = st.next
               /\ Valid(w) = Valid(st) \cup {v}
               /\ w.map[v] = h /\ Held(w, v) = entry
               /\ \A s \in Slots \ {v} :
                     w.map[s] = st.map[s] /\ Held(w, s) = Held(st, s)
<1> DEFINE w == WriteSlot(st, v, h, entry)
<1>1. /\ w.table = st.table /\ w.next = st.next
      /\ w.cfg = [st.cfg EXCEPT ![v] = entry.priv]
      /\ w.bound = [st.bound EXCEPT ![v] = entry.bound]
      /\ w.map = [st.map EXCEPT ![v] = h]
  BY WriteSlotFields
<1>2. /\ st.cfg \in [Slots -> Cfg] /\ st.bound \in [Slots -> Bound]
      /\ st.map \in [Slots -> Int]
  BY DEF LibType
<1>3. Valid(w) = Valid(st) \cup {v}
  BY <1>1, <1>2 DEF Valid
<1>4. w.map[v] = h /\ Held(w, v) = entry
  BY <1>1, <1>2 DEF Held, Entry
<1>5. \A s \in Slots \ {v} : w.map[s] = st.map[s] /\ Held(w, s) = Held(st, s)
  BY <1>1, <1>2 DEF Held
<1> QED
  BY <1>1, <1>3, <1>4, <1>5

LEMMA WriteSlotType ==
    ASSUME NEW st, LibType(st), NEW v \in Slots, NEW h \in Int,
           NEW entry \in Entry
    PROVE  LibType(WriteSlot(st, v, h, entry))
<1> DEFINE w == WriteSlot(st, v, h, entry)
<1>1. /\ DOMAIN w = {"table", "next", "cfg", "bound", "map"}
      /\ w.table = st.table /\ w.next = st.next
      /\ w.cfg = [st.cfg EXCEPT ![v] = entry.priv]
      /\ w.bound = [st.bound EXCEPT ![v] = entry.bound]
      /\ w.map = [st.map EXCEPT ![v] = h]
  BY WriteSlotFields
<1> HIDE DEF w
<1>2. LibType(w)
  BY <1>1 DEF LibType, Live, Entry
<1> QED
  BY <1>2 DEF w

-----------------------------------------------------------------------------
(***************************************************************************)
(* dasics_ldst_checker                                                     *)
(***************************************************************************)
LEMMA LoadInType ==
    ASSUME NEW st, LibType(st), NEW v \in Slots, NEW h \in Live(st)
    PROVE  LibType(LoadIn(st, h, v))
  BY WriteSlotType DEF LoadIn, LibType

\* Refilling a register keeps the invariant when the entry was not resident,
\* which a fault implies: the evicted entry stays in the table.
LEMMA LoadInInv ==
    ASSUME NEW st, LibType(st), RegsInv(st),
           NEW h \in Live(st), "V" \in st.table[h].priv, ~ Resident(st, h),
           NEW v \in Slots
    PROVE  RegsInv(LoadIn(st, h, v))
<1> DEFINE w == LoadIn(st, h, v)
<1>1. h \in Nat /\ st.table[h] \in Entry
  BY DEF LibType
<1>2. /\ Valid(w) = Valid(st) \cup {v}
      /\ w.map[v] = h /\ Held(w, v) = st.table[h]
      /\ \A s \in Slots \ {v} :
            w.map[s] = st.map[s] /\ Held(w, s) = Held(st, s)
  BY <1>1, WriteSlotValid DEF LoadIn
<1>3. w.table = st.table /\ Live(w) = Live(st)
  <2>1. w.table = st.table
    BY <1>1, WriteSlotValid DEF LoadIn
  <2> QED
    BY <2>1 DEF Live
<1>4. Valid(st) \subseteq Slots
  BY DEF Valid
<1>5. ValidBacked(w)
  BY <1>2, <1>3, <1>4 DEF RegsInv, ValidBacked
<1>6. ValidUnique(w)
  BY <1>2, <1>4 DEF RegsInv, ValidUnique, Resident
<1>7. MapClean(w)
  BY <1>2, <1>4 DEF RegsInv, MapClean
<1>8. ZeroFirst(w)
  <2>1. ~ (0 \in Live(st) /\ Unused(st) # {})
    BY DEF RegsInv, ZeroFirst
  <2>2. Unused(w) \subseteq Unused(st)
    BY <1>2 DEF Unused
  <2> QED
    BY <1>3, <2>1, <2>2 DEF ZeroFirst
<1> QED
  BY <1>5, <1>6, <1>7, <1>8 DEF RegsInv

\* A fault means that no valid register covers the access; when the registers
\* hold what the table says, the entry the checker finds is not resident.
LEMMA FaultNotResident ==
    ASSUME NEW st, ValidBacked(st), NEW a, NEW k, ~ HwAllows(st, a, k),
           NEW h \in FirstGrant(st, a, k)
    PROVE  h \in Live(st) /\ "V" \in st.table[h].priv /\ ~ Resident(st, h)
<1>1. h \in Live(st) /\ Covers(st.table[h], a, k)
  BY DEF FirstGrant, Grants
<1>2. "V" \in st.table[h].priv
  BY <1>1 DEF Covers
<1>3. ASSUME NEW s \in Valid(st), st.map[s] = h PROVE FALSE
  <2>1. s \in Slots /\ Held(st, s) = st.table[h]
    BY <1>3 DEF ValidBacked, Valid
  <2> QED
    BY <1>1, <2>1 DEF HwAllows
<1> QED
  BY <1>1, <1>2, <1>3 DEF Resident

-----------------------------------------------------------------------------
(***************************************************************************)
(* dasics_libcfg_alloc                                                     *)
(***************************************************************************)
LEMMA AllocInFields ==
    ASSUME NEW st, LibType(st), NEW v \in Slots,
           NEW req \in [perm : Cfg, lo : Addrs, hi : Addrs]
    PROVE  LET w == AllocIn(st, req, v)
           IN  /\ LibType(w)
               /\ w.next = st.next + 1
               /\ w.table = PutEntry(st.table, st.next, RoundedEntry(req))
               /\ Live(w) = Live(st) \cup {st.next}
               /\ w.table[st.next] = RoundedEntry(req)
               /\ \A h \in Live(st) : w.table[h] = st.table[h]
               /\ Valid(w) = Valid(st) \cup {v}
               /\ w.map[v] = st.next /\ Held(w, v) = RoundedEntry(req)
               /\ \A s \in Slots \ {v} :
                     w.map[s] = st.map[s] /\ Held(w, s) = Held(st, s)
<1> DEFINE e == RoundedEntry(req)
           u == [st EXCEPT !.table = PutEntry(st.table, st.next, e),
                           !.next = st.next + 1]
           w == AllocIn(st, req, v)
<1>1. e \in Entry /\ "V" \in e.priv
  BY RoundedEntryType
<1>2. /\ DOMAIN u = DOMAIN st
      /\ u.table = PutEntry(st.table, st.next, e) /\ u.next = st.next + 1
      /\ u.cfg = st.cfg /\ u.bound = st.bound /\ u.map = st.map
  BY DEF LibType
<1>3. /\ Live(u) = Live(st) \cup {st.next} /\ u.table[st.next] = e
      /\ \A h \in Live(st) : u.table[h] = st.table[h]
  <2>1. st.next \notin Live(st)
    BY DEF LibType
  <2> HIDE DEF e, u
  <2> QED
    BY <1>2, <2>1 DEF Live, PutEntry
<1> HIDE DEF e, u
<1>4. LibType(u)
  <2>1. u.table = Restrict(u.table, Live(u))
    BY <1>2 DEF PutEntry, Restrict, Live
  <2> QED
    BY <1>1, <1>2, <1>3, <2>1 DEF LibType
<1>5. Valid(u) = Valid(st) /\ \A s \in Slots : Held(u, s) = Held(st, s)
  BY <1>2 DEF Valid, Held
<1>6. w = WriteSlot(u, v, st.next, e)
  BY DEF AllocIn, e, u
<1> HIDE DEF w
<1>7. st.next \in Int
  BY DEF LibType
<1>8. LibType(w)
  BY <1>1, <1>4, <1>6, <1>7, WriteSlotType
<1>9. w.table = u.table /\ w.next = u.next /\ Live(w) = Live(u)
  <2>1. w.table = u.table /\ w.next = u.next
    BY <1>1, <1>4, <1>6, WriteSlotValid
  <2> QED
    BY <2>1 DEF Live
<1>10. /\ Valid(w) = Valid(u) \cup {v} /\ w.map[v] = st.next /\ Held(w, v) = e
       /\ \A s \in Slots \ {v} : w.map[s] = u.map[s] /\ Held(w, s) = Held(u, s)
  BY <1>1, <1>4, <1>6, WriteSlotValid
<1> QED
  BY <1>2, <1>3, <1>5, <1>8, <1>9, <1>10 DEF w, e

\* An allocation takes a register that is not valid whenever there is one, so
\* that it evicts nobody while a register was never used; the very first
\* handle, 0, goes to register 0.
LEMMA AllocInInv ==
    ASSUME NEW st, LibType(st), RegsInv(st),
           st.next = 0 => st.map = InitialMap,
           NEW v \in AllocVictims(st),
           NEW req \in [perm : Cfg, lo : Addrs, hi : Addrs]
    PROVE  RegsInv(AllocIn(st, req, v))
<1> DEFINE w == AllocIn(st, req, v)
<1>1. v \in Slots
  BY DEF AllocVictims
<1>2. /\ Live(w) = Live(st) \cup {st.next}
      /\ w.table[st.next] = RoundedEntry(req)
      /\ \A h \in Live(st) : w.table[h] = st.table[h]
      /\ Valid(w) = Valid(st) \cup {v}
      /\ w.map[v] = st.next /\ Held(w, v) = RoundedEntry(req)
      /\ \A s \in Slots \ {v} :
            w.map[s] = st.map[s] /\ Held(w, s) = Held(st, s)
  BY <1>1, AllocInFields
<1>3. Valid(st) \subseteq Slots
  BY DEF Valid
<1>4. st.next \in Nat /\ \A h \in Live(st) : h \in Nat /\ h < st.next
  BY DEF LibType
<1>5. ValidBacked(st) /\ ValidUnique(st) /\ MapClean(st) /\ ZeroFirst(st)
  BY DEF RegsInv
<1> HIDE DEF w
<1>6. ValidBacked(w)
  BY <1>1, <1>2, <1>3, <1>5 DEF ValidBacked
<1>7. ValidUnique(w)
  BY <1>1, <1>2, <1>3, <1>4, <1>5 DEF ValidUnique, ValidBacked
<1>8. MapClean(w)
  BY <1>1, <1>2, <1>3, <1>5 DEF MapClean
<1>9. Unused(w) = Unused(st) \ {v}
  BY <1>1, <1>2, <1>3 DEF Unused
<1>10. ZeroFirst(w)
  <2>1. CASE st.next = 0
    <3>1. Live(st) = {}
      BY <1>4, <2>1
    <3>2. Valid(st) = {}
      BY <1>5, <3>1 DEF ValidBacked
    <3>3. v = 0
      BY <3>2, SlotsFacts DEF AllocVictims
    <3>4. Valid(w) = {0} /\ Live(w) = {0} /\ w.map[0] = 0
      BY <1>2, <2>1, <3>1, <3>2, <3>3
    <3>5. \A u \in Unused(w) : u \in Slots /\ u # 0
      BY <1>9, <3>3 DEF Unused
    <3> QED
      BY <3>4, <3>5, SlotsFacts DEF ZeroFirst, Resident
  <2>2. CASE st.next # 0
    <3> SUFFICES ASSUME 0 \in Live(w), Unused(w) # {}
                 PROVE  /\ \A h \in Live(w) : Resident(w, h)
                        /\ \A s \in Valid(w), u \in Unused(w) :
                              w.map[s] = 0 => s < u
      BY DEF ZeroFirst
    <3>1. 0 \in Live(st) /\ Unused(st) # {}
      BY <1>2, <1>9, <2>2
    <3>2. v \notin Valid(st)
      BY <3>1 DEF AllocVictims, Unused
    <3>3. /\ \A h \in Live(st) : Resident(st, h)
          /\ \A s \in Valid(st), u \in Unused(st) : st.map[s] = 0 => s < u
      BY <1>5, <3>1 DEF ZeroFirst
    <3>4. \A h \in Live(w) : Resident(w, h)
      <4>1. Resident(w, st.next)
        BY <1>2 DEF Resident
      <4>2. ASSUME NEW h \in Live(st) PROVE Resident(w, h)
        BY <1>2, <1>3, <3>2, <3>3 DEF Resident
      <4> QED
        BY <1>2, <4>1, <4>2
    <3>5. ASSUME NEW s \in Valid(w), NEW u \in Unused(w), w.map[s] = 0
          PROVE  s < u
      BY <1>2, <1>3, <1>9, <2>2, <3>3, <3>5
    <3> QED
      BY <3>4, <3>5
  <2> QED
    BY <2>1, <2>2
<1> QED
  BY <1>6, <1>7, <1>8, <1>10 DEF RegsInv, w

-----------------------------------------------------------------------------
(***************************************************************************)
(* dasics_libcfg_free and dasics_libcfg_free_all                           *)
(***************************************************************************)
LEMMA ReleaseInFields ==
    ASSUME NEW st, LibType(st), NEW H \in SUBSET Int
    PROVE  LET w == ReleaseIn(st, H)
           IN  /\ LibType(w)
               /\ w.next = st.next
               /\ w.table = Restrict(st.table, Live(st) \ H)
               /\ Live(w) = Live(st) \ H
               /\ \A h \in Live(w) : w.table[h] = st.table[h]
               /\ Valid(w) = Valid(st) \ ReleasedSlots(st, H)
               /\ \A s \in ReleasedSlots(st, H) : w.map[s] = -1
               /\ \A s \in Slots \ ReleasedSlots(st, H) :
                     w.map[s] = st.map[s] /\ Held(w, s) = Held(st, s)
<1> DEFINE w == ReleaseIn(st, H)
           gone == ReleasedSlots(st, H)
<1>1. /\ DOMAIN w = {"table", "next", "cfg", "bound", "map"}
      /\ w.table = Restrict(st.table, Live(st) \ H)
      /\ w.next = st.next /\ w.bound = st.bound
      /\ w.cfg = [s \in Slots |-> IF s \in gone THEN st.cfg[s] \ {"V"}
                                  ELSE st.cfg[s]]
      /\ w.map = [s \in Slots |-> IF s \in gone THEN -1 ELSE st.map[s]]
  BY DEF LibType, ReleaseIn
<1>2. gone \subseteq Slots
  BY DEF ReleasedSlots
<1> HIDE DEF w, gone
<1>3. Live(w) = Live(st) \ H /\ \A h \in Live(w) : w.table[h] = st.table[h]
  BY <1>1 DEF Live, Restrict
<1>4. LibType(w)
  <2>1. w.cfg \in [Slots -> Cfg]
    BY <1>1 DEF LibType, Cfg
  <2>2. w.map \in [Slots -> Int]
    BY <1>1 DEF LibType
  <2>3. w.table = Restrict(w.table, Live(w))
    BY <1>1 DEF Restrict, Live
  <2> QED
    BY <1>1, <1>3, <2>1, <2>2, <2>3 DEF LibType
<1>5. Valid(w) = Valid(st) \ gone
  BY <1>1 DEF Valid
<1>6. \A s \in gone : w.map[s] = -1
  BY <1>1, <1>2
<1>7. \A s \in Slots \ gone : w.map[s] = st.map[s] /\ Held(w, s) = Held(st, s)
  BY <1>1 DEF Held
<1> QED
  BY <1>1, <1>3, <1>4, <1>5, <1>6, <1>7 DEF w, gone

\* A valid register whose handle is freed is the first the map gives to that
\* handle: the search does not stop at another one.
LEMMA ReleasedSlotsComplete ==
    ASSUME NEW st, LibType(st), RegsInv(st), NEW H \in SUBSET Int,
           NEW s \in Valid(st), st.map[s] \in H
    PROVE  s \in ReleasedSlots(st, H)
<1>1. s \in Slots /\ st.map[s] \in Live(st) /\ st.map[s] \in Nat
  BY DEF Valid, RegsInv, ValidBacked, LibType
<1>2. ASSUME NEW t \in Slots, st.map[t] = st.map[s] PROVE s <= t
  <2>1. CASE t \in Valid(st)
    BY <1>1, <1>2, <2>1, SlotsFacts DEF RegsInv, ValidUnique
  <2>2. CASE t \notin Valid(st)
    <3>1. st.map[t] = 0 /\ t \in Unused(st)
      BY <1>1, <1>2, <2>2 DEF RegsInv, MapClean, Unused
    <3>2. s < t
      BY <1>1, <1>2, <3>1 DEF RegsInv, ZeroFirst
    <3> QED
      BY <1>1, <3>2, SlotsFacts
  <2> QED
    BY <2>1, <2>2
<1> QED
  BY <1>1, <1>2 DEF ReleasedSlots, FirstHolder

LEMMA ReleaseInInv ==
    ASSUME NEW st, LibType(st), RegsInv(st), NEW H \in SUBSET Int
    PROVE  RegsInv(ReleaseIn(st, H))
<1> DEFINE w == ReleaseIn(st, H)
           gone == ReleasedSlots(st, H)
<1>1. /\ Live(w) = Live(st) \ H
      /\ \A h \in Live(w) : w.table[h] = st.table[h]
      /\ Valid(w) = Valid(st) \ gone
      /\ \A s \in gone : w.map[s] = -1
      /\ \A s \in Slots \ gone : w.map[s] = st.map[s] /\ Held(w, s) = Held(st, s)
  BY ReleaseInFields, ZenonT(30)
<1>2. Valid(st) \subseteq Slots /\ gone \subseteq Slots
  BY DEF Valid, ReleasedSlots
<1>3. \A s \in Valid(w) : st.map[s] \notin H
  BY <1>1, ReleasedSlotsComplete
<1>4. ValidBacked(st) /\ ValidUnique(st) /\ MapClean(st) /\ ZeroFirst(st)
  BY DEF RegsInv
<1> HIDE DEF w, gone
<1>5. ValidBacked(w)
  BY <1>1, <1>2, <1>3, <1>4 DEF ValidBacked
<1>6. ValidUnique(w)
  BY <1>1, <1>2, <1>4 DEF ValidUnique
<1>7. MapClean(w)
  BY <1>1, <1>2, <1>4 DEF MapClean
<1>8. Unused(w) \subseteq Unused(st)
  BY <1>1, <1>2 DEF Unused
<1>9. ZeroFirst(w)
  <2> SUFFICES ASSUME 0 \in Live(w), Unused(w) # {}
               PROVE  /\ \A h \in Live(w) : Resident(w, h)
                      /\ \A s \in Valid(w), u \in Unused(w) :
                            w.map[s] = 0 => s < u
    BY DEF ZeroFirst
  <2>1. /\ \A h \in Live(st) : Resident(st, h)
        /\ \A s \in Valid(st), u \in Unused(st) : st.map[s] = 0 => s < u
    BY <1>1, <1>4, <1>8 DEF ZeroFirst
  <2>2. ASSUME NEW h \in Live(w) PROVE Resident(w, h)
    <3>1. PICK s \in Valid(st) : st.map[s] = h
      BY <1>1, <2>1 DEF Resident
    <3>2. s \notin gone
      BY <1>1, <3>1 DEF gone, ReleasedSlots
    <3> QED
      BY <1>1, <1>2, <3>1, <3>2 DEF Resident
  <2> QED
    BY <1>1, <1>2, <1>8, <2>1, <2>2
<1> QED
  BY <1>5, <1>6, <1>7, <1>9 DEF RegsInv, w

\* Freeing whatever the map mentions leaves no register valid.
LEMMA ReleaseMappedClears ==
    ASSUME NEW st, LibType(st), RegsInv(st)
    PROVE  Valid(ReleaseIn(st, MappedHandles(st))) = {}
<1>a. MappedHandles(st) \in SUBSET Int
  BY DEF MappedHandles, LibType
<1> SUFFICES ASSUME NEW s \in Valid(st)
             PROVE  s \in ReleasedSlots(st, MappedHandles(st))
  <2>1. Valid(ReleaseIn(st, MappedHandles(st)))
          = Valid(st) \ ReleasedSlots(st, MappedHandles(st))
    BY <1>a, ReleaseInFields, ZenonT(30)
  <2> QED
    BY <2>1
<1>1. s \in Slots /\ st.map[s] \in Nat
  BY DEF Valid, RegsInv, ValidBacked, LibType
<1>2. st.map[s] \in MappedHandles(st)
  BY <1>1 DEF MappedHandles
<1> QED
  BY <1>a, <1>2, ReleasedSlotsComplete

-----------------------------------------------------------------------------
(***************************************************************************)
(* register_udasics and unregister_udasics                                 *)
(***************************************************************************)
LEMMA RankFacts ==
    ASSUME NEW st
    PROVE  /\ Cardinality(Valid(st)) \in Nat
           /\ \A s \in Valid(st) :
                 Rank(st, s) \in Nat /\ Rank(st, s) < Cardinality(Valid(st))
           /\ \A s, t \in Valid(st) : s < t => Rank(st, s) < Rank(st, t)
           /\ \A s, t \in Valid(st) : Rank(st, s) = Rank(st, t) => s = t
<1> DEFINE below(s) == {t \in Valid(st) : t < s}
<1>1. /\ IsFiniteSet(Valid(st)) /\ Valid(st) \subseteq Slots
      /\ \A s \in Valid(st) : s \in Int
  BY SlotsFacts, FS_Subset DEF Valid
<1>2. Cardinality(Valid(st)) \in Nat
  BY <1>1, FS_CardinalityType
<1>3. ASSUME NEW s
      PROVE  IsFiniteSet(below(s)) /\ Rank(st, s) \in Nat
  <2>1. below(s) \subseteq Valid(st)
    OBVIOUS
  <2>2. IsFiniteSet(below(s))
    BY <1>1, <2>1, FS_Subset
  <2> QED
    BY <2>2, FS_CardinalityType DEF Rank
<1>4. ASSUME NEW s \in Valid(st) PROVE Rank(st, s) < Cardinality(Valid(st))
  <2>1. below(s) \subseteq Valid(st) /\ s \notin below(s)
    BY <1>1
  <2>2. /\ Cardinality(below(s)) <= Cardinality(Valid(st))
        /\ Cardinality(below(s)) = Cardinality(Valid(st)) => below(s) = Valid(st)
    BY <1>1, <2>1, FS_Subset
  <2> QED
    BY <1>2, <1>3, <2>1, <2>2 DEF Rank
<1>5. ASSUME NEW s \in Valid(st), NEW t \in Valid(st), s < t
      PROVE  Rank(st, s) < Rank(st, t)
  <2>1. below(s) \subseteq below(t) /\ s \in below(t) /\ s \notin below(s)
    BY <1>1, <1>5
  <2>2. /\ Cardinality(below(s)) <= Cardinality(below(t))
        /\ Cardinality(below(s)) = Cardinality(below(t)) => below(s) = below(t)
    BY <1>3, <2>1, FS_Subset
  <2>3. Rank(st, s) \in Nat /\ Rank(st, t) \in Nat
    BY <1>3
  <2> QED
    BY <2>1, <2>2, <2>3 DEF Rank
<1>6. ASSUME NEW s \in Valid(st), NEW t \in Valid(st), Rank(st, s) = Rank(st, t)
      PROVE  s = t
  <2>1. Rank(st, s) \in Nat /\ Rank(st, t) \in Nat
    BY <1>3
  <2>2. ~ (s < t)
    BY <1>5, <1>6, <2>1
  <2>3. ~ (t < s)
    BY <1>5, <1>6, <2>1
  <2> QED
    BY <1>1, <2>2, <2>3
<1> QED
  BY <1>2, <1>3, <1>4, <1>5, <1>6

\* Registration gives every valid register an entry and a handle of its own.
LEMMA AdoptInFields ==
    ASSUME NEW st, LibType(st)
    PROVE  LET w == AdoptIn(st)
           IN  /\ LibType(w)
               /\ w.next = st.next + Cardinality(Valid(st))
               /\ Live(w) = Live(st) \cup {w.map[s] : s \in Valid(st)}
               /\ Valid(w) = Valid(st)
               /\ \A s \in Slots : Held(w, s) = Held(st, s)
               /\ \A s \in Valid(st) :
                     /\ w.map[s] = st.next + Rank(st, s)
                     /\ w.table[w.map[s]] = Held(st, s)
               /\ \A s \in Slots \ Valid(st) : w.map[s] = st.map[s]
<1> DEFINE w == AdoptIn(st)
           handle == [s \in Slots |-> st.next + Rank(st, s)]
           adopted == {handle[s] : s \in Valid(st)}
<1>1. /\ DOMAIN w = {"table", "next", "cfg", "bound", "map"}
      /\ w.table = [h \in Live(st) \cup adopted |->
                        IF h \in adopted
                        THEN Held(st, CHOOSE s \in Valid(st) : handle[s] = h)
                        ELSE st.table[h]]
      /\ w.next = st.next + Cardinality(Valid(st))
      /\ w.cfg = st.cfg /\ w.bound = st.bound
      /\ w.map = [s \in Slots |-> IF s \in Valid(st) THEN handle[s]
                                  ELSE st.map[s]]
  BY DEF LibType, AdoptIn
<1> HIDE DEF w
<1>2. Valid(st) \subseteq Slots
  BY DEF Valid
<1>3. st.next \in Nat /\ \A h \in Live(st) : h \in Nat /\ h < st.next
  BY DEF LibType
<1>4. \A s \in Valid(st) : w.map[s] = handle[s]
  BY <1>1, <1>2
<1>5. adopted = {w.map[s] : s \in Valid(st)}
  BY <1>4
<1>6. \A s \in Valid(st) :
        /\ handle[s] = st.next + Rank(st, s) /\ Rank(st, s) \in Nat
        /\ Rank(st, s) < Cardinality(Valid(st))
  BY <1>2, RankFacts
<1>7. Cardinality(Valid(st)) \in Nat
  BY RankFacts
<1>8. \A s \in Valid(st) : (CHOOSE t \in Valid(st) : handle[t] = handle[s]) = s
  <2> SUFFICES ASSUME NEW s \in Valid(st), NEW t \in Valid(st),
                      handle[t] = handle[s]
               PROVE  t = s
    OBVIOUS
  <2>1. Rank(st, s) = Rank(st, t)
    BY <1>3, <1>6
  <2> QED
    BY <2>1, RankFacts
<1>9. \A s \in Valid(st) : w.table[handle[s]] = Held(st, s)
  <2> SUFFICES ASSUME NEW s \in Valid(st)
               PROVE  w.table[handle[s]] = Held(st, s)
    OBVIOUS
  <2>1. handle[s] \in adopted
    OBVIOUS
  <2> DEFINE owner(h) == CHOOSE t \in Valid(st) : handle[t] = h
  <2>2. w.table[handle[s]] = Held(st, owner(handle[s]))
    <3> HIDE DEF handle, adopted
    <3> QED
      BY <1>1, <2>1
  <2>3. owner(handle[s]) = s
    BY <1>8
  <2> QED
    BY <2>2, <2>3
<1>10. \A s \in Slots : Held(st, s) \in Entry
  BY DEF Held, Entry, LibType
<1>11. LibType(w)
  <2>1. w.next \in Nat
    BY <1>1, <1>3, <1>7
  <2>2. w.map \in [Slots -> Int]
    <3>1. \A s \in Slots \ Valid(st) : st.map[s] \in Int
      BY DEF LibType
    <3>2. \A s \in Valid(st) : handle[s] \in Int
      BY <1>3, <1>6
    <3> HIDE DEF handle
    <3> QED
      BY <1>1, <3>1, <3>2
  <2>3. ASSUME NEW h \in Live(w)
        PROVE  h \in Nat /\ h < w.next /\ w.table[h] \in Entry
    <3>1. CASE h \in adopted
      <4>1. PICK s \in Valid(st) : h = handle[s]
        BY <3>1
      <4>2. h \in Nat /\ h < w.next
        <5>1. /\ h = st.next + Rank(st, s) /\ Rank(st, s) \in Nat
              /\ Rank(st, s) < Cardinality(Valid(st))
          BY <1>6, <4>1
        <5> QED
          BY <1>1, <1>3, <1>7, <5>1
      <4>3. w.table[h] \in Entry
        BY <1>2, <1>9, <1>10, <4>1
      <4> QED
        BY <4>2, <4>3
    <3>2. CASE h \notin adopted
      <4> HIDE DEF adopted
      <4>1. h \in Live(st) /\ w.table[h] = st.table[h]
        BY <1>1, <3>2 DEF Live
      <4> QED
        BY <1>1, <1>3, <1>7, <4>1 DEF LibType
    <3> QED
      BY <3>1, <3>2
  <2>4. w.table = Restrict(w.table, Live(w))
    <3> HIDE DEF handle, adopted
    <3> QED
      BY <1>1 DEF Restrict, Live
  <2> QED
    BY <1>1, <2>1, <2>2, <2>3, <2>4 DEF LibType
<1>12. Valid(w) = Valid(st) /\ \A s \in Slots : Held(w, s) = Held(st, s)
  BY <1>1 DEF Valid, Held
<1>13. Live(w) = Live(st) \cup adopted
  <2> HIDE DEF adopted
  <2> QED
    BY <1>1 DEF Live
<1> QED
  BY <1>1, <1>4, <1>5, <1>6, <1>9, <1>11, <1>12, <1>13 DEF w

\* Registration establishes the invariant. When it gives out handle 0, the map
\* is the initial one, which reads 0 from register 1 on: the lowest valid
\* register must be 0 or 1 for no unused register to come before it.
LEMMA AdoptInInv ==
    ASSUME NEW st, LibType(st), Live(st) = {}, MapClean(st),
           st.next = 0 => /\ st.map = InitialMap
                          /\ Valid(st) = {} \/ 0 \in Valid(st) \/ 1 \in Valid(st)
    PROVE  RegsInv(AdoptIn(st))
<1> DEFINE w == AdoptIn(st)
<1>1. /\ LibType(w)
      /\ w.next = st.next + Cardinality(Valid(st))
      /\ Live(w) = Live(st) \cup {w.map[s] : s \in Valid(st)}
      /\ Valid(w) = Valid(st)
      /\ \A s \in Slots : Held(w, s) = Held(st, s)
      /\ \A s \in Valid(st) : /\ w.map[s] = st.next + Rank(st, s)
                              /\ w.table[w.map[s]] = Held(st, s)
      /\ \A s \in Slots \ Valid(st) : w.map[s] = st.map[s]
  BY AdoptInFields, ZenonT(30)
<1> HIDE DEF w
<1>2. Valid(st) \subseteq Slots
  BY DEF Valid
<1>3. st.next \in Nat
  BY DEF LibType
<1>4. ValidBacked(w)
  BY <1>1, <1>2 DEF ValidBacked
<1>5. ValidUnique(w)
  <2> SUFFICES ASSUME NEW s \in Valid(st), NEW t \in Valid(st),
                      w.map[s] = w.map[t]
               PROVE  s = t
    BY <1>1 DEF ValidUnique
  <2>1. Rank(st, s) \in Nat /\ Rank(st, t) \in Nat
    BY RankFacts
  <2>2. Rank(st, s) = Rank(st, t)
    BY <1>1, <1>3, <2>1
  <2> QED
    BY <2>2, RankFacts
<1>6. MapClean(w)
  BY <1>1 DEF MapClean
<1>7. ZeroFirst(w)
  <2> SUFFICES ASSUME 0 \in Live(w)
               PROVE  /\ \A h \in Live(w) : Resident(w, h)
                      /\ \A s \in Valid(w), u \in Unused(w) :
                            w.map[s] = 0 => s < u
    BY DEF ZeroFirst
  <2>1. \A h \in Live(w) : Resident(w, h)
    BY <1>1 DEF Resident
  <2>2. ASSUME NEW s \in Valid(w), NEW u \in Unused(w), w.map[s] = 0
        PROVE  s < u
    <3>1. st.next = 0 /\ Rank(st, s) = 0
      <4>1. Rank(st, s) \in Nat
        BY <1>1, RankFacts
      <4> QED
        BY <1>1, <1>3, <2>2, <4>1
    <3>2. \A t \in Valid(st) : ~ (t < s)
      <4> SUFFICES ASSUME NEW t \in Valid(st), t < s PROVE FALSE
        OBVIOUS
      <4>1. Rank(st, t) \in Nat /\ Rank(st, t) < Rank(st, s)
        BY <1>1, RankFacts
      <4> QED
        BY <3>1, <4>1
    <3>3. s \in Int /\ s <= 1
      BY <1>1, <1>2, <3>1, <3>2, SlotsFacts
    <3>4. u \in Slots /\ u \notin Valid(st) /\ InitialMap[u] = 0
      BY <1>1, <3>1 DEF Unused
    <3>5. u \in Int /\ u # s /\ u >= 1
      BY <1>1, <3>4, SlotsFacts DEF InitialMap
    <3> QED
      BY <3>3, <3>5
  <2> QED
    BY <2>1, <2>2
<1> QED
  BY <1>4, <1>5, <1>6, <1>7 DEF RegsInv, w

LEMMA ForgetInFields ==
    ASSUME NEW st, LibType(st)
    PROVE  LET w == ForgetIn(st)
           IN  /\ LibType(w) /\ w.next = st.next /\ Live(w) = {}
               /\ w.table = Restrict(st.table, {})
               /\ w.map = st.map /\ Valid(w) = Valid(st)
<1> DEFINE w == ForgetIn(st)
<1>1. /\ DOMAIN w = {"table", "next", "cfg", "bound", "map"}
      /\ w.table = Restrict(st.table, {}) /\ w.next = st.next
      /\ w.cfg = st.cfg /\ w.bound = st.bound /\ w.map = st.map
  BY DEF LibType, ForgetIn
<1> HIDE DEF w
<1>2. Live(w) = {}
  BY <1>1 DEF Live, Restrict
<1>3. Valid(w) = Valid(st)
  BY <1>1 DEF Valid
<1>4. LibType(w)
  <2>1. w.table = Restrict(w.table, Live(w))
    BY <1>1 DEF Restrict, Live
  <2> QED
    BY <1>1, <1>2, <2>1 DEF LibType
<1> QED
  BY <1>1, <1>2, <1>3, <1>4 DEF w

=============================================================================
