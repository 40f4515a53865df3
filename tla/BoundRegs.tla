----------------------------- MODULE BoundRegs -----------------------------
(***************************************************************************)
(* The bound registers of a hart and the table behind them, as operators   *)
(* on one state record                                                     *)
(*                                                                         *)
(*    table  handle -> entry, in the order of the handles (bounds_table)   *)
(*    next   the next handle to give out (available_handle)                *)
(*    cfg    the flag bits of each register (CSR 0x880)                    *)
(*    bound  the bounds of each register (CSRs 0x890 .. 0x8af)             *)
(*    map    register -> handle it is believed to hold                     *)
(*           (dlibcfg_handle_map)                                          *)
(*                                                                         *)
(* Every function of udasics.c that touches this state is one operator     *)
(* here, so that LibBounds and CrossCall run the same code.                *)
(***************************************************************************)
EXTENDS Bounds, Functions, FiniteSets

CONSTANT NumSlots       \* DASICS_LIBCFG_WIDTH: 16 bound registers

ASSUME NumSlotsAssumption == NumSlots \in Nat \ {0}

Slots == 0 .. NumSlots - 1

\* The static initialiser {-1} sets only the first element of the map.
InitialMap == [s \in Slots |-> IF s = 0 THEN -1 ELSE 0]

Live(st) == DOMAIN st.table
Valid(st) == {s \in Slots : "V" \in st.cfg[s]}
Held(st, s) == [bound |-> st.bound[s], priv |-> st.cfg[s]]

-----------------------------------------------------------------------------
(***************************************************************************)
(* Who may access what: the hardware looks at the registers, the fault     *)
(* handler at the table.                                                   *)
(***************************************************************************)
HwAllows(st, a, k) == \E s \in Slots : Covers(Held(st, s), a, k)

\* Mutant of Grants: one matching bit is taken for both (as the unused
\* dasics_bound_checker does).
GrantsAnyBit(st, a, k) ==
    {h \in Live(st) : /\ Within(a, st.table[h].bound)
                      /\ {"V", k} \cap st.table[h].priv # {}}

Grants(st, a, k) == {h \in Live(st) : Covers(st.table[h], a, k)}

\* HASH_ITER follows insertion order, and handles are given out in order.
FirstGrant(st, a, k) ==
    {h \in Grants(st, a, k) : \A g \in Grants(st, a, k) : h <= g}

-----------------------------------------------------------------------------
\* Write an entry and its handle into register v.
WriteSlot(st, v, h, entry) ==
    [ st EXCEPT !.cfg[v] = entry.priv,
                !.bound[v] = entry.bound,
                !.map[v] = h ]

(***************************************************************************)
(* dasics_libcfg_alloc: the lowest register whose V bit is clear or, when  *)
(* there is none, any register (rand() % 16).                              *)
(***************************************************************************)
AllocVictims(st) ==
    LET unused == Slots \ Valid(st)
    IN  IF unused = {} THEN Slots
        ELSE {s \in unused : \A t \in unused : s <= t}

PutEntry(table, h, entry) ==
    [g \in DOMAIN table \cup {h} |-> IF g = h THEN entry ELSE table[g]]

\* Mutant of AllocIn: the handle counter is not advanced.
AllocInSameHandle(st, req, v) ==
    LET entry == RoundedEntry(req)
    IN  WriteSlot([st EXCEPT !.table = PutEntry(st.table, st.next, entry)],
                  v, st.next, entry)

AllocIn(st, req, v) ==
    LET entry == RoundedEntry(req)
    IN  WriteSlot([st EXCEPT !.table = PutEntry(st.table, st.next, entry),
                             !.next = st.next + 1],
                  v, st.next, entry)

\* Mutants of LoadIn: the map is not told; the flags are not written.
LoadInMapStale(st, h, v) == WriteSlot(st, v, st.map[v], st.table[h])
LoadInNoFlags(st, h, v) ==
    WriteSlot(st, v, h, [st.table[h] EXCEPT !.priv = st.cfg[v]])

\* dasics_ldst_checker: bring a live entry into any register.
LoadIn(st, h, v) == WriteSlot(st, v, h, st.table[h])

(***************************************************************************)
(* dasics_libcfg_free of every handle of H: the entry goes and, of the     *)
(* registers the map gives to the handle, the first one loses its V bit    *)
(* (and nothing else) and is forgotten.                                    *)
(***************************************************************************)
FirstHolder(st, s) == \A t \in Slots : st.map[t] = st.map[s] => s <= t

ReleasedSlots(st, H) ==
    {s \in Slots : st.map[s] \in H \cap Live(st) /\ FirstHolder(st, s)}

\* Mutant of ReleaseIn: the entry goes and the register stays valid.
ReleaseInKeepsValid(st, H) ==
    [st EXCEPT !.table = Restrict(st.table, Live(st) \ H)]

ReleaseIn(st, H) ==
    LET gone == ReleasedSlots(st, H)
    IN  [ st EXCEPT
            !.table = Restrict(st.table, Live(st) \ H),
            !.cfg = [s \in Slots |-> IF s \in gone THEN st.cfg[s] \ {"V"}
                                     ELSE st.cfg[s]],
            !.map = [s \in Slots |-> IF s \in gone THEN -1 ELSE st.map[s]] ]

\* Mutant of MappedHandles: 0 is taken for an empty element.
MappedNonZero(st) == {st.map[s] : s \in Slots} \ {-1, 0}

\* dasics_libcfg_free_all frees what the map mentions, and only that.
MappedHandles(st) == {st.map[s] : s \in Slots} \ {-1}

(***************************************************************************)
(* register_udasics: every register found valid becomes a new entry; the   *)
(* registers are visited in order.                                         *)
(***************************************************************************)
Rank(st, s) == Cardinality({t \in Valid(st) : t < s})

\* Mutant of AdoptIn: the map keeps its old contents.
AdoptInMapStale(st) ==
    LET handle == [s \in Slots |-> st.next + Rank(st, s)]
        owner(h) == CHOOSE s \in Valid(st) : handle[s] = h
        adopted == {handle[s] : s \in Valid(st)}
    IN  [ st EXCEPT
            !.table = [h \in adopted |-> Held(st, owner(h))],
            !.next = st.next + Cardinality(Valid(st)) ]

AdoptIn(st) ==
    LET handle == [s \in Slots |-> st.next + Rank(st, s)]
        adopted == {handle[s] : s \in Valid(st)}
    IN  [ st EXCEPT
            !.table = [h \in Live(st) \cup adopted |->
                          IF h \in adopted
                          THEN Held(st, CHOOSE s \in Valid(st) : handle[s] = h)
                          ELSE st.table[h]],
            !.next = st.next + Cardinality(Valid(st)),
            !.map = [s \in Slots |-> IF s \in Valid(st) THEN handle[s]
                                     ELSE st.map[s]] ]

\* unregister_udasics: the entries go, the registers and the map stay.
ForgetIn(st) == [st EXCEPT !.table = Restrict(st.table, {})]

-----------------------------------------------------------------------------
(***************************************************************************)
(* What is true of the registers and the table between two calls. The      *)
(* modules that use these operators state them of their own variables.     *)
(***************************************************************************)
LibType(st) ==
    /\ DOMAIN st = {"table", "next", "cfg", "bound", "map"}
    /\ st.next \in Nat
    /\ st.table = Restrict(st.table, Live(st))     \* it is a function
    /\ \A h \in Live(st) : h \in Nat /\ h < st.next /\ st.table[h] \in Entry
    /\ st.cfg \in [Slots -> Cfg]
    /\ st.bound \in [Slots -> Bound]
    /\ st.map \in [Slots -> Int]

\* A valid register holds the live entry of the handle the map gives to it.
ValidBacked(st) ==
    \A s \in Valid(st) :
        st.map[s] \in Live(st) /\ st.table[st.map[s]] = Held(st, s)

\* No handle is in two valid registers.
ValidUnique(st) ==
    \A s, t \in Valid(st) : st.map[s] = st.map[t] => s = t

\* A register that is not valid is forgotten (-1) or was never used (0).
MapClean(st) == \A s \in Slots \ Valid(st) : st.map[s] \in {-1, 0}

(***************************************************************************)
(* The map of a register that was never used reads 0, which is also a      *)
(* handle. While handle 0 is live and such a register exists, nothing was  *)
(* ever evicted, and handle 0 is in a lower register than any of them: the *)
(* search of dasics_libcfg_free meets the right register first.            *)
(***************************************************************************)
Unused(st) == {s \in Slots \ Valid(st) : st.map[s] = 0}
Resident(st, h) == \E s \in Valid(st) : st.map[s] = h

ZeroFirst(st) ==
    0 \in Live(st) /\ Unused(st) # {} =>
        /\ \A h \in Live(st) : Resident(st, h)
        /\ \A s \in Valid(st), u \in Unused(st) : st.map[s] = 0 => s < u

RegsInv(st) ==
    ValidBacked(st) /\ ValidUnique(st) /\ MapClean(st) /\ ZeroFirst(st)

=============================================================================
