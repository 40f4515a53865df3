----------------------------- MODULE LibBounds -----------------------------
(***************************************************************************)
(* The libbound interface of LibDASICS on one hart (udasics.c): trusted    *)
(* code calls it between register_udasics and unregister_udasics, and      *)
(* untrusted code makes accesses that the registers let through or that    *)
(* trap into dasics_ufault_handler, which may refill a register and retry. *)
(* Nothing else runs while an access is trapped: traps are synchronous.    *)
(***************************************************************************)
EXTENDS BoundRegs

CONSTANTS
    Requests,   \* the [perm, lo, hi] records callers pass to libcfg_alloc
    HandleArgs, \* the integers callers pass as a handle
    OSEntries,  \* register -> entry the kernel left valid before registration
    MaxHandles  \* handles given out: stands for INT_MAX

ASSUME RequestsAssumption ==
    Requests \subseteq [perm : Cfg, lo : Addrs, hi : Addrs]
ASSUME HandleArgsAssumption == HandleArgs \subseteq Int
ASSUME OSEntriesAssumption ==
    /\ DOMAIN OSEntries \subseteq Slots
    /\ \A s \in DOMAIN OSEntries :
          OSEntries[s] \in Entry /\ "V" \in OSEntries[s].priv

VARIABLES
    lib,        \* the registers, the table and the map (see BoundRegs)
    registered, \* register_udasics ran, unregister_udasics did not yet
    access,     \* the access of untrusted code: pending, or its outcome
    retval      \* the value the last call returned

vars == <<lib, registered, access, retval>>

Outcomes == {"none", "pending", "performed", "skipped"}
NoAccess == [addr |-> 0, kind |-> "R", outcome |-> "none"]

InitialLib ==
    [ table |-> [h \in {} |-> 0],
      next  |-> 0,
      cfg   |-> [s \in Slots |-> IF s \in DOMAIN OSEntries
                                 THEN OSEntries[s].priv ELSE {}],
      bound |-> [s \in Slots |-> IF s \in DOMAIN OSEntries
                                 THEN OSEntries[s].bound
                                 ELSE [lo |-> 0, hi |-> 0]],
      map   |-> InitialMap ]

Init ==
    /\ lib = InitialLib
    /\ registered = FALSE
    /\ access = NoAccess
    /\ retval = 0

Pending == access.outcome = "pending"

\* Callers register first and once, as test/main.c does. udasics.c checks neither:
\* that the interface is not called before is the caller's part of the contract.
Ready == registered /\ ~ Pending

-----------------------------------------------------------------------------
(***************************************************************************)
(* Calls of trusted code.                                                  *)
(***************************************************************************)
Register ==
    /\ ~ registered
    /\ lib.next < MaxHandles
    /\ lib' = AdoptIn(lib)
    /\ registered' = TRUE
    /\ UNCHANGED <<access, retval>>

Unregister ==
    /\ Ready
    /\ lib' = ForgetIn(lib)
    /\ registered' = FALSE
    /\ UNCHANGED <<access, retval>>

Alloc(req) ==
    /\ Ready
    /\ lib.next < MaxHandles
    /\ \E v \in AllocVictims(lib) : lib' = AllocIn(lib, req, v)
    /\ retval' = lib.next
    /\ UNCHANGED <<registered, access>>

\* A negative handle is turned away like any other that is not in the table.
Free(h) ==
    /\ Ready
    /\ lib' = IF h \in Live(lib) THEN ReleaseIn(lib, {h}) ELSE lib
    /\ retval' = IF h \in Live(lib) THEN 0 ELSE -1
    /\ UNCHANGED <<registered, access>>

FreeAll ==
    /\ Ready
    /\ lib' = ReleaseIn(lib, MappedHandles(lib))
    /\ retval' = 0
    /\ UNCHANGED <<registered, access>>

Get(h) ==
    /\ Ready
    /\ retval' = IF h \in Live(lib) THEN CfgBits(lib.table[h].priv) ELSE 0
    /\ UNCHANGED <<lib, registered, access>>

-----------------------------------------------------------------------------
(***************************************************************************)
(* Untrusted code, the hardware and the fault handler.                     *)
(***************************************************************************)
Issue(a, k) ==
    /\ Ready
    /\ access' = [addr |-> a, kind |-> k, outcome |-> "pending"]
    /\ UNCHANGED <<lib, registered, retval>>

HwPerform ==
    /\ Pending
    /\ HwAllows(lib, access.addr, access.kind)
    /\ access' = [access EXCEPT !.outcome = "performed"]
    /\ UNCHANGED <<lib, registered, retval>>

Faults == Pending /\ ~ HwAllows(lib, access.addr, access.kind)

\* The checker finds an entry and writes it over a random register; the
\* handler returns and the instruction is retried.
Refill ==
    /\ Faults
    /\ \E h \in FirstGrant(lib, access.addr, access.kind), v \in Slots :
          lib' = LoadIn(lib, h, v)
    /\ UNCHANGED <<registered, access, retval>>

\* The checker finds nothing: the default load and store fault handlers step
\* over the instruction.
Skip ==
    /\ Faults
    /\ Grants(lib, access.addr, access.kind) = {}
    /\ access' = [access EXCEPT !.outcome = "skipped"]
    /\ UNCHANGED <<lib, registered, retval>>

Resolve == HwPerform \/ Refill \/ Skip

-----------------------------------------------------------------------------
Next ==
    \/ Register
    \/ Unregister
    \/ \E req \in Requests : Alloc(req)
    \/ \E h \in HandleArgs : Free(h)
    \/ \E h \in HandleArgs : Get(h)
    \/ FreeAll
    \/ \E a \in Addrs, k \in Kinds : Issue(a, k)
    \/ Resolve

Spec == Init /\ [][Next]_vars

\* The hardware finishes an instruction or traps, and the handler runs at once.
LiveSpec == Spec /\ WF_vars(Resolve)

-----------------------------------------------------------------------------
\* The type invariant: handles in the table were given out, what the registers
\* and the table hold are entries.
TypeOK ==
    /\ LibType(lib)
    /\ registered \in BOOLEAN
    /\ access \in [addr : Addrs, kind : Kinds, outcome : Outcomes]
    /\ retval \in Int

\* While the library is registered, every valid register holds, bit for bit,
\* the live entry that dlibcfg_handle_map names for it, and no two registers
\* hold the same: an eviction, a refill or a free never leaves a register whose
\* bounds nobody can revoke, nor a second copy that dasics_libcfg_free, which
\* stops at the first, would leave behind.
InStep == registered => ValidBacked(lib) /\ ValidUnique(lib)

\* dasics_libcfg_free_all leaves no register valid, whatever the map holds for
\* registers that were never used.
FreeAllClears == [][FreeAll => Valid(lib)' = {}]_vars

\* Once a bound is freed, what the hardware lets through is covered by the
\* bounds still live: no other register still carries the freed one.
FreeRevokes ==
    [][\A h \in HandleArgs : Free(h) =>
          \A a \in Addrs, k \in Kinds :
              HwAllows(lib, a, k)' => Grants(lib, a, k)' # {}]_vars

\* README.md:37 and the comment at udasics.c:415: a successful free releases
\* the registers of the bound, so no valid register is left that holds a freed
\* handle's bounds without a live entry behind it.
FreeClears ==
    [][\A h \in HandleArgs : Free(h) /\ h \in Live(lib) =>
          \A s \in Valid(lib) : lib.map[s] = h /\ Held(lib, s) = lib.table[h]
              => s \notin Valid(lib)']_vars

\* README.md:59: dasics_libcfg_get returns -1 for a handle it does not find.
GetReportsMissing ==
    [][\A h \in HandleArgs : Get(h) /\ h \notin Live(lib)
          => retval' = -1]_vars

\* The kernel leaves no register valid or leaves register 0 or 1 among them;
\* otherwise a map that reads 0 for unused registers misleads the free of
\* handle 0 (see FreeClears).
OSLow == DOMAIN OSEntries = {} \/ 0 \in DOMAIN OSEntries \/ 1 \in DOMAIN OSEntries

\* The invariant behind InStep. An unregistered library has no
\* entries and no access trapped; before the first handle the registers are as the kernel left them.
IInv ==
    /\ TypeOK
    /\ MapClean(lib)
    /\ Pending => registered
    /\ IF registered THEN RegsInv(lib) ELSE Live(lib) = {}
    /\ lib.next = 0 =>
          lib.map = InitialMap /\ Valid(lib) = DOMAIN OSEntries

\* Every access of untrusted code is answered: the fault handler does not
\* refill and retry for ever.
AccessAnswered == Pending ~> ~ Pending

\* The bounded registers implement the unbounded table: every access has the
\* outcome, and every call the result, that the table alone determines.
Promise == INSTANCE UnboundedBounds WITH
    granted <- lib.table,
    next <- lib.next,
    residue <- IF registered THEN {} ELSE {Held(lib, s) : s \in Valid(lib)},
    OSGrants <- {OSEntries[s] : s \in DOMAIN OSEntries}

Implements == Promise!Spec

=============================================================================
