-------------------------- MODULE UnboundedBounds --------------------------
(***************************************************************************)
(* What LibDASICS promises its caller (README.md, "libbounds"): as many    *)
(* bounds as the caller likes, each named by a handle. An access of        *)
(* untrusted code succeeds exactly when a live grant covers it, at once    *)
(* and whatever the registers hold; when none does, the default handler    *)
(* skips the instruction. There are no registers here.                     *)
(***************************************************************************)
EXTENDS Bounds, Functions, FiniteSets

CONSTANTS
    Requests,   \* the (perm, lo, hi) triples callers pass
    HandleArgs, \* the integers callers pass as a handle
    OSGrants    \* the entries the operating system leaves for registration

VARIABLES
    granted,    \* handle -> entry, the live grants
    next,       \* the next handle
    residue,    \* what the next registration takes over
    registered, \* is the library between register and unregister?
    access,     \* the access untrusted code is making, or its outcome
    retval      \* what the last call returned

vars == <<granted, next, residue, registered, access, retval>>

Outcomes == {"none", "pending", "performed", "skipped"}
NoAccess == [addr |-> 0, kind |-> "R", outcome |-> "none"]

Init ==
    /\ granted = [h \in {} |-> 0]
    /\ next = 0
    /\ residue = OSGrants
    /\ registered = FALSE
    /\ access = NoAccess
    /\ retval = 0

Pending == access.outcome = "pending"

\* The caller runs: registered, and no access of untrusted code trapped.
Ready == registered /\ ~ Pending

-----------------------------------------------------------------------------
(***************************************************************************)
(* Registration takes over exactly what was left in the registers, under   *)
(* handles nobody holds.                                                   *)
(***************************************************************************)
Register ==
    /\ ~ registered
    /\ registered' = TRUE
    /\ residue' = {}
    /\ next' \in Nat
    /\ \A h \in DOMAIN granted' : next <= h /\ h < next'
    /\ residue = {granted'[h] : h \in DOMAIN granted'}
    /\ UNCHANGED <<access, retval>>

\* Some of the grants survive the library in the hardware.
Unregister ==
    /\ Ready
    /\ registered' = FALSE
    /\ granted' = Restrict(granted, {})
    /\ residue' \subseteq {granted[h] : h \in DOMAIN granted}
    /\ UNCHANGED <<next, access, retval>>

Alloc(req) ==
    /\ Ready
    /\ granted' = [h \in DOMAIN granted \cup {next} |->
                      IF h = next THEN RoundedEntry(req) ELSE granted[h]]
    /\ next' = next + 1
    /\ retval' = next
    /\ UNCHANGED <<residue, registered, access>>

Free(h) ==
    /\ Ready
    /\ granted' = Restrict(granted, DOMAIN granted \ {h})
    /\ retval' = IF h \in DOMAIN granted THEN 0 ELSE -1
    /\ UNCHANGED <<next, residue, registered, access>>

\* dasics_libcfg_free_all promises no more than to remove grants.
FreeAll ==
    /\ Ready
    /\ DOMAIN granted' \subseteq DOMAIN granted
    /\ granted' = Restrict(granted, DOMAIN granted')
    /\ retval' = 0
    /\ UNCHANGED <<next, residue, registered, access>>

Get(h) ==
    /\ Ready
    /\ retval' = IF h \in DOMAIN granted THEN CfgBits(granted[h].priv) ELSE 0
    /\ UNCHANGED <<granted, next, residue, registered, access>>

Issue(a, k) ==
    /\ Ready
    /\ access' = [addr |-> a, kind |-> k, outcome |-> "pending"]
    /\ UNCHANGED <<granted, next, residue, registered, retval>>

Authorised == \E h \in DOMAIN granted :
                  Covers(granted[h], access.addr, access.kind)

Answer ==
    /\ Pending
    /\ access' = [access EXCEPT !.outcome = IF Authorised THEN "performed"
                                            ELSE "skipped"]
    /\ UNCHANGED <<granted, next, residue, registered, retval>>

Next ==
    \/ Register
    \/ Unregister
    \/ \E req \in Requests : Alloc(req)
    \/ \E h \in HandleArgs : Free(h)
    \/ \E h \in HandleArgs : Get(h)
    \/ FreeAll
    \/ \E a \in Addrs, k \in Kinds : Issue(a, k)
    \/ Answer

Spec == Init /\ [][Next]_vars

=============================================================================
