------------------------------ MODULE FuncMem ------------------------------
(***************************************************************************)
(* Memory that an untrusted library allocates through the main call        *)
(* interface (ufuncmem.c): malloc, realloc and free run in the trusted     *)
(* area, which records every block under the library's current name space  *)
(* and grants it with a bound. pop_cross takes the bounds of the current   *)
(* name space back when a call into the library returns.                   *)
(*                                                                         *)
(* One library, called from the trusted area and called back through it.   *)
(* The bounds are the table LibBounds implements: handles that are live    *)
(* and what they grant. Jump registers are left to CrossCall.              *)
(***************************************************************************)
EXTENDS Bounds, SequencesExt

CONSTANTS
    Funcs,          \* the name spaces (func) of the library
    Bases,          \* the addresses malloc may return, all above 0
    Lengths,        \* the sizes of blocks
    HeapArea,       \* the addresses of the heap
    FrameRequests,  \* the three regions cross_call grants to the library
    OtherRequests,  \* regions the trusted program grants on its own account
    Chunk,          \* MAX_BOUNS: records a name space starts and grows with
    MaxHandles,     \* bound on the handles given out: stands for INT_MAX
    MaxNodes,       \* bound on the name spaces created
    MaxUnderflow,   \* bound on how far bound_num falls below 0
    MaxDepth        \* bound on the calls pending in the library

ASSUME ChunkAssumption == Chunk \in Nat \ {0}
ASSUME LimitsAssumption ==
    MaxHandles \in Nat /\ MaxNodes \in Nat /\ MaxUnderflow \in Nat
        /\ MaxDepth \in Nat

\* malloc aligns blocks to more than a granule, and they end before the end of
\* the address space. Blocks of no bytes are left out: realloc may free them.
ASSUME BlocksAssumption ==
    /\ Bases \subseteq Addrs \ {0} /\ Lengths \subseteq Nat \ {0}
    /\ \A b \in Bases : b % Grain = 0
    /\ \A b \in Bases, len \in Lengths :
          b .. b + len - 1 \subseteq HeapArea /\ b + len + Grain <= AddrSpace

\* No region granted otherwise has a granule of the heap in it.
ASSUME RequestsAssumption ==
    /\ FrameRequests \in [1 .. 3 -> [perm : Cfg, lo : Addrs, hi : Addrs]]
    /\ OtherRequests \subseteq [perm : Cfg, lo : Addrs, hi : Addrs]
    /\ \A req \in Range(FrameRequests) \cup OtherRequests, a \in HeapArea :
          ~ Within(a, RoundedEntry(req).bound)

VARIABLES
    granted,    \* handle -> entry (bounds_table)
    next,       \* the next handle (available_handle)
    heap,       \* base -> length of the blocks malloc has given out
    nodes,      \* the func_mem nodes, in the order of their creation
    nxt, prv,   \* the links of the nodes; 0 is the list head func_man
    current,    \* the node namespace_func points to, 0 for NULL
    search,     \* what set_global_func_man looks for and where it is
    cross,      \* the handles of each pending call into the library
    mode        \* running, searching the list, dead, or aborted by pop_cross

vars == <<granted, next, heap, nodes, nxt, prv, current, search, cross, mode>>
lists == <<nxt, prv, current, search>>

Live == DOMAIN granted
Node == 1 .. MaxNodes
Without(f, S) == Restrict(f, DOMAIN f \ S)
With(f, x, y) == [z \in DOMAIN f \cup {x} |-> IF z = x THEN y ELSE f[z]]

NoSearch == [func |-> "none", at |-> 0]

EmptyRecord == [addr |-> 0, length |-> 0, handler |-> 0]
EmptyRecords == [i \in 1 .. Chunk |-> EmptyRecord]

Init ==
    /\ granted = [h \in {} |-> 0]
    /\ next = 0
    /\ heap = [b \in {} |-> 0]
    /\ nodes = <<>>
    /\ nxt = [n \in {0} \cup Node |-> 0]
    /\ prv = [n \in {0} \cup Node |-> 0]
    /\ current = 0
    /\ search = NoSearch
    /\ cross = <<>>
    /\ mode = "run"

-----------------------------------------------------------------------------
(***************************************************************************)
(* set_global_func_man: walk the list for the name space, make a node when *)
(* there is none, and append the node to the list in either case.          *)
(***************************************************************************)
SetStart(f) ==
    /\ mode = "run"
    /\ search' = [func |-> f, at |-> nxt[0]]
    /\ mode' = "search"
    /\ UNCHANGED <<granted, next, heap, nodes, nxt, prv, current, cross>>

SetStep ==
    /\ mode = "search"
    /\ search.at # 0
    /\ nodes[search.at].func # search.func
    /\ search' = [search EXCEPT !.at = nxt[search.at]]
    /\ UNCHANGED <<granted, next, heap, nodes, nxt, prv, current, cross, mode>>

\* Mutant of AddTail: the last node is linked past the new one.
AddTailPast(n) ==
    LET last == prv[0]
    IN  /\ prv' = [prv EXCEPT ![0] = n, ![n] = last]
        /\ nxt' = [nxt EXCEPT ![n] = 0, ![last] = n + 1]

\* The four assignments of _list_add, in their order.
AddTail(n) ==
    LET last == prv[0]
    IN  /\ prv' = [prv EXCEPT ![0] = n, ![n] = last]
        /\ nxt' = [nxt EXCEPT ![n] = 0, ![last] = n]

SetFound ==
    /\ mode = "search"
    /\ search.at # 0
    /\ nodes[search.at].func = search.func
    /\ AddTail(search.at)
    /\ current' = search.at
    /\ search' = NoSearch
    /\ mode' = "run"
    /\ UNCHANGED <<granted, next, heap, nodes, cross>>

SetMissed ==
    /\ mode = "search"
    /\ search.at = 0
    /\ Len(nodes) < MaxNodes
    /\ nodes' = Append(nodes, [ func    |-> search.func,
                                records |-> EmptyRecords,
                                num     |-> 0 ])
    /\ AddTail(Len(nodes) + 1)
    /\ current' = Len(nodes) + 1
    /\ search' = NoSearch
    /\ mode' = "run"
    /\ UNCHANGED <<granted, next, heap, cross>>

-----------------------------------------------------------------------------
(***************************************************************************)
(* The calls of the library that handle_lib_mem intercepts.                *)
(***************************************************************************)
InLibrary == mode = "run" /\ cross # <<>>

\* The records of the current name space; without one there is none to find.
Records == IF current = 0 THEN <<>> ELSE nodes[current].records

\* The process ends: a failed assertion, or a NULL pointer is used.
Ends(how) ==
    /\ mode' = how
    /\ UNCHANGED <<granted, next, heap, nodes, lists, cross>>

RecordsAt(records, a) == {i \in DOMAIN records : records[i].addr = a}
FirstAt(records, a) ==
    CHOOSE i \in RecordsAt(records, a) :
        \A j \in RecordsAt(records, a) : i <= j

BlockEntry(base, len) ==
    RoundedEntry([perm |-> {"R", "W"}, lo |-> base, hi |-> base + len])

\* Mutant of Grown: _expan_bound clears the table from its start.
GrownCleared ==
    IF current # 0 /\ nodes[current].num = Len(Records)
    THEN EmptyRecords \o EmptyRecords
    ELSE Records

\* bound_num is compared with bound_max before the new block is counted.
Grown ==
    IF current # 0 /\ nodes[current].num = Len(Records)
    THEN Records \o EmptyRecords
    ELSE Records

(***************************************************************************)
(* Where malloc and realloc find room: away from the blocks that stay, by  *)
(* whole granules; realloc may also leave the block where it is.           *)
(***************************************************************************)
Apart(b, len, c, other) == RoundUp(b + len) <= c \/ RoundUp(c + other) <= b

Places(kept, len) == {b \in Bases : \A c \in kept : Apart(b, len, c, heap[c])}

FreeBases(len) == Places(DOMAIN heap, len)
MovedBases(a, len) == FreeBases(len) \cup ({a} \cap Places(DOMAIN heap \ {a}, len))

Malloc(len) ==
    /\ InLibrary
    /\ RecordsAt(Grown, 0) # {}
    /\ next < MaxHandles
    /\ \E base \in FreeBases(len) :
          /\ heap' = With(heap, base, len)
          /\ granted' = With(granted, next, BlockEntry(base, len))
          /\ nodes' = [nodes EXCEPT
                ![current].records =
                    [Grown EXCEPT ![FirstAt(Grown, 0)] =
                        [addr |-> base, length |-> len, handler |-> next]],
                ![current].num = @ + 1]
    /\ next' = next + 1
    /\ UNCHANGED <<lists, cross, mode>>

\* No name space, no memory, or no empty record although there should be one.
MallocDies(len) ==
    /\ InLibrary
    /\ FreeBases(len) = {} \/ RecordsAt(Grown, 0) = {}
    /\ Ends("dead")

\* Mutant of ReallocGrants: the new bound is released instead of the old one.
ReallocGrantsNew(old, base, len) == granted

\* What is granted once the old bound is released and the new one allocated.
ReallocGrants(old, base, len) ==
    With(Without(granted, {old}), next, BlockEntry(base, len))

(***************************************************************************)
(* realloc moves the block or leaves it; without a record for it the       *)
(* handler is written through NULL. A NULL argument is looked up like any  *)
(* other address, and empty records have address 0.                        *)
(***************************************************************************)
Realloc(a, len) ==
    /\ InLibrary
    /\ a \in DOMAIN heap \cup {0}
    /\ RecordsAt(Records, a) # {}
    /\ next < MaxHandles
    /\ LET i == FirstAt(Records, a) IN
       \E base \in MovedBases(a, len) :
          /\ heap' = With(Without(heap, {a}), base, len)
          /\ granted' = ReallocGrants(Records[i].handler, base, len)
          /\ nodes' = [nodes EXCEPT ![current].records[i] =
                        [addr |-> base, length |-> len, handler |-> next]]
    /\ next' = next + 1
    /\ UNCHANGED <<lists, cross, mode>>

ReallocDies(a, len) ==
    /\ InLibrary
    /\ a \in DOMAIN heap \cup {0}
    /\ RecordsAt(Records, a) = {} \/ MovedBases(a, len) = {}
    /\ Ends("dead")

Free(a) ==
    /\ InLibrary
    /\ RecordsAt(Records, a) # {}
    /\ nodes[current].num > - MaxUnderflow
    /\ LET i == FirstAt(Records, a) IN
          /\ granted' = Without(granted, {Records[i].handler})
          /\ nodes' = [nodes EXCEPT
                ![current].records[i] =
                    [addr |-> 0, length |-> 0, handler |-> -1],
                ![current].num = @ - 1]
    /\ heap' = Without(heap, {a})
    /\ UNCHANGED <<next, lists, cross, mode>>

FreeDies(a) ==
    /\ InLibrary
    /\ RecordsAt(Records, a) = {}
    /\ Ends("dead")

-----------------------------------------------------------------------------
(***************************************************************************)
(* The trusted program grants a region, calls the library (cross_call) and *)
(* has it return (pop_cross).                                              *)
(***************************************************************************)
OtherAlloc(req) ==
    /\ mode = "run"
    /\ cross = <<>>
    /\ next < MaxHandles
    /\ granted' = With(granted, next, RoundedEntry(req))
    /\ next' = next + 1
    /\ UNCHANGED <<heap, nodes, lists, cross, mode>>

CallIn ==
    /\ mode = "run"
    /\ Len(cross) < MaxDepth
    /\ next + 2 < MaxHandles
    /\ cross' = Append(cross, <<next, next + 1, next + 2>>)
    /\ granted' = [h \in Live \cup next .. next + 2 |->
                      IF h \in Live THEN granted[h]
                      ELSE RoundedEntry(FrameRequests[h - next + 1])]
    /\ next' = next + 3
    /\ UNCHANGED <<heap, nodes, lists, mode>>

\* Mutant of Delegated: empty records are not skipped.
DelegatedAll == {Records[i].handler : i \in DOMAIN Records}

\* The handles pop_cross finds in the records of the current name space; the
\* records keep them.
Delegated ==
    {Records[i].handler : i \in {j \in DOMAIN Records : Records[j].addr # 0}}

Popped == (Range(Last(cross)) \ {0}) \cup Delegated

PopCross ==
    /\ InLibrary
    /\ Popped \subseteq Live
    /\ granted' = Without(granted, Popped)
    /\ cross' = Front(cross)
    /\ UNCHANGED <<next, heap, nodes, lists, mode>>

PopAborts ==
    /\ InLibrary
    /\ ~ (Popped \subseteq Live)
    /\ Ends("aborted")

Next ==
    \/ \E f \in Funcs : SetStart(f)
    \/ SetStep
    \/ SetFound
    \/ SetMissed
    \/ \E len \in Lengths : Malloc(len)
    \/ \E len \in Lengths : MallocDies(len)
    \/ \E a \in Bases \cup {0}, len \in Lengths : Realloc(a, len)
    \/ \E a \in Bases \cup {0}, len \in Lengths : ReallocDies(a, len)
    \/ \E a \in Bases \cup {0} : Free(a)
    \/ \E a \in Bases \cup {0} : FreeDies(a)
    \/ \E req \in OtherRequests : OtherAlloc(req)
    \/ CallIn
    \/ PopCross
    \/ PopAborts

Spec == Init /\ [][Next]_vars

-----------------------------------------------------------------------------
Record == [ addr : {0} \cup Bases, length : {0} \cup Lengths,
            handler : -1 .. MaxHandles ]
FuncNode == [func : Funcs, records : Seq(Record), num : Int]

\* The type invariant.
TypeOK ==
    /\ granted \in [Live -> Entry] /\ Live \subseteq 0 .. next - 1
    /\ next \in 0 .. MaxHandles
    /\ heap \in [DOMAIN heap -> Lengths] /\ DOMAIN heap \subseteq Bases
    /\ nodes \in Seq(FuncNode) /\ Len(nodes) <= MaxNodes
    /\ nxt \in [{0} \cup Node -> 0 .. Len(nodes)]
    /\ prv \in [{0} \cup Node -> 0 .. Len(nodes)]
    /\ current \in 0 .. Len(nodes)
    /\ search \in [func : Funcs \cup {"none"}, at : 0 .. Len(nodes)]
    /\ mode = "search" => search.func \in Funcs
    /\ cross \in Seq([1 .. 3 -> 0 .. MaxHandles])
    /\ mode \in {"run", "search", "dead", "aborted"}

\* No bound outlives its block: whatever part of the heap the library may
\* access lies in a block that malloc has given out and free has not taken back,
\* through moves by realloc, reuse of an address, returns and repeated calls.
HeapConfined ==
    \A h \in Live, a \in HeapArea, k \in Kinds :
        Covers(granted[h], a, k) =>
            \E b \in DOMAIN heap : b <= a /\ a < RoundUp(b + heap[b])

Usable(b) ==
    \E h \in Live : \A a \in b .. b + heap[b] - 1, k \in Kinds :
        Covers(granted[h], a, k)

\* A block the library may use stays usable, all of it, until it is freed or a
\* call into the library returns: no operation on another block, another name
\* space or the table of records takes it away.
UsableUntilReturn ==
    [][\A b \in DOMAIN heap :
          Usable(b) /\ b \in DOMAIN heap' /\ ~ PopCross => Usable(b)']_vars

\* The blocks whose record has outlived their bound.
Stranded ==
    {b \in DOMAIN heap : \E n \in DOMAIN nodes :
        \E i \in RecordsAt(nodes[n].records, b) :
            nodes[n].records[i].handler \notin Live}

\* The assertions of pop_cross fail only for a block of the current name space
\* that an earlier return left behind: frees, moves, NULL arguments and calls in
\* between take no bound from a pending call and none from a record in use.
AbortsOnlyStranded ==
    [][ /\ PopAborts => \E i \in DOMAIN Records : Records[i].addr \in Stranded
        /\ ~ PopCross => Stranded' \subseteq Stranded ]_vars

\* The nodes in the order of the list, round to its head and on.
Forward[i \in 0 .. MaxNodes + 1] == IF i = 0 THEN 0 ELSE nxt[Forward[i - 1]]

\* Every node is in the list, once, and the links back undo those forward.
Linked ==
    /\ {Forward[i] : i \in 1 .. Len(nodes)} = DOMAIN nodes
    /\ Forward[Len(nodes) + 1] = 0
    /\ \A n \in {0} \cup DOMAIN nodes : prv[nxt[n]] = n

\* Only setting a name space a second time breaks the list: a search, a new node
\* and whatever the blocks do keep every name space in reach, once.
ListKept == [][~ SetFound /\ Linked => Linked']_vars

Counted ==
    \A n \in DOMAIN nodes :
        nodes[n].num = Cardinality(DOMAIN nodes[n].records)
                       - Cardinality(RecordsAt(nodes[n].records, 0))

NullArgument == Free(0) \/ \E len \in Lengths : Realloc(0, len)

\* Only a NULL argument puts bound_num out of step with the records in use: in
\* every other operation, growing and reusing gaps included, it stays the number
\* that decides when the table must grow.
CountKept == [][~ NullArgument /\ Counted => Counted']_vars

(***************************************************************************)
(* What comments and assertions say and the code does not do.              *)
(***************************************************************************)

\* ufuncmem.h:9, "The malloc area; if addr == 0, invalid": an operation on the
\* memory of the library takes back no bound but the one of a record in use.
OnlyOwnRevoked ==
    [][\A a \in Bases \cup {0} :
          Free(a) => Live \ Live' \subseteq Delegated]_vars

\* ufuncmem.c:82, "Find a place to set": a name space that is not full has an
\* empty record.
PlaceFound ==
    \A n \in DOMAIN nodes :
        nodes[n].num # Len(nodes[n].records) =>
            RecordsAt(nodes[n].records, 0) # {}

\* cross.c:90: the assertion on the bounds of delegated memory holds.
ReturnAsserted == [][~ PopAborts]_vars

\* ufuncmem.c:47, "Set and found a func mem": a name space that was set before
\* is found again.
FoundAgain ==
    \A m, n \in DOMAIN nodes : nodes[m].func = nodes[n].func => m = n

=============================================================================
