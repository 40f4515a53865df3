--------------------------- MODULE FuncMemProofs ---------------------------
(***************************************************************************)
(* Theorems about FuncMem for any heap, sizes of blocks, numbers of name   *)
(* spaces and calls: the bounds of the library follow its blocks.          *)
(***************************************************************************)
EXTENDS FuncMem, WellFoundedInduction, FiniteSetTheorems, SequenceTheorems, TLAPS

-----------------------------------------------------------------------------
(***************************************************************************)
(* A non-empty set of natural numbers has a least element.                 *)
(***************************************************************************)
LEMMA NatMin ==
    ASSUME NEW T \in SUBSET Nat, T # {}
    PROVE  \E x \in T : \A y \in T : x <= y
<1> DEFINE R == OpToRel(<, Nat)
<1>1. \E x \in T : \A y \in T : ~ (<<y, x>> \in R)
  <2>1. IsWellFoundedOn(R, Nat)
    BY NatLessThanWellFounded
  <2> HIDE DEF R
  <2> QED
    BY <2>1, WFMin
<1>2. PICK x \in T : \A y \in T : ~ (<<y, x>> \in R)
  BY <1>1
<1>3. ASSUME NEW y \in T, y < x PROVE FALSE
  <2>1. <<y, x>> \in Nat \X Nat /\ <<y, x>>[1] < <<y, x>>[2]
    BY <1>3
  <2>2. <<y, x>> \in R
    BY <2>1 DEF OpToRel
  <2> QED
    BY <2>2, <1>2
<1> HIDE DEF R
<1>4. x \in Nat
  BY <1>2
<1>5. ASSUME NEW y \in T PROVE x <= y
  BY <1>3, <1>4
<1> QED
  BY <1>5

-----------------------------------------------------------------------------
(***************************************************************************)
(* The inductive invariant: which record a block and a bound belong to.    *)
(***************************************************************************)
\* A record in use, by its name space and its place there.
Used(n, i) ==
    /\ n \in 1 .. Len(nodes) /\ i \in 1 .. Len(nodes[n].records)
    /\ nodes[n].records[i].addr # 0

Addr(n, i) == nodes[n].records[i].addr
Handler(n, i) == nodes[n].records[i].handler

\* A record in use is that of a block, with a handle given out for it. Handle 0
\* is never one: it was given out before the library was first called.
RecordsBacked ==
    \A n, i \in Nat : Used(n, i) =>
        Addr(n, i) \in DOMAIN heap /\ Handler(n, i) \in 1 .. next - 1

\* No block and no handle has two records.
RecordsUnique ==
    \A n, i, m, j \in Nat :
        /\ Used(n, i) /\ Used(m, j)
        /\ Addr(n, i) = Addr(m, j) \/ Handler(n, i) = Handler(m, j)
        => n = m /\ i = j

OffHeap(entry) == \A a \in HeapArea : ~ Within(a, entry.bound)

\* A bound is away from the heap or is that of a block with a record.
BoundsOwned ==
    \A h \in Live :
        \/ OffHeap(granted[h])
        \/ \E n, i \in Nat :
              /\ Used(n, i) /\ Handler(n, i) = h
              /\ granted[h] = BlockEntry(Addr(n, i), heap[Addr(n, i)])

BlocksApart ==
    \A b, c \in DOMAIN heap : b # c => Apart(b, heap[b], c, heap[c])

\* A record that is not in use keeps no handle but 0, as calloc left it.
FreeUnheld ==
    \A n \in 1 .. Len(nodes) : \A i \in 1 .. Len(nodes[n].records) :
        Addr(n, i) = 0 => Handler(n, i) \in {-1, 0}

CalledBefore == cross # <<>> => next > 0

FuncInv ==
    /\ TypeOK /\ RecordsBacked /\ RecordsUnique /\ BoundsOwned /\ BlocksApart
    /\ FreeUnheld /\ CalledBefore

-----------------------------------------------------------------------------
(***************************************************************************)
(* Blocks and their bounds.                                                *)
(***************************************************************************)
LEMMA RoundedType ==
    ASSUME NEW req \in [perm : Cfg, lo : Addrs, hi : Addrs]
    PROVE  RoundedEntry(req) \in Entry
<1>1. \A x \in Nat : RoundDown(x) \in Nat
  BY GrainAssumption DEF RoundDown
<1>2. req.lo \in Nat /\ req.hi \in Nat /\ (req.hi + Grain - 1) % AddrSpace \in Nat
  BY GrainAssumption, AddrSpaceAssumption DEF Addrs
<1>3. RoundDown(req.lo) \in Nat /\ RoundUp(req.hi) \in Nat
  BY <1>1, <1>2 DEF RoundUp
<1>4. req.perm \cup {"V"} \in Cfg
  BY DEF Cfg, Flags
<1> QED
  BY <1>3, <1>4 DEF RoundedEntry, Entry, Bound

LEMMA BlockFacts ==
    ASSUME NEW b \in Bases, NEW len \in Lengths
    PROVE  /\ b \in Nat \ {0} /\ len \in Nat \ {0} /\ b \in HeapArea
           /\ RoundUp(b + len) \in Nat /\ b + len <= RoundUp(b + len)
           /\ BlockEntry(b, len) \in Entry
           /\ BlockEntry(b, len).bound.lo = b
           /\ BlockEntry(b, len).bound.hi = RoundUp(b + len)
           /\ BlockEntry(b, len).priv = {"R", "W", "V"}
<1>1. /\ b \in Nat \ {0} /\ len \in Nat \ {0} /\ b % Grain = 0
      /\ b + len + Grain <= AddrSpace
      /\ b .. b + len - 1 \subseteq HeapArea
  BY BlocksAssumption, AddrSpaceAssumption DEF Addrs
<1>2. Grain \in Nat \ {0} /\ AddrSpace \in Nat \ {0}
  BY GrainAssumption, AddrSpaceAssumption
<1>3. b \in HeapArea
  BY <1>1
<1>4. RoundUp(b + len) \in Nat /\ b + len <= RoundUp(b + len)
  <2> DEFINE x == b + len + Grain - 1
  <2>1. x \in 0 .. AddrSpace - 1
    BY <1>1, <1>2
  <2>2. x % AddrSpace = x
    BY <1>2, <2>1
  <2>3. x % Grain \in 0 .. Grain - 1
    BY <1>2, <2>1
  <2>4. RoundUp(b + len) = x - (x % Grain)
    BY <2>2 DEF RoundUp, RoundDown
  <2>5. x % Grain <= x
    BY <1>2, <2>1
  <2> HIDE DEF x
  <2>6. b + len = x - Grain + 1
    BY <1>1, <1>2 DEF x
  <2> QED
    BY <1>1, <1>2, <2>1, <2>3, <2>4, <2>5, <2>6
<1>5. /\ BlockEntry(b, len).bound.lo = b
      /\ BlockEntry(b, len).bound.hi = RoundUp(b + len)
      /\ BlockEntry(b, len).priv = {"R", "W", "V"}
  BY <1>1 DEF BlockEntry, RoundedEntry, RoundDown
<1>6. BlockEntry(b, len) \in Entry
  BY <1>1, <1>4 DEF BlockEntry, RoundedEntry, RoundDown, Entry, Bound, Cfg, Flags
<1> QED
  BY <1>1, <1>3, <1>4, <1>5, <1>6

\* A block's bound covers the block.
LEMMA BlockCovered ==
    ASSUME NEW b \in Bases, NEW len \in Lengths,
           NEW x \in b .. b + len - 1, NEW k \in Kinds
    PROVE  Covers(BlockEntry(b, len), x, k)
<1>1. /\ b \in Nat /\ len \in Nat /\ b + len <= RoundUp(b + len)
      /\ RoundUp(b + len) \in Nat
      /\ BlockEntry(b, len).bound.lo = b
      /\ BlockEntry(b, len).bound.hi = RoundUp(b + len)
      /\ BlockEntry(b, len).priv = {"R", "W", "V"}
  BY BlockFacts
<1> QED
  BY <1>1 DEF Covers, Within, Kinds

\* Blocks that are apart begin at different addresses, outside each other.
LEMMA ApartFacts ==
    ASSUME NEW b \in Bases, NEW len \in Lengths, NEW c \in Bases,
           NEW m \in Lengths, Apart(b, len, c, m)
    PROVE  b # c /\ ~ Within(b, BlockEntry(c, m).bound) /\ Apart(c, m, b, len)
<1>1. /\ b \in Nat /\ len \in Nat \ {0} /\ c \in Nat /\ m \in Nat \ {0}
      /\ b + len <= RoundUp(b + len) /\ RoundUp(b + len) \in Nat
      /\ c + m <= RoundUp(c + m) /\ RoundUp(c + m) \in Nat
      /\ BlockEntry(c, m).bound.lo = c
      /\ BlockEntry(c, m).bound.hi = RoundUp(c + m)
  BY BlockFacts
<1> QED
  BY <1>1 DEF Apart, Within

LEMMA WithoutFacts ==
    ASSUME NEW f, NEW S, NEW g, g = Without(f, S)
    PROVE  /\ DOMAIN g = DOMAIN f \ S
           /\ \A z \in DOMAIN f \ S : g[z] = f[z]
  BY DEF Without, Restrict

-----------------------------------------------------------------------------
(***************************************************************************)
(* The records.                                                            *)
(***************************************************************************)
LEMMA EmptyFacts ==
    /\ EmptyRecord \in Record /\ EmptyRecords \in Seq(Record)
    /\ Len(EmptyRecords) = Chunk
    /\ \A i \in 1 .. Chunk : EmptyRecords[i] = EmptyRecord
<1>1. Chunk \in Nat /\ 0 \in -1 .. MaxHandles
  BY ChunkAssumption, LimitsAssumption
<1>2. EmptyRecord \in Record
  BY <1>1 DEF EmptyRecord, Record
<1>3. EmptyRecords \in [1 .. Chunk -> Record]
  BY <1>2 DEF EmptyRecords
<1> QED
  BY <1>1, <1>2, <1>3, IsASeq, LenProperties DEF EmptyRecords

LEMMA FirstAtFacts ==
    ASSUME NEW records \in Seq(Record), NEW a, RecordsAt(records, a) # {}
    PROVE  /\ FirstAt(records, a) \in 1 .. Len(records)
           /\ records[FirstAt(records, a)].addr = a
<1>1. RecordsAt(records, a) \in SUBSET Nat
  BY LenProperties DEF RecordsAt
<1>2. \E i \in RecordsAt(records, a) : \A j \in RecordsAt(records, a) : i <= j
  BY <1>1, NatMin
<1>3. FirstAt(records, a) \in RecordsAt(records, a)
  BY <1>2 DEF FirstAt
<1> QED
  BY <1>3, LenProperties DEF RecordsAt

\* The nodes, as the steps below use them.
LEMMA NodeFacts ==
    ASSUME TypeOK
    PROVE  /\ Len(nodes) \in Nat /\ DOMAIN nodes = 1 .. Len(nodes)
           /\ \A n \in 1 .. Len(nodes) :
                 /\ nodes[n] \in FuncNode /\ nodes[n].records \in Seq(Record)
                 /\ Len(nodes[n].records) \in Nat
                 /\ DOMAIN nodes[n].records = 1 .. Len(nodes[n].records)
                 /\ \A i \in 1 .. Len(nodes[n].records) :
                       nodes[n].records[i] \in Record
<1>1. /\ Len(nodes) \in Nat /\ DOMAIN nodes = 1 .. Len(nodes)
      /\ \A n \in 1 .. Len(nodes) : nodes[n] \in FuncNode
  BY LenProperties, ElementOfSeq DEF TypeOK
<1>2. ASSUME NEW n \in 1 .. Len(nodes)
      PROVE  /\ nodes[n].records \in Seq(Record)
             /\ Len(nodes[n].records) \in Nat
             /\ DOMAIN nodes[n].records = 1 .. Len(nodes[n].records)
             /\ \A i \in 1 .. Len(nodes[n].records) :
                   nodes[n].records[i] \in Record
  <2>1. nodes[n].records \in Seq(Record)
    BY <1>1 DEF FuncNode
  <2> QED
    BY <2>1, LenProperties, ElementOfSeq
<1> QED
  BY <1>1, <1>2

\* A record found is one of the current name space.
LEMMA FoundRecord ==
    ASSUME TypeOK, NEW a, RecordsAt(Records, a) # {}
    PROVE  /\ current \in 1 .. Len(nodes) /\ Records = nodes[current].records
           /\ FirstAt(Records, a) \in 1 .. Len(Records)
           /\ Records[FirstAt(Records, a)].addr = a
<1>1. current # 0
  BY DEF Records, RecordsAt
<1>2. current \in 1 .. Len(nodes) /\ Records = nodes[current].records
  BY <1>1, NodeFacts DEF TypeOK, Records
<1> QED
  BY <1>2, NodeFacts, FirstAtFacts

LEMMA FoundPlace ==
    ASSUME TypeOK, RecordsAt(Grown, 0) # {}
    PROVE  /\ current \in 1 .. Len(nodes) /\ Records = nodes[current].records
           /\ Grown \in Seq(Record) /\ Len(Records) <= Len(Grown)
           /\ \A i \in 1 .. Len(Records) : Grown[i] = Records[i]
           /\ \A i \in 1 .. Len(Grown) : i > Len(Records) => Grown[i] = EmptyRecord
           /\ FirstAt(Grown, 0) \in 1 .. Len(Grown)
           /\ Grown[FirstAt(Grown, 0)].addr = 0
<1>1. current # 0
  BY DEF Records, RecordsAt, Grown
<1>2. current \in 1 .. Len(nodes) /\ Records = nodes[current].records
  BY <1>1, NodeFacts DEF TypeOK, Records
<1>3. Records \in Seq(Record) /\ Len(Records) \in Nat
  BY <1>2, NodeFacts
<1>4. /\ Grown \in Seq(Record) /\ Len(Records) <= Len(Grown)
      /\ \A i \in 1 .. Len(Records) : Grown[i] = Records[i]
      /\ \A i \in 1 .. Len(Grown) : i > Len(Records) => Grown[i] = EmptyRecord
  <2>1. CASE Grown = Records
    BY <1>3, <2>1
  <2>2. CASE Grown = Records \o EmptyRecords
    <3>1. /\ Grown \in Seq(Record) /\ Len(Grown) = Len(Records) + Chunk
          /\ \A i \in 1 .. Len(Records) + Chunk :
                Grown[i] = IF i <= Len(Records) THEN Records[i]
                           ELSE EmptyRecords[i - Len(Records)]
      BY <1>3, <2>2, EmptyFacts, ConcatProperties
    <3>2. \A i \in 1 .. Len(Grown) : i > Len(Records) => Grown[i] = EmptyRecord
      <4> SUFFICES ASSUME NEW i \in 1 .. Len(Grown), i > Len(Records)
                   PROVE  Grown[i] = EmptyRecord
        OBVIOUS
      <4>1. i - Len(Records) \in 1 .. Chunk
        BY <1>3, <3>1, ChunkAssumption
      <4> QED
        BY <1>3, <3>1, <4>1, EmptyFacts
    <3> QED
      BY <1>3, <3>1, <3>2, ChunkAssumption
  <2> QED
    BY <2>1, <2>2 DEF Grown
<1> QED
  BY <1>2, <1>4, FirstAtFacts

-----------------------------------------------------------------------------
(***************************************************************************)
(* A step of malloc, realloc or free writes one record of one name space,  *)
(* in a table that may have grown by empty records.                        *)
(***************************************************************************)
Recorded(c, k, r) ==
    /\ Len(nodes) \in Nat /\ Len(nodes') = Len(nodes)
    /\ c \in 1 .. Len(nodes)
    /\ k \in 1 .. Len(nodes'[c].records) /\ nodes'[c].records[k] = r
    /\ \A n \in 1 .. Len(nodes) :
          /\ Len(nodes[n].records) \in Nat /\ Len(nodes'[n].records) \in Nat
          /\ Len(nodes[n].records) <= Len(nodes'[n].records)
          /\ \A i \in 1 .. Len(nodes'[n].records) : n # c \/ i # k =>
                nodes'[n].records[i] = IF i <= Len(nodes[n].records)
                                       THEN nodes[n].records[i]
                                       ELSE EmptyRecord

LEMMA RecordedFacts ==
    ASSUME NEW c, NEW k, NEW r, Recorded(c, k, r)
    PROVE  /\ Used(c, k)' <=> r.addr # 0
           /\ Addr(c, k)' = r.addr /\ Handler(c, k)' = r.handler
           /\ c \in Nat /\ k \in Nat
           /\ \A n, i \in Nat : n # c \/ i # k =>
                 /\ Used(n, i)' <=> Used(n, i)
                 /\ Used(n, i) => /\ Addr(n, i)' = Addr(n, i)
                                  /\ Handler(n, i)' = Handler(n, i)
<1>1. /\ c \in 1 .. Len(nodes) /\ Len(nodes') = Len(nodes)
      /\ k \in 1 .. Len(nodes'[c].records) /\ nodes'[c].records[k] = r
      /\ c \in Nat /\ k \in Nat
  BY DEF Recorded
<1>2. /\ Used(c, k)' <=> r.addr # 0
      /\ Addr(c, k)' = r.addr /\ Handler(c, k)' = r.handler
  BY <1>1 DEF Used, Addr, Handler
<1>3. ASSUME NEW n \in Nat, NEW i \in Nat, n # c \/ i # k
      PROVE  /\ Used(n, i)' <=> Used(n, i)
             /\ Used(n, i) => /\ Addr(n, i)' = Addr(n, i)
                              /\ Handler(n, i)' = Handler(n, i)
  <2>1. CASE n \in 1 .. Len(nodes)
    <3>1. /\ Len(nodes[n].records) \in Nat /\ Len(nodes'[n].records) \in Nat
          /\ Len(nodes[n].records) <= Len(nodes'[n].records)
          /\ \A j \in 1 .. Len(nodes'[n].records) : n # c \/ j # k =>
                nodes'[n].records[j] = IF j <= Len(nodes[n].records)
                                       THEN nodes[n].records[j]
                                       ELSE EmptyRecord
      BY <2>1 DEF Recorded
    <3> QED
      BY <1>1, <1>3, <2>1, <3>1 DEF Used, Addr, Handler, EmptyRecord
  <2>2. CASE n \notin 1 .. Len(nodes)
    BY <1>1, <2>2 DEF Used
  <2> QED
    BY <2>1, <2>2
<1> QED
  BY <1>1, <1>2, <1>3

\* Writing a record leaves the records not in use without handles.
LEMMA RecordedUnheld ==
    ASSUME NEW c, NEW k, NEW r, Recorded(c, k, r), FreeUnheld,
           r.addr = 0 => r.handler = -1
    PROVE  FreeUnheld'
<1> SUFFICES ASSUME NEW n \in 1 .. Len(nodes),
                    NEW i \in 1 .. Len(nodes'[n].records),
                    nodes'[n].records[i].addr = 0
             PROVE  nodes'[n].records[i].handler \in {-1, 0}
  BY DEF FreeUnheld, Addr, Handler, Recorded
<1>1. CASE n = c /\ i = k
  BY <1>1 DEF Recorded
<1>2. CASE n # c \/ i # k
  <2>1. nodes'[n].records[i] = IF i <= Len(nodes[n].records)
                               THEN nodes[n].records[i] ELSE EmptyRecord
    BY <1>2 DEF Recorded
  <2>2. CASE i \in 1 .. Len(nodes[n].records)
    BY <2>1, <2>2 DEF FreeUnheld, Addr, Handler
  <2>3. CASE i > Len(nodes[n].records)
    BY <2>1, <2>3 DEF EmptyRecord, Recorded
  <2> QED
    BY <2>2, <2>3 DEF Recorded
<1> QED
  BY <1>1, <1>2

(***************************************************************************)
(* The block at a, if any, makes room for one at base, with a new bound;   *)
(* or it is given back. The record and the bound of a are known.           *)
(***************************************************************************)
\* Record k of name space c is that of the block at a with handle old, or it is
\* not in use.
Replaces(c, k, a, old) ==
    IF Used(c, k) THEN a = Addr(c, k) /\ old = Handler(c, k)
    ELSE a = 0 /\ old \in {-1, 0}

Puts(c, k, a, old, base, len) ==
    /\ Recorded(c, k, [addr |-> base, length |-> len, handler |-> next])
    /\ Replaces(c, k, a, old)
    /\ base \in Bases /\ len \in Lengths
    /\ \A b \in DOMAIN heap \ {a} : Apart(base, len, b, heap[b])
    /\ heap' = With(Without(heap, {a}), base, len)
    /\ granted' = With(Without(granted, {old}), next, BlockEntry(base, len))
    /\ next' = next + 1 /\ next > 0

Takes(c, k, a, old) ==
    /\ Recorded(c, k, [addr |-> 0, length |-> 0, handler |-> -1])
    /\ Replaces(c, k, a, old)
    /\ heap' = Without(heap, {a})
    /\ granted' = Without(granted, {old})
    /\ next' = next

\* What this does to the heap and the bounds, block by block.
Replaced(a, old, base, len) ==
    /\ DOMAIN heap' = (DOMAIN heap \ {a}) \cup {base}
    /\ heap'[base] = len /\ base \notin DOMAIN heap \ {a}
    /\ \A b \in DOMAIN heap \ {a} : heap'[b] = heap[b]
    /\ Live' = (Live \ {old}) \cup {next} /\ next \notin Live
    /\ granted'[next] = BlockEntry(base, len)
    /\ \A h \in Live \ {old} : granted'[h] = granted[h]

LEMMA PutsFields ==
    ASSUME TypeOK, NEW c, NEW k, NEW a, NEW old, NEW base, NEW len,
           Puts(c, k, a, old, base, len)
    PROVE  Replaced(a, old, base, len)
<1>1. \A b \in DOMAIN heap : b \in Bases /\ heap[b] \in Lengths
  BY DEF TypeOK
<1>2. base \notin DOMAIN heap \ {a}
  BY <1>1, ApartFacts DEF Puts
<1>3. next \notin Live
  BY DEF TypeOK
<1> DEFINE kept == Without(heap, {a})
           left == Without(granted, {old})
<1>4. /\ DOMAIN kept = DOMAIN heap \ {a}
      /\ \A b \in DOMAIN heap \ {a} : kept[b] = heap[b]
  BY WithoutFacts
<1>5. /\ DOMAIN left = Live \ {old}
      /\ \A h \in Live \ {old} : left[h] = granted[h]
  BY WithoutFacts DEF Live
<1>6. heap' = With(kept, base, len)
  BY DEF Puts
<1>7. granted' = With(left, next, BlockEntry(base, len))
  BY DEF Puts
<1> HIDE DEF kept, left
<1>8. /\ DOMAIN heap' = DOMAIN kept \cup {base} /\ heap'[base] = len
      /\ \A b \in DOMAIN kept \ {base} : heap'[b] = kept[b]
  BY <1>6 DEF With
<1>9. /\ DOMAIN granted' = DOMAIN left \cup {next}
      /\ granted'[next] = BlockEntry(base, len)
      /\ \A h \in DOMAIN left \ {next} : granted'[h] = left[h]
  BY <1>7 DEF With
<1> QED
  BY <1>2, <1>3, <1>4, <1>5, <1>8, <1>9 DEF Live, Replaced

LEMMA TakesFields ==
    ASSUME TypeOK, NEW c, NEW k, NEW a, NEW old, Takes(c, k, a, old)
    PROVE  /\ DOMAIN heap' = DOMAIN heap \ {a}
           /\ \A b \in DOMAIN heap \ {a} : heap'[b] = heap[b]
           /\ Live' = Live \ {old}
           /\ \A h \in Live \ {old} : granted'[h] = granted[h]
<1>1. heap' = Without(heap, {a})
  BY DEF Takes
<1>2. granted' = Without(granted, {old})
  BY DEF Takes
<1>3. DOMAIN heap' = DOMAIN heap \ {a}
      /\ \A b \in DOMAIN heap \ {a} : heap'[b] = heap[b]
  BY <1>1 DEF Without, Restrict
<1>4. DOMAIN granted' = DOMAIN granted \ {old}
      /\ \A h \in DOMAIN granted \ {old} : granted'[h] = granted[h]
  BY <1>2 DEF Without, Restrict
<1> QED
  BY <1>3, <1>4 DEF Live

\* The other records in use are those of other blocks, with other handles.
LEMMA OtherRecords ==
    ASSUME FuncInv, NEW c, NEW k, NEW r, Recorded(c, k, r), NEW a, NEW old,
           Replaces(c, k, a, old), NEW n \in Nat, NEW i \in Nat,
           n # c \/ i # k, Used(n, i)
    PROVE  /\ Addr(n, i) \in DOMAIN heap \ {a}
           /\ Handler(n, i) \in 1 .. next - 1 /\ Handler(n, i) # old
<1>1. /\ Addr(n, i) \in DOMAIN heap /\ Handler(n, i) \in 1 .. next - 1
      /\ Addr(n, i) # 0
  BY DEF FuncInv, RecordsBacked, Used, Addr
<1>2. c \in Nat /\ k \in Nat
  BY RecordedFacts
<1>3. CASE Used(c, k)
  <2>1. Addr(n, i) # Addr(c, k) /\ Handler(n, i) # Handler(c, k)
    BY <1>2, <1>3 DEF FuncInv, RecordsUnique
  <2> QED
    BY <1>1, <1>3, <2>1 DEF Replaces
<1>4. CASE ~ Used(c, k)
  BY <1>1, <1>4 DEF Replaces
<1> QED
  BY <1>3, <1>4

LEMMA PutsInv ==
    ASSUME FuncInv, NEW c, NEW k, NEW a, NEW old, NEW base, NEW len,
           Puts(c, k, a, old, base, len)
    PROVE  RecordsBacked' /\ RecordsUnique' /\ BoundsOwned' /\ BlocksApart'
           /\ FreeUnheld'
<1> DEFINE r == [addr |-> base, length |-> len, handler |-> next]
<1>0. TypeOK /\ Puts(c, k, a, old, base, len)
  BY DEF FuncInv
<1>1. /\ Recorded(c, k, r) /\ Replaces(c, k, a, old)
      /\ base \in Bases /\ len \in Lengths
      /\ \A b \in DOMAIN heap \ {a} : Apart(base, len, b, heap[b])
      /\ next' = next + 1 /\ next \in Nat \ {0}
  BY DEF Puts, FuncInv, TypeOK
<1>2. /\ DOMAIN heap' = (DOMAIN heap \ {a}) \cup {base}
      /\ heap'[base] = len /\ base \notin DOMAIN heap \ {a}
      /\ \A b \in DOMAIN heap \ {a} : heap'[b] = heap[b]
      /\ Live' = (Live \ {old}) \cup {next} /\ next \notin Live
      /\ granted'[next] = BlockEntry(base, len)
      /\ \A h \in Live \ {old} : granted'[h] = granted[h]
  <2>1. Replaced(a, old, base, len)
    BY <1>0, PutsFields
  <2> QED
    BY <2>1 DEF Replaced
<1>4. /\ Used(c, k)' /\ Addr(c, k)' = base /\ Handler(c, k)' = next
      /\ c \in Nat /\ k \in Nat
  <2>1. base # 0 /\ r.addr = base /\ r.handler = next
    BY <1>1, BlockFacts
  <2>2. Recorded(c, k, r)
    BY <1>1
  <2> HIDE DEF r
  <2> QED
    BY <2>1, <2>2, RecordedFacts
<1>5. ASSUME NEW n \in Nat, NEW i \in Nat, n # c \/ i # k
      PROVE  /\ Used(n, i)' <=> Used(n, i)
             /\ Used(n, i) => /\ Addr(n, i)' = Addr(n, i)
                              /\ Handler(n, i)' = Handler(n, i)
                              /\ Addr(n, i) \in DOMAIN heap \ {a}
                              /\ Handler(n, i) \in 1 .. next - 1
                              /\ Handler(n, i) # old
  <2> HIDE DEF r
  <2>1. Used(n, i) => /\ Addr(n, i) \in DOMAIN heap \ {a}
                      /\ Handler(n, i) \in 1 .. next - 1
                      /\ Handler(n, i) # old
    BY <1>1, <1>5, OtherRecords
  <2> QED
    BY <1>1, <1>5, <2>1, RecordedFacts
<1> HIDE DEF r
<1>6. RecordsBacked'
  <2> SUFFICES ASSUME NEW n \in Nat, NEW i \in Nat, Used(n, i)'
               PROVE  /\ Addr(n, i)' \in DOMAIN heap'
                      /\ Handler(n, i)' \in 1 .. next' - 1
    BY DEF RecordsBacked
  <2>1. CASE n = c /\ i = k
    BY <1>1, <1>2, <1>4, <2>1
  <2>2. CASE n # c \/ i # k
    BY <1>1, <1>2, <1>5, <2>2
  <2> QED
    BY <2>1, <2>2
<1>7. RecordsUnique'
  <2> SUFFICES ASSUME NEW n \in Nat, NEW i \in Nat, NEW m \in Nat, NEW j \in Nat,
                      Used(n, i)', Used(m, j)',
                      Addr(n, i)' = Addr(m, j)' \/ Handler(n, i)' = Handler(m, j)'
               PROVE  n = m /\ i = j
    BY DEF RecordsUnique
  <2>1. CASE n = c /\ i = k
    BY <1>1, <1>2, <1>4, <1>5, <2>1
  <2>2. CASE m = c /\ j = k
    BY <1>1, <1>2, <1>4, <1>5, <2>2
  <2>3. CASE (n # c \/ i # k) /\ (m # c \/ j # k)
    <3>1. /\ Used(n, i) /\ Addr(n, i)' = Addr(n, i)
          /\ Handler(n, i)' = Handler(n, i)
      BY <1>5, <2>3
    <3>2. /\ Used(m, j) /\ Addr(m, j)' = Addr(m, j)
          /\ Handler(m, j)' = Handler(m, j)
      BY <1>5, <2>3
    <3> QED
      BY <3>1, <3>2 DEF FuncInv, RecordsUnique
  <2> QED
    BY <2>1, <2>2, <2>3
<1>8. BoundsOwned'
  <2> SUFFICES ASSUME NEW h \in Live'
               PROVE  \/ OffHeap(granted'[h])
                      \/ \E n, i \in Nat :
                            /\ Used(n, i)' /\ Handler(n, i)' = h
                            /\ granted'[h] = BlockEntry(Addr(n, i)',
                                                        heap'[Addr(n, i)'])
    BY DEF BoundsOwned, OffHeap
  <2>1. CASE h = next
    BY <1>2, <1>2, <1>4, <2>1
  <2>2. CASE h # next
    <3>1. h \in Live /\ h # old /\ granted'[h] = granted[h]
      BY <1>2, <2>2
    <3>2. SUFFICES ASSUME ~ OffHeap(granted[h])
                   PROVE  \E n, i \in Nat :
                            /\ Used(n, i)' /\ Handler(n, i)' = h
                            /\ granted'[h] = BlockEntry(Addr(n, i)',
                                                        heap'[Addr(n, i)'])
      BY <3>1
    <3>3. PICK n \in Nat, i \in Nat :
             /\ Used(n, i) /\ Handler(n, i) = h
             /\ granted[h] = BlockEntry(Addr(n, i), heap[Addr(n, i)])
      BY <3>1, <3>2 DEF FuncInv, BoundsOwned
    <3>4. n # c \/ i # k
      BY <1>1, <3>1, <3>3 DEF Replaces
    <3>5. /\ Used(n, i)' /\ Addr(n, i)' = Addr(n, i) /\ Handler(n, i)' = h
          /\ Addr(n, i) \in DOMAIN heap \ {a}
      BY <1>5, <3>3, <3>4
    <3>6. heap'[Addr(n, i)] = heap[Addr(n, i)]
      BY <1>2, <3>5
    <3> QED
      BY <3>1, <3>3, <3>5, <3>6
  <2> QED
    BY <2>1, <2>2
<1>9. BlocksApart'
  <2> SUFFICES ASSUME NEW b \in DOMAIN heap', NEW d \in DOMAIN heap', b # d
               PROVE  Apart(b, heap'[b], d, heap'[d])
    BY DEF BlocksApart, Apart, RoundUp, RoundDown
  <2>1. CASE b = base
    BY <1>1, <1>2, <2>1
  <2>2. CASE d = base
    <3>1. b \in DOMAIN heap \ {a} /\ b \in Bases /\ heap[b] \in Lengths
          /\ heap'[b] = heap[b]
      BY <1>2, <2>2 DEF FuncInv, TypeOK
    <3> QED
      BY <1>1, <1>2, <2>2, <3>1, ApartFacts
  <2>3. CASE b # base /\ d # base
    BY <1>2, <2>3 DEF FuncInv, BlocksApart
  <2> QED
    BY <2>1, <2>2, <2>3
<1>10. FreeUnheld'
  <2>1. r.addr # 0
    BY <1>1, BlockFacts DEF r
  <2> QED
    BY <1>1, <2>1, RecordedUnheld DEF FuncInv
<1> QED
  BY <1>6, <1>7, <1>8, <1>9, <1>10

LEMMA TakesInv ==
    ASSUME FuncInv, NEW c, NEW k, NEW a, NEW old, Takes(c, k, a, old)
    PROVE  RecordsBacked' /\ RecordsUnique' /\ BoundsOwned' /\ BlocksApart'
           /\ FreeUnheld'
<1> DEFINE r == [addr |-> 0, length |-> 0, handler |-> -1]
<1>1. Recorded(c, k, r) /\ Replaces(c, k, a, old) /\ next' = next
      /\ r.addr = 0 /\ r.handler = -1
  BY DEF Takes
<1>2. /\ DOMAIN heap' = DOMAIN heap \ {a}
      /\ \A b \in DOMAIN heap \ {a} : heap'[b] = heap[b]
      /\ Live' = Live \ {old}
      /\ \A h \in Live \ {old} : granted'[h] = granted[h]
  BY TakesFields DEF FuncInv
<1> HIDE DEF r
<1>3. ~ Used(c, k)'
  BY <1>1, RecordedFacts
<1>4. ASSUME NEW n \in Nat, NEW i \in Nat, n # c \/ i # k
      PROVE  /\ Used(n, i)' <=> Used(n, i)
             /\ Used(n, i) => /\ Addr(n, i)' = Addr(n, i)
                              /\ Handler(n, i)' = Handler(n, i)
                              /\ Addr(n, i) \in DOMAIN heap \ {a}
                              /\ Handler(n, i) \in 1 .. next - 1
  <2>1. Used(n, i) => /\ Addr(n, i) \in DOMAIN heap \ {a}
                      /\ Handler(n, i) \in 1 .. next - 1
    BY <1>1, <1>4, OtherRecords
  <2> QED
    BY <1>1, <1>4, <2>1, RecordedFacts
<1>5. ASSUME NEW n \in Nat, NEW i \in Nat, Used(n, i)'
      PROVE  /\ Used(n, i) /\ Addr(n, i)' = Addr(n, i)
             /\ Handler(n, i)' = Handler(n, i)
             /\ Addr(n, i) \in DOMAIN heap'
             /\ Handler(n, i) \in 1 .. next - 1
  <2>1. n # c \/ i # k
    BY <1>3, <1>5
  <2> QED
    BY <1>2, <1>4, <1>5, <2>1
<1>6. RecordsBacked'
  BY <1>1, <1>5 DEF RecordsBacked
<1>7. RecordsUnique'
  <2> SUFFICES ASSUME NEW n \in Nat, NEW i \in Nat, NEW m \in Nat, NEW j \in Nat,
                      Used(n, i)', Used(m, j)',
                      Addr(n, i)' = Addr(m, j)' \/ Handler(n, i)' = Handler(m, j)'
               PROVE  n = m /\ i = j
    BY DEF RecordsUnique
  <2> QED
    BY <1>5 DEF FuncInv, RecordsUnique
<1>8. BoundsOwned'
  <2> SUFFICES ASSUME NEW h \in Live', ~ OffHeap(granted'[h])
               PROVE  \E n, i \in Nat :
                          /\ Used(n, i)' /\ Handler(n, i)' = h
                          /\ granted'[h] = BlockEntry(Addr(n, i)',
                                                      heap'[Addr(n, i)'])
    BY DEF BoundsOwned, OffHeap
  <2>1. h \in Live /\ h # old /\ granted'[h] = granted[h]
    BY <1>2
  <2>2. PICK n \in Nat, i \in Nat :
           /\ Used(n, i) /\ Handler(n, i) = h
           /\ granted[h] = BlockEntry(Addr(n, i), heap[Addr(n, i)])
    BY <2>1 DEF FuncInv, BoundsOwned
  <2>3. n # c \/ i # k
    BY <1>1, <2>1, <2>2 DEF Replaces
  <2>4. /\ Used(n, i)' /\ Addr(n, i)' = Addr(n, i) /\ Handler(n, i)' = h
        /\ Addr(n, i) \in DOMAIN heap \ {a}
    BY <1>4, <2>2, <2>3
  <2>5. heap'[Addr(n, i)] = heap[Addr(n, i)]
    BY <1>2, <2>4
  <2> QED
    BY <2>1, <2>2, <2>4, <2>5
<1>9. BlocksApart'
  BY <1>2 DEF FuncInv, BlocksApart, Apart, RoundUp, RoundDown
<1>10. FreeUnheld'
  BY <1>1, RecordedUnheld DEF FuncInv
<1> QED
  BY <1>6, <1>7, <1>8, <1>9, <1>10

-----------------------------------------------------------------------------
(***************************************************************************)
(* The types of what such a step writes.                                   *)
(***************************************************************************)
GrantsType ==
    /\ granted \in [Live -> Entry] /\ Live \subseteq 0 .. next - 1
    /\ next \in 0 .. MaxHandles
    /\ heap \in [DOMAIN heap -> Lengths] /\ DOMAIN heap \subseteq Bases

LEMMA PutsType ==
    ASSUME TypeOK, NEW c, NEW k, NEW a, NEW old, NEW base, NEW len,
           Puts(c, k, a, old, base, len), next < MaxHandles
    PROVE  GrantsType'
<1>1. /\ base \in Bases /\ len \in Lengths /\ next' = next + 1
      /\ next \in 0 .. MaxHandles /\ MaxHandles \in Nat
      /\ heap' = With(Without(heap, {a}), base, len)
      /\ granted' = With(Without(granted, {old}), next, BlockEntry(base, len))
  BY LimitsAssumption DEF Puts, TypeOK
<1>2. Replaced(a, old, base, len)
  BY PutsFields
<1>3. heap' \in [DOMAIN heap' -> Lengths] /\ DOMAIN heap' \subseteq Bases
  <2>1. \A b \in DOMAIN heap' : heap'[b] \in Lengths /\ b \in Bases
    BY <1>1, <1>2 DEF Replaced, TypeOK
  <2>2. heap' = [b \in DOMAIN heap' |-> heap'[b]]
    BY <1>1 DEF With
  <2> QED
    BY <2>1, <2>2
<1>4. granted' \in [Live' -> Entry]
  <2>1. BlockEntry(base, len) \in Entry
    BY <1>1, BlockFacts
  <2>2. \A h \in DOMAIN granted' : granted'[h] \in Entry
    BY <1>2, <2>1 DEF Replaced, TypeOK, Live
  <2>3. granted' = [h \in DOMAIN granted' |-> granted'[h]]
    BY <1>1 DEF With
  <2> QED
    BY <2>2, <2>3 DEF Live
<1>5. Live' \subseteq 0 .. next' - 1
  <2>1. Live' = (Live \ {old}) \cup {next}
    BY <1>2 DEF Replaced
  <2>2. Live \subseteq 0 .. next - 1
    BY DEF TypeOK
  <2>3. next \in Nat /\ next' = next + 1
    BY <1>1
  <2>4. ASSUME NEW h \in Live' PROVE h \in 0 .. next
    BY <2>1, <2>2, <2>3
  <2>5. next' - 1 = next
    BY <2>3
  <2> QED
    BY <2>4, <2>5
<1>6. next' \in 0 .. MaxHandles
  BY <1>1
<1> QED
  BY <1>3, <1>4, <1>5, <1>6 DEF GrantsType

LEMMA TakesType ==
    ASSUME TypeOK, NEW c, NEW k, NEW a, NEW old, Takes(c, k, a, old)
    PROVE  GrantsType'
<1>1. /\ heap' = Without(heap, {a}) /\ granted' = Without(granted, {old})
      /\ next' = next
  BY DEF Takes
<1>2. /\ DOMAIN heap' = DOMAIN heap \ {a}
      /\ \A b \in DOMAIN heap \ {a} : heap'[b] = heap[b]
      /\ Live' = Live \ {old}
      /\ \A h \in Live \ {old} : granted'[h] = granted[h]
  BY TakesFields
<1>3. heap' \in [DOMAIN heap' -> Lengths] /\ DOMAIN heap' \subseteq Bases
  <2>1. \A b \in DOMAIN heap' : heap'[b] \in Lengths /\ b \in Bases
    BY <1>2 DEF TypeOK
  <2>2. heap' = [b \in DOMAIN heap' |-> heap'[b]]
    BY <1>1 DEF Without, Restrict
  <2> QED
    BY <2>1, <2>2
<1>4. granted' \in [Live' -> Entry]
  <2>1. \A h \in DOMAIN granted' : granted'[h] \in Entry
    BY <1>2 DEF TypeOK, Live
  <2>2. granted' = [h \in DOMAIN granted' |-> granted'[h]]
    BY <1>1 DEF Without, Restrict
  <2> QED
    BY <2>1, <2>2 DEF Live
<1> QED
  BY <1>1, <1>2, <1>3, <1>4 DEF GrantsType, TypeOK, Live

\* One name space gets a table with record k written and a new count.
WritesNode(R, k, r, num) ==
    nodes' = [nodes EXCEPT ![current] =
        [ func    |-> nodes[current].func,
          records |-> [R EXCEPT ![k] = r],
          num     |-> num ]]

\* R is the table of the current name space, which may have grown.
GrownFrom(R) ==
    /\ R \in Seq(Record) /\ Len(Records) <= Len(R)
    /\ \A i \in 1 .. Len(R) :
          R[i] = IF i <= Len(Records) THEN Records[i] ELSE EmptyRecord

LEMMA WrittenNode ==
    ASSUME TypeOK, current \in 1 .. Len(nodes), NEW R, GrownFrom(R),
           NEW k \in 1 .. Len(R), NEW r \in Record, NEW num \in Int,
           WritesNode(R, k, r, num)
    PROVE  /\ Recorded(current, k, r)
           /\ nodes' \in Seq(FuncNode) /\ Len(nodes') = Len(nodes)
           /\ nodes'[current].num = num
           /\ \A n \in 1 .. Len(nodes) : n # current => nodes'[n] = nodes[n]
<1>1. /\ Len(nodes) \in Nat /\ nodes \in Seq(FuncNode)
      /\ nodes[current] \in FuncNode /\ Records = nodes[current].records
      /\ \A n \in 1 .. Len(nodes) : Len(nodes[n].records) \in Nat
  BY NodeFacts DEF TypeOK, Records
<1> DEFINE w == [ func    |-> nodes[current].func,
                  records |-> [R EXCEPT ![k] = r],
                  num     |-> num ]
<1>2. /\ [R EXCEPT ![k] = r] \in Seq(Record)
      /\ Len([R EXCEPT ![k] = r]) = Len(R) /\ Len(R) \in Nat
      /\ [R EXCEPT ![k] = r][k] = r
      /\ \A i \in 1 .. Len(R) : i # k => [R EXCEPT ![k] = r][i] = R[i]
  BY ExceptSeq, LenProperties DEF GrownFrom
<1>3. w \in FuncNode /\ w.records = [R EXCEPT ![k] = r] /\ w.num = num
  BY <1>1, <1>2 DEF FuncNode
<1>4. nodes' = [nodes EXCEPT ![current] = w]
  BY DEF WritesNode
<1> HIDE DEF w
<1>5. /\ nodes' \in Seq(FuncNode) /\ Len(nodes') = Len(nodes)
      /\ nodes'[current] = w
      /\ \A n \in 1 .. Len(nodes) : n # current => nodes'[n] = nodes[n]
  BY <1>1, <1>3, <1>4, ExceptSeq, LenProperties
<1>6. ASSUME NEW n \in 1 .. Len(nodes)
      PROVE  /\ Len(nodes'[n].records) \in Nat
             /\ Len(nodes[n].records) <= Len(nodes'[n].records)
             /\ \A i \in 1 .. Len(nodes'[n].records) : n # current \/ i # k =>
                   nodes'[n].records[i] = IF i <= Len(nodes[n].records)
                                          THEN nodes[n].records[i]
                                          ELSE EmptyRecord
  <2>1. CASE n = current
    BY <1>1, <1>2, <1>3, <1>5, <2>1 DEF GrownFrom
  <2>2. CASE n # current
    BY <1>1, <1>5, <2>2
  <2> QED
    BY <2>1, <2>2
<1> QED
  BY <1>1, <1>2, <1>3, <1>5, <1>6 DEF Recorded

-----------------------------------------------------------------------------
(***************************************************************************)
(* malloc, realloc and free are such steps.                                *)
(***************************************************************************)
\* bound_num of the current name space changes by d, and no other.
CountsBy(d) ==
    /\ nodes'[current].num = nodes[current].num + d
    /\ \A n \in 1 .. Len(nodes) : n # current => nodes'[n].num = nodes[n].num

\* The node of the current name space, seen as a record.
LEMMA CurrentNode ==
    ASSUME TypeOK, current \in 1 .. Len(nodes)
    PROVE  /\ nodes[current] = [ func    |-> nodes[current].func,
                                 records |-> nodes[current].records,
                                 num     |-> nodes[current].num ]
           /\ nodes[current].num \in Int /\ Records = nodes[current].records
           /\ nodes = [n \in 1 .. Len(nodes) |-> nodes[n]]
<1>1. nodes[current] \in FuncNode /\ current # 0
  BY NodeFacts DEF TypeOK
<1>2. nodes = [n \in 1 .. Len(nodes) |-> nodes[n]]
  BY LenProperties DEF TypeOK
<1> QED
  BY <1>1, <1>2 DEF FuncNode, Records

LEMMA SameTable ==
    ASSUME TypeOK, current \in 1 .. Len(nodes)
    PROVE  GrownFrom(Records)
<1>1. Records \in Seq(Record) /\ Len(Records) \in Nat
  BY CurrentNode, NodeFacts
<1> QED
  BY <1>1 DEF GrownFrom

LEMMA MallocPuts ==
    ASSUME FuncInv, NEW len \in Lengths, Malloc(len)
    PROVE  /\ \E k \in Nat, base \in Bases : Puts(current, k, 0, -1, base, len)
           /\ nodes' \in Seq(FuncNode) /\ Len(nodes') = Len(nodes)
           /\ CountsBy(1)
           /\ next < MaxHandles /\ UNCHANGED <<lists, cross, mode>>
<1> DEFINE k == FirstAt(Grown, 0)
<1>1. /\ TypeOK /\ RecordsAt(Grown, 0) # {} /\ next < MaxHandles
      /\ next > 0 /\ next' = next + 1 /\ UNCHANGED <<lists, cross, mode>>
  BY DEF FuncInv, CalledBefore, Malloc, InLibrary
<1>2. /\ current \in 1 .. Len(nodes) /\ Records = nodes[current].records
      /\ k \in 1 .. Len(Grown) /\ Grown[k].addr = 0 /\ Grown \in Seq(Record)
      /\ Len(Records) <= Len(Grown)
      /\ \A i \in 1 .. Len(Records) : Grown[i] = Records[i]
      /\ \A i \in 1 .. Len(Grown) : i > Len(Records) => Grown[i] = EmptyRecord
  BY <1>1, FoundPlace
<1>3. PICK base \in FreeBases(len) :
         /\ heap' = With(heap, base, len)
         /\ granted' = With(granted, next, BlockEntry(base, len))
         /\ nodes' = [nodes EXCEPT
               ![current].records =
                   [Grown EXCEPT ![k] =
                       [addr |-> base, length |-> len, handler |-> next]],
               ![current].num = @ + 1]
  BY DEF Malloc
<1>4. /\ base \in Bases
      /\ \A b \in DOMAIN heap : Apart(base, len, b, heap[b])
  BY DEF FreeBases, Places
<1>5. Without(heap, {0}) = heap /\ Without(granted, {-1}) = granted
  <2>1. 0 \notin DOMAIN heap /\ heap = [b \in DOMAIN heap |-> heap[b]]
    BY <1>1, BlocksAssumption DEF TypeOK
  <2>2. -1 \notin DOMAIN granted /\ granted = [h \in DOMAIN granted |-> granted[h]]
    BY <1>1 DEF TypeOK, Live
  <2>3. DOMAIN heap \ {0} = DOMAIN heap /\ DOMAIN granted \ {-1} = DOMAIN granted
    BY <2>1, <2>2
  <2> QED
    BY <2>1, <2>2, <2>3 DEF Without, Restrict
<1> DEFINE r == [addr |-> base, length |-> len, handler |-> next]
<1>6. r \in Record
  <2>1. next \in -1 .. MaxHandles
    BY <1>1, LimitsAssumption DEF TypeOK
  <2> QED
    BY <1>4, <2>1 DEF Record
<1>7. GrownFrom(Grown)
  <2>1. Len(Records) \in Nat /\ Len(Grown) \in Nat
    BY <1>1, <1>2, NodeFacts
  <2> HIDE DEF k
  <2> QED
    BY <1>2, <2>1 DEF GrownFrom
<1>8. WritesNode(Grown, k, r, nodes[current].num + 1)
      /\ nodes[current].num + 1 \in Int
  <2> DEFINE R == [Grown EXCEPT ![k] = r]
  <2>1. nodes' = [nodes EXCEPT ![current].records = R,
                               ![current].num = @ + 1]
    BY <1>3
  <2> HIDE DEF R, k, r
  <2>2. /\ nodes[current] = [ func    |-> nodes[current].func,
                              records |-> nodes[current].records,
                              num     |-> nodes[current].num ]
        /\ nodes = [n \in 1 .. Len(nodes) |-> nodes[n]]
        /\ nodes[current].num \in Int
    BY <1>1, <1>2, CurrentNode
  <2>3. nodes' = [nodes EXCEPT ![current] =
                    [ func    |-> nodes[current].func,
                      records |-> R,
                      num     |-> nodes[current].num + 1 ]]
    BY <1>2, <2>1, <2>2
  <2> QED
    BY <2>2, <2>3 DEF WritesNode, R
<1>9. /\ Recorded(current, k, r)
      /\ nodes' \in Seq(FuncNode) /\ Len(nodes') = Len(nodes)
      /\ CountsBy(1)
  <2> HIDE DEF k, r
  <2> QED
    BY <1>1, <1>2, <1>6, <1>7, <1>8, WrittenNode DEF CountsBy
<1>10. Replaces(current, k, 0, -1)
  <2>1. ~ Used(current, k)
    BY <1>2 DEF Used
  <2> QED
    BY <2>1 DEF Replaces
<1>11. Puts(current, k, 0, -1, base, len) /\ k \in Nat
  <2>1. k \in Nat
    BY <1>2
  <2>2. /\ heap' = With(Without(heap, {0}), base, len)
        /\ granted' = With(Without(granted, {-1}), next, BlockEntry(base, len))
    BY <1>3, <1>5
  <2> HIDE DEF k
  <2> QED
    BY <1>1, <1>4, <1>9, <1>10, <2>1, <2>2 DEF Puts
<1> QED
  BY <1>1, <1>4, <1>9, <1>11

LEMMA FoundReplaces ==
    ASSUME FuncInv, NEW a, RecordsAt(Records, a) # {}
    PROVE  LET i == FirstAt(Records, a)
           IN  /\ current \in 1 .. Len(nodes) /\ i \in 1 .. Len(Records)
               /\ Replaces(current, i, a, Records[i].handler)
<1> DEFINE i == FirstAt(Records, a)
<1>1. /\ current \in 1 .. Len(nodes) /\ Records = nodes[current].records
      /\ i \in 1 .. Len(Records) /\ Records[i].addr = a
  BY FoundRecord DEF FuncInv
<1> HIDE DEF i
<1>2. Replaces(current, i, a, Records[i].handler)
  <2>1. CASE a = 0
    <3>1. Handler(current, i) \in {-1, 0}
      BY <1>1, <2>1 DEF FuncInv, FreeUnheld, Addr
    <3> QED
      BY <1>1, <2>1, <3>1 DEF Replaces, Used, Handler
  <2>2. CASE a # 0
    BY <1>1, <2>2 DEF Replaces, Used, Addr, Handler
  <2> QED
    BY <2>1, <2>2
<1> QED
  BY <1>1, <1>2 DEF i

LEMMA ReallocPuts ==
    ASSUME FuncInv, NEW a, NEW len \in Lengths, Realloc(a, len)
    PROVE  /\ \E k \in Nat, old \in Int, base \in Bases :
                 Puts(current, k, a, old, base, len)
           /\ nodes' \in Seq(FuncNode) /\ Len(nodes') = Len(nodes)
           /\ CountsBy(0)
           /\ next < MaxHandles /\ UNCHANGED <<lists, cross, mode>>
<1> DEFINE k == FirstAt(Records, a)
           old == Records[k].handler
<1>1. /\ TypeOK /\ RecordsAt(Records, a) # {} /\ next < MaxHandles
      /\ next > 0 /\ next' = next + 1 /\ UNCHANGED <<lists, cross, mode>>
  BY DEF FuncInv, CalledBefore, Realloc, InLibrary
<1>2. /\ current \in 1 .. Len(nodes) /\ k \in 1 .. Len(Records)
      /\ Replaces(current, k, a, old)
  BY <1>1, FoundReplaces
<1>3. PICK base \in MovedBases(a, len) :
         /\ heap' = With(Without(heap, {a}), base, len)
         /\ granted' = ReallocGrants(old, base, len)
         /\ nodes' = [nodes EXCEPT ![current].records[k] =
                       [addr |-> base, length |-> len, handler |-> next]]
  BY DEF Realloc
<1>4. /\ base \in Bases
      /\ \A b \in DOMAIN heap \ {a} : Apart(base, len, b, heap[b])
  BY DEF MovedBases, FreeBases, Places
<1> DEFINE r == [addr |-> base, length |-> len, handler |-> next]
<1>5. r \in Record
  <2>1. next \in -1 .. MaxHandles
    BY <1>1, LimitsAssumption DEF TypeOK
  <2> QED
    BY <1>4, <2>1 DEF Record
<1>6. WritesNode(Records, k, r, nodes[current].num) /\ nodes[current].num \in Int
  <2>1. nodes' = [nodes EXCEPT ![current].records[k] = r]
    BY <1>3
  <2> HIDE DEF k, r
  <2>2. /\ nodes[current] = [ func    |-> nodes[current].func,
                              records |-> nodes[current].records,
                              num     |-> nodes[current].num ]
        /\ nodes = [n \in 1 .. Len(nodes) |-> nodes[n]]
        /\ nodes[current].num \in Int /\ Records = nodes[current].records
    BY <1>1, <1>2, CurrentNode
  <2>3. nodes' = [nodes EXCEPT ![current] =
                    [ func    |-> nodes[current].func,
                      records |-> [Records EXCEPT ![k] = r],
                      num     |-> nodes[current].num ]]
    <3>1. ASSUME NEW f, NEW R, NEW m, NEW node,
                 node = [func |-> f, records |-> R, num |-> m]
          PROVE  [node EXCEPT !.records[k] = r]
                   = [func |-> f, records |-> [R EXCEPT ![k] = r], num |-> m]
      BY <3>1
    <3>2. [nodes[current] EXCEPT !.records[k] = r]
            = [ func    |-> nodes[current].func,
                records |-> [Records EXCEPT ![k] = r],
                num     |-> nodes[current].num ]
      BY <2>2, <3>1
    <3>3. nodes' = [nodes EXCEPT ![current] =
                      [nodes[current] EXCEPT !.records[k] = r]]
      BY <2>1
    <3> QED
      BY <3>2, <3>3
  <2> QED
    BY <2>2, <2>3 DEF WritesNode
<1>7. /\ Recorded(current, k, r)
      /\ nodes' \in Seq(FuncNode) /\ Len(nodes') = Len(nodes)
      /\ CountsBy(0)
  <2> HIDE DEF k, r
  <2> QED
    BY <1>1, <1>2, <1>5, <1>6, SameTable, WrittenNode DEF CountsBy
<1>8. old \in Int /\ k \in Nat
  <2>1. Records[k] \in Record
    BY <1>1, <1>2, CurrentNode, NodeFacts
  <2> QED
    BY <1>2, <2>1 DEF Record
<1>9. Puts(current, k, a, old, base, len)
  <2> HIDE DEF k, old
  <2> QED
    BY <1>1, <1>2, <1>3, <1>4, <1>7 DEF Puts, ReallocGrants
<1> QED
  BY <1>1, <1>4, <1>7, <1>8, <1>9

LEMMA FreeTakes ==
    ASSUME FuncInv, NEW a, Free(a)
    PROVE  /\ \E k \in Nat, old \in Int : Takes(current, k, a, old)
           /\ nodes' \in Seq(FuncNode) /\ Len(nodes') = Len(nodes)
           /\ CountsBy(-1)
           /\ UNCHANGED <<next, lists, cross, mode>>
<1> DEFINE k == FirstAt(Records, a)
           old == Records[k].handler
<1>1. /\ TypeOK /\ RecordsAt(Records, a) # {}
      /\ UNCHANGED <<next, lists, cross, mode>>
  BY DEF FuncInv, Free
<1>2. /\ current \in 1 .. Len(nodes) /\ k \in 1 .. Len(Records)
      /\ Replaces(current, k, a, old)
  BY <1>1, FoundReplaces
<1> DEFINE r == [addr |-> 0, length |-> 0, handler |-> -1]
<1>3. /\ heap' = Without(heap, {a}) /\ granted' = Without(granted, {old})
      /\ nodes' = [nodes EXCEPT ![current].records[k] = r,
                                ![current].num = @ - 1]
  BY DEF Free
<1>4. r \in Record
  BY LimitsAssumption DEF Record
<1>5. WritesNode(Records, k, r, nodes[current].num - 1)
      /\ nodes[current].num - 1 \in Int
  <2> HIDE DEF k, r
  <2>1. /\ nodes[current] = [ func    |-> nodes[current].func,
                              records |-> nodes[current].records,
                              num     |-> nodes[current].num ]
        /\ nodes = [n \in 1 .. Len(nodes) |-> nodes[n]]
        /\ nodes[current].num \in Int /\ Records = nodes[current].records
    BY <1>1, <1>2, CurrentNode
  <2>2. nodes' = [nodes EXCEPT ![current] =
                    [ func    |-> nodes[current].func,
                      records |-> [Records EXCEPT ![k] = r],
                      num     |-> nodes[current].num - 1 ]]
    BY <1>2, <1>3, <2>1
  <2> QED
    BY <2>1, <2>2 DEF WritesNode
<1>6. /\ Recorded(current, k, r)
      /\ nodes' \in Seq(FuncNode) /\ Len(nodes') = Len(nodes)
      /\ CountsBy(-1)
  <2> HIDE DEF k, r
  <2> QED
    BY <1>1, <1>2, <1>4, <1>5, SameTable, WrittenNode DEF CountsBy
<1>7. old \in Int /\ k \in Nat
  <2>1. Records[k] \in Record
    BY <1>1, <1>2, CurrentNode, NodeFacts
  <2> QED
    BY <1>2, <2>1 DEF Record
<1>8. Takes(current, k, a, old)
  <2> HIDE DEF k, old
  <2> QED
    BY <1>1, <1>2, <1>3, <1>6 DEF Takes
<1> QED
  BY <1>1, <1>6, <1>7, <1>8

-----------------------------------------------------------------------------
(***************************************************************************)
(* The other operations leave the blocks and their records alone, and the  *)
(* bounds they add are away from the heap.                                 *)
(***************************************************************************)
SameRecords ==
    \A n, i \in Nat : /\ Used(n, i)' <=> Used(n, i)
                      /\ Used(n, i) => /\ Addr(n, i)' = Addr(n, i)
                                       /\ Handler(n, i)' = Handler(n, i)

Leaves ==
    /\ heap' = heap /\ next' \in Nat /\ next <= next'
    /\ SameRecords /\ FreeUnheld'
    /\ \A h \in Live' : \/ h \in Live /\ granted'[h] = granted[h]
                        \/ OffHeap(granted'[h])

LEMMA LeavesInv ==
    ASSUME FuncInv, Leaves
    PROVE  RecordsBacked' /\ RecordsUnique' /\ BoundsOwned' /\ BlocksApart'
           /\ FreeUnheld'
<1>1. /\ heap' = heap /\ next' \in Nat /\ next <= next' /\ next \in Nat
      /\ FreeUnheld'
      /\ \A n, i \in Nat : /\ Used(n, i)' <=> Used(n, i)
                           /\ Used(n, i) => /\ Addr(n, i)' = Addr(n, i)
                                            /\ Handler(n, i)' = Handler(n, i)
  BY DEF Leaves, SameRecords, FuncInv, TypeOK
<1>2. RecordsBacked'
  <2> SUFFICES ASSUME NEW n \in Nat, NEW i \in Nat, Used(n, i)'
               PROVE  /\ Addr(n, i)' \in DOMAIN heap'
                      /\ Handler(n, i)' \in 1 .. next' - 1
    BY DEF RecordsBacked
  <2>1. Addr(n, i) \in DOMAIN heap /\ Handler(n, i) \in 1 .. next - 1
    BY <1>1 DEF FuncInv, RecordsBacked
  <2> QED
    BY <1>1, <2>1
<1>3. RecordsUnique'
  <2> SUFFICES ASSUME NEW n \in Nat, NEW i \in Nat, NEW m \in Nat, NEW j \in Nat,
                      Used(n, i)', Used(m, j)',
                      Addr(n, i)' = Addr(m, j)' \/ Handler(n, i)' = Handler(m, j)'
               PROVE  n = m /\ i = j
    BY DEF RecordsUnique
  <2>1. /\ Used(n, i) /\ Used(m, j)
        /\ Addr(n, i) = Addr(m, j) \/ Handler(n, i) = Handler(m, j)
    BY <1>1
  <2> QED
    BY <2>1 DEF FuncInv, RecordsUnique
<1>4. BoundsOwned'
  <2> SUFFICES ASSUME NEW h \in Live', ~ OffHeap(granted'[h])
               PROVE  \E n, i \in Nat :
                          /\ Used(n, i)' /\ Handler(n, i)' = h
                          /\ granted'[h] = BlockEntry(Addr(n, i)',
                                                      heap'[Addr(n, i)'])
    BY DEF BoundsOwned, OffHeap
  <2>1. h \in Live /\ granted'[h] = granted[h]
    BY DEF Leaves
  <2>2. PICK n \in Nat, i \in Nat :
           /\ Used(n, i) /\ Handler(n, i) = h
           /\ granted[h] = BlockEntry(Addr(n, i), heap[Addr(n, i)])
    BY <2>1 DEF FuncInv, BoundsOwned
  <2> QED
    BY <1>1, <2>1, <2>2
<1>5. BlocksApart'
  BY <1>1 DEF FuncInv, BlocksApart, Apart, RoundUp, RoundDown
<1> QED
  BY <1>1, <1>2, <1>3, <1>4, <1>5

LEMMA SameNodesLeave ==
    ASSUME FuncInv, nodes' = nodes, heap' = heap, next' \in Nat, next <= next',
           \A h \in Live' : \/ h \in Live /\ granted'[h] = granted[h]
                            \/ OffHeap(granted'[h])
    PROVE  Leaves
<1>1. SameRecords
  BY DEF SameRecords, Used, Addr, Handler
<1>2. FreeUnheld'
  BY DEF FuncInv, FreeUnheld, Addr, Handler
<1> QED
  BY <1>1, <1>2 DEF Leaves

LEMMA StutterLeaves ==
    ASSUME FuncInv, UNCHANGED <<granted, next, heap, nodes>>
    PROVE  Leaves
<1>1. next \in Nat
  BY DEF FuncInv, TypeOK
<1> QED
  BY <1>1, SameNodesLeave DEF Live

LEMMA PopLeaves ==
    ASSUME FuncInv, PopCross
    PROVE  Leaves
<1>1. /\ next \in Nat /\ nodes' = nodes /\ heap' = heap /\ next' = next
      /\ granted' = Without(granted, Popped)
  BY DEF FuncInv, TypeOK, PopCross
<1>2. DOMAIN granted' = DOMAIN granted \ Popped
      /\ \A h \in DOMAIN granted \ Popped : granted'[h] = granted[h]
  BY <1>1 DEF Without, Restrict
<1>3. \A h \in Live' : h \in Live /\ granted'[h] = granted[h]
  BY <1>2 DEF Live
<1> QED
  BY <1>1, <1>3, SameNodesLeave

LEMMA OtherLeaves ==
    ASSUME FuncInv, NEW req \in OtherRequests, OtherAlloc(req)
    PROVE  Leaves
<1>1. /\ next \in Nat /\ nodes' = nodes /\ heap' = heap /\ next' = next + 1
      /\ granted' = With(granted, next, RoundedEntry(req))
  BY DEF FuncInv, TypeOK, OtherAlloc
<1>2. /\ DOMAIN granted' = DOMAIN granted \cup {next}
      /\ granted'[next] = RoundedEntry(req)
      /\ \A h \in DOMAIN granted \ {next} : granted'[h] = granted[h]
  BY <1>1 DEF With
<1>3. OffHeap(RoundedEntry(req))
  BY RequestsAssumption DEF OffHeap
<1>4. \A h \in Live' : \/ h \in Live /\ granted'[h] = granted[h]
                       \/ OffHeap(granted'[h])
  BY <1>2, <1>3 DEF Live
<1> QED
  BY <1>1, <1>4, SameNodesLeave

\* The three bounds of a call.
LEMMA CallInFields ==
    ASSUME FuncInv, CallIn
    PROVE  /\ Live' = Live \cup next .. next + 2
           /\ \A h \in Live : granted'[h] = granted[h]
           /\ \A h \in Live' \ Live : \E j \in 1 .. 3 :
                 granted'[h] = RoundedEntry(FrameRequests[j])
           /\ granted' = [h \in Live' |-> granted'[h]]
<1>1. next \in Nat
  BY DEF FuncInv, TypeOK
<1>2. granted' = [h \in Live \cup next .. next + 2 |->
                     IF h \in Live THEN granted[h]
                     ELSE RoundedEntry(FrameRequests[h - next + 1])]
  BY DEF CallIn
<1>3. ASSUME NEW h \in Live' \ Live
      PROVE  \E j \in 1 .. 3 : granted'[h] = RoundedEntry(FrameRequests[j])
  <2>1. h \in next .. next + 2 /\ h - next + 1 \in 1 .. 3
    BY <1>1, <1>2 DEF Live
  <2>2. granted'[h] = RoundedEntry(FrameRequests[h - next + 1])
    BY <1>2, <2>1
  <2> QED
    BY <2>1, <2>2
<1> QED
  BY <1>2, <1>3 DEF Live

LEMMA CallInLeaves ==
    ASSUME FuncInv, CallIn
    PROVE  Leaves
<1>1. next \in Nat /\ nodes' = nodes /\ heap' = heap /\ next' = next + 3
  BY DEF FuncInv, TypeOK, CallIn
<1>2. ASSUME NEW j \in 1 .. 3 PROVE OffHeap(RoundedEntry(FrameRequests[j]))
  <2>1. FrameRequests[j] \in Range(FrameRequests)
    BY RequestsAssumption DEF Range
  <2> QED
    BY <2>1, RequestsAssumption DEF OffHeap
<1>3. \A h \in Live' : \/ h \in Live /\ granted'[h] = granted[h]
                       \/ OffHeap(granted'[h])
  <2> SUFFICES ASSUME NEW h \in Live'
               PROVE  \/ h \in Live /\ granted'[h] = granted[h]
                      \/ OffHeap(granted'[h])
    OBVIOUS
  <2>1. CASE h \in Live
    BY <2>1, CallInFields
  <2>2. CASE h \notin Live
    <3>1. PICK j \in 1 .. 3 : granted'[h] = RoundedEntry(FrameRequests[j])
      BY <2>2, CallInFields
    <3> QED
      BY <1>2, <3>1
  <2> QED
    BY <2>1, <2>2
<1> QED
  BY <1>1, <1>3, SameNodesLeave

\* A new name space has no record in use.
LEMMA SetMissedLeaves ==
    ASSUME FuncInv, SetMissed
    PROVE  /\ Leaves
           /\ nodes' \in Seq(FuncNode) /\ Len(nodes') = Len(nodes) + 1
<1>1. /\ next \in Nat /\ UNCHANGED <<granted, next, heap>>
      /\ Len(nodes) \in Nat /\ nodes \in Seq(FuncNode)
      /\ search.func \in Funcs
  BY NodeFacts DEF FuncInv, TypeOK, SetMissed
<1> DEFINE node == [func |-> search.func, records |-> EmptyRecords, num |-> 0]
<1>2. /\ node \in FuncNode /\ Len(node.records) = Chunk
      /\ \A i \in 1 .. Chunk : node.records[i] = EmptyRecord
  BY <1>1, EmptyFacts DEF FuncNode
<1>3. nodes' = Append(nodes, node)
  BY DEF SetMissed
<1> HIDE DEF node
<1>4. /\ nodes' \in Seq(FuncNode) /\ Len(nodes') = Len(nodes) + 1
      /\ \A n \in 1 .. Len(nodes) : nodes'[n] = nodes[n]
      /\ nodes'[Len(nodes) + 1] = node
  BY <1>1, <1>2, <1>3, AppendProperties
<1>5. ASSUME NEW n \in Nat, NEW i \in Nat
      PROVE  /\ Used(n, i)' <=> Used(n, i)
             /\ Used(n, i) => /\ Addr(n, i)' = Addr(n, i)
                              /\ Handler(n, i)' = Handler(n, i)
  <2>1. CASE n \in 1 .. Len(nodes)
    BY <1>1, <1>4, <2>1 DEF Used, Addr, Handler
  <2>2. CASE n = Len(nodes) + 1
    BY <1>1, <1>2, <1>4, <2>2 DEF Used, EmptyRecord
  <2>3. CASE n \notin 1 .. Len(nodes) + 1
    BY <1>1, <1>4, <2>3 DEF Used
  <2> QED
    BY <1>1, <2>1, <2>2, <2>3
<1>6. FreeUnheld'
  <2> SUFFICES ASSUME NEW n \in 1 .. Len(nodes) + 1,
                      NEW i \in 1 .. Len(nodes'[n].records),
                      nodes'[n].records[i].addr = 0
               PROVE  nodes'[n].records[i].handler \in {-1, 0}
    BY <1>4 DEF FreeUnheld, Addr, Handler
  <2>1. CASE n \in 1 .. Len(nodes)
    BY <1>4, <2>1 DEF FuncInv, FreeUnheld, Addr, Handler
  <2>2. CASE n = Len(nodes) + 1
    BY <1>2, <1>4, <2>2 DEF EmptyRecord
  <2> QED
    BY <1>1, <2>1, <2>2
<1>7. \A h \in Live' : h \in Live /\ granted'[h] = granted[h]
  BY <1>1 DEF Live
<1> QED
  BY <1>1, <1>4, <1>5, <1>6, <1>7 DEF Leaves, SameRecords

-----------------------------------------------------------------------------
(***************************************************************************)
(* The types of the links, the name spaces and the pending calls.          *)
(***************************************************************************)
RestType ==
    /\ nodes \in Seq(FuncNode) /\ Len(nodes) <= MaxNodes
    /\ nxt \in [{0} \cup Node -> 0 .. Len(nodes)]
    /\ prv \in [{0} \cup Node -> 0 .. Len(nodes)]
    /\ current \in 0 .. Len(nodes)
    /\ search \in [func : Funcs \cup {"none"}, at : 0 .. Len(nodes)]
    /\ mode = "search" => search.func \in Funcs
    /\ cross \in Seq([1 .. 3 -> 0 .. MaxHandles])
    /\ mode \in {"run", "search", "dead", "aborted"}

LEMMA TypeSplit ==
    /\ TypeOK <=> GrantsType /\ RestType
    /\ TypeOK' <=> GrantsType' /\ RestType'
<1>1. TypeOK <=> GrantsType /\ RestType
  BY DEF TypeOK, GrantsType, RestType
<1>2. TypeOK' <=> GrantsType' /\ RestType'
  BY DEF TypeOK, GrantsType, RestType
<1> QED
  BY <1>1, <1>2

LEMMA RestKept ==
    ASSUME TypeOK, nodes' \in Seq(FuncNode), Len(nodes') = Len(nodes),
           UNCHANGED lists, cross' \in Seq([1 .. 3 -> 0 .. MaxHandles]),
           mode' = mode \/ mode' \in {"dead", "aborted"}
    PROVE  RestType'
  BY DEF TypeOK, RestType, lists

LEMMA AddTailType ==
    ASSUME TypeOK, NEW m \in Nat, Len(nodes) <= m, m <= MaxNodes,
           NEW n \in 1 .. m, AddTail(n)
    PROVE  /\ nxt' \in [{0} \cup Node -> 0 .. m]
           /\ prv' \in [{0} \cup Node -> 0 .. m]
<1>1. Len(nodes) \in Nat /\ MaxNodes \in Nat
  BY NodeFacts, LimitsAssumption
<1>2. n \in Node /\ n \in 0 .. m /\ 0 \in 0 .. m
  BY <1>1 DEF Node
<1>3. /\ nxt \in [{0} \cup Node -> 0 .. Len(nodes)]
      /\ prv \in [{0} \cup Node -> 0 .. Len(nodes)]
      /\ 0 .. Len(nodes) \subseteq 0 .. m
  BY <1>1 DEF TypeOK
<1>4. /\ nxt \in [{0} \cup Node -> 0 .. m]
      /\ prv \in [{0} \cup Node -> 0 .. m]
  BY <1>3
<1>5. /\ prv' = [prv EXCEPT ![0] = n, ![n] = prv[0]]
      /\ nxt' = [nxt EXCEPT ![n] = 0, ![prv[0]] = n]
  BY DEF AddTail
<1>6. prv[0] \in 0 .. m
  BY <1>4
<1> QED
  BY <1>2, <1>4, <1>5, <1>6

LEMMA SetType ==
    ASSUME FuncInv, \/ \E f \in Funcs : SetStart(f)
                    \/ SetStep \/ SetFound \/ SetMissed
    PROVE  RestType'
<1>1. /\ TypeOK /\ Len(nodes) \in Nat /\ MaxNodes \in Nat /\ Len(nodes) <= MaxNodes
      /\ nodes \in Seq(FuncNode)
      /\ \A n \in 0 .. Len(nodes) : n \in {0} \cup Node /\ nxt[n] \in 0 .. Len(nodes)
  <2>1. TypeOK /\ Len(nodes) \in Nat /\ MaxNodes \in Nat /\ Len(nodes) <= MaxNodes
    BY NodeFacts, LimitsAssumption DEF FuncInv, TypeOK
  <2>2. \A n \in 0 .. Len(nodes) : n \in {0} \cup Node
    BY <2>1 DEF Node
  <2> QED
    BY <2>1, <2>2 DEF TypeOK
<1>2. NoSearch \in [func : Funcs \cup {"none"}, at : 0 .. Len(nodes)]
  BY <1>1 DEF NoSearch
<1>3. ASSUME NEW f \in Funcs, SetStart(f) PROVE RestType'
  <2>1. search' \in [func : Funcs \cup {"none"}, at : 0 .. Len(nodes)]
        /\ search'.func \in Funcs
    BY <1>1, <1>3 DEF SetStart
  <2> QED
    BY <1>1, <1>3, <2>1 DEF SetStart, TypeOK, RestType
<1>4. CASE SetStep
  <2>1. /\ search \in [func : Funcs \cup {"none"}, at : 0 .. Len(nodes)]
        /\ search.func \in Funcs /\ nxt[search.at] \in 0 .. Len(nodes)
        /\ search' = [search EXCEPT !.at = nxt[search.at]]
    BY <1>1, <1>4 DEF SetStep, TypeOK
  <2>2. search' \in [func : Funcs \cup {"none"}, at : 0 .. Len(nodes)]
        /\ search'.func \in Funcs
    BY <2>1
  <2> QED
    BY <1>1, <1>4, <2>2 DEF SetStep, TypeOK, RestType
<1>5. CASE SetFound
  <2>1. search.at \in 1 .. Len(nodes) /\ current' = search.at
    BY <1>1, <1>5 DEF SetFound, TypeOK
  <2>2. /\ nxt' \in [{0} \cup Node -> 0 .. Len(nodes)]
        /\ prv' \in [{0} \cup Node -> 0 .. Len(nodes)]
    <3>1. AddTail(search.at) /\ Len(nodes) <= Len(nodes)
      BY <1>1, <1>5 DEF SetFound
    <3> QED
      BY <1>1, <2>1, <3>1, AddTailType
  <2> QED
    BY <1>1, <1>2, <1>5, <2>1, <2>2 DEF SetFound, TypeOK, RestType
<1>6. CASE SetMissed
  <2>1. /\ nodes' \in Seq(FuncNode) /\ Len(nodes') = Len(nodes) + 1
        /\ Len(nodes') <= MaxNodes /\ Len(nodes') \in Nat
    BY <1>1, <1>6, SetMissedLeaves DEF SetMissed
  <2>2. AddTail(Len(nodes')) /\ current' = Len(nodes')
        /\ search' = NoSearch /\ mode' = "run" /\ cross' = cross
    BY <1>6, <2>1 DEF SetMissed
  <2>3. /\ nxt' \in [{0} \cup Node -> 0 .. Len(nodes')]
        /\ prv' \in [{0} \cup Node -> 0 .. Len(nodes')]
    <3>1. Len(nodes) <= Len(nodes') /\ Len(nodes') \in 1 .. Len(nodes')
      BY <1>1, <2>1
    <3> QED
      BY <1>1, <2>1, <2>2, <3>1, AddTailType
  <2>4. NoSearch \in [func : Funcs \cup {"none"}, at : 0 .. Len(nodes')]
    BY <2>1 DEF NoSearch
  <2>5. cross \in Seq([1 .. 3 -> 0 .. MaxHandles])
    BY <1>1 DEF TypeOK
  <2> QED
    BY <2>1, <2>2, <2>3, <2>4, <2>5 DEF RestType
<1> QED
  BY <1>3, <1>4, <1>5, <1>6

LEMMA CallInType ==
    ASSUME FuncInv, CallIn
    PROVE  GrantsType' /\ RestType'
<1>1. /\ TypeOK /\ next \in Nat /\ MaxHandles \in Nat /\ next + 2 < MaxHandles
      /\ next' = next + 3 /\ heap' = heap /\ nodes' = nodes /\ UNCHANGED lists
      /\ mode' = mode /\ cross' = Append(cross, <<next, next + 1, next + 2>>)
  <2>1. TypeOK /\ next \in Nat /\ MaxHandles \in Nat
    BY LimitsAssumption DEF FuncInv, TypeOK
  <2> QED
    BY <2>1 DEF CallIn
<1>2. cross' \in Seq([1 .. 3 -> 0 .. MaxHandles])
  <2>1. <<next, next + 1, next + 2>> \in [1 .. 3 -> 0 .. MaxHandles]
    BY <1>1
  <2>2. cross \in Seq([1 .. 3 -> 0 .. MaxHandles])
    BY <1>1 DEF TypeOK
  <2> QED
    BY <1>1, <2>1, <2>2, AppendProperties
<1>3. RestType'
  <2>1. nodes' \in Seq(FuncNode) /\ Len(nodes') = Len(nodes)
    BY <1>1 DEF TypeOK
  <2> QED
    BY <1>1, <1>2, <2>1, RestKept
<1>4. granted' \in [Live' -> Entry]
  <2>1. ASSUME NEW h \in Live' PROVE granted'[h] \in Entry
    <3>1. CASE h \in Live
      BY <1>1, <3>1, CallInFields DEF TypeOK
    <3>2. CASE h \notin Live
      <4>1. PICK j \in 1 .. 3 : granted'[h] = RoundedEntry(FrameRequests[j])
        BY <3>2, CallInFields
      <4>2. FrameRequests[j] \in [perm : Cfg, lo : Addrs, hi : Addrs]
        BY RequestsAssumption
      <4> QED
        BY <4>1, <4>2, RoundedType
    <3> QED
      BY <3>1, <3>2
  <2>2. granted' = [h \in Live' |-> granted'[h]]
    BY CallInFields
  <2> QED
    BY <2>1, <2>2
<1>5. Live' \subseteq 0 .. next' - 1
  <2>1. Live' = Live \cup next .. next + 2 /\ Live \subseteq 0 .. next - 1
    BY <1>1, CallInFields DEF TypeOK
  <2>2. next \in Nat
    BY <1>1
  <2>3. ASSUME NEW h \in Live' PROVE h \in 0 .. next + 2
    BY <2>1, <2>2
  <2>4. next' - 1 = next + 2
    BY <1>1
  <2> QED
    BY <2>3, <2>4
<1>6. next' \in 0 .. MaxHandles
  BY <1>1
<1>7. heap' \in [DOMAIN heap' -> Lengths] /\ DOMAIN heap' \subseteq Bases
  BY <1>1 DEF TypeOK
<1> QED
  BY <1>3, <1>4, <1>5, <1>6, <1>7 DEF GrantsType

LEMMA FrontType ==
    ASSUME NEW S, NEW s \in Seq(S), s # <<>>
    PROVE  Front(s) \in Seq(S)
<1>1. Len(s) \in Nat \ {0}
  BY EmptySeq, LenProperties
<1>2. \A n \in 0 .. Len(s) : SubSeq(s, 1, n) \in Seq(S)
  OBVIOUS
<1>3. Len(s) - 1 \in 0 .. Len(s)
  BY <1>1
<1> QED
  BY <1>2, <1>3 DEF Front

LEMMA PopCrossType ==
    ASSUME FuncInv, PopCross
    PROVE  GrantsType' /\ RestType'
<1>1. /\ TypeOK /\ granted' = Without(granted, Popped) /\ cross' = Front(cross)
      /\ next' = next /\ heap' = heap /\ nodes' = nodes /\ UNCHANGED lists
      /\ mode' = mode /\ cross # <<>>
  BY DEF FuncInv, PopCross, InLibrary
<1>2. cross' \in Seq([1 .. 3 -> 0 .. MaxHandles])
  <2>1. cross \in Seq([1 .. 3 -> 0 .. MaxHandles]) /\ cross # <<>>
    BY <1>1 DEF TypeOK
  <2>2. Front(cross) \in Seq([1 .. 3 -> 0 .. MaxHandles])
    BY <2>1, FrontType, Zenon
  <2> QED
    BY <1>1, <2>2
<1>3. RestType'
  <2>1. nodes' \in Seq(FuncNode) /\ Len(nodes') = Len(nodes)
    BY <1>1 DEF TypeOK
  <2> QED
    BY <1>1, <1>2, <2>1, RestKept
<1>4. granted' \in [Live' -> Entry] /\ Live' \subseteq Live
  BY <1>1 DEF TypeOK, Live, Without, Restrict
<1> QED
  BY <1>1, <1>3, <1>4 DEF GrantsType, TypeOK

LEMMA OtherAllocType ==
    ASSUME FuncInv, NEW req \in OtherRequests, OtherAlloc(req)
    PROVE  GrantsType' /\ RestType'
<1>1. /\ TypeOK /\ next \in Nat /\ MaxHandles \in Nat /\ next < MaxHandles
      /\ next' = next + 1 /\ heap' = heap /\ nodes' = nodes /\ UNCHANGED lists
      /\ mode' = mode /\ cross' = cross
      /\ granted' = With(granted, next, RoundedEntry(req))
  BY LimitsAssumption DEF FuncInv, TypeOK, OtherAlloc
<1>2. RoundedEntry(req) \in Entry
  BY RequestsAssumption, RoundedType
<1>3. granted' \in [Live' -> Entry]
  <2> DEFINE e == RoundedEntry(req)
  <2>1. e \in Entry
    BY <1>2
  <2> HIDE DEF e
  <2> QED
    BY <1>1, <2>1 DEF TypeOK, Live, With, e
<1>4. Live' = Live \cup {next} /\ Live \subseteq 0 .. next - 1
  BY <1>1 DEF TypeOK, Live, With
<1>5. Live' \subseteq 0 .. next' - 1
  <2>1. ASSUME NEW h \in Live' PROVE h \in 0 .. next
    BY <1>1, <1>4
  <2>2. next' - 1 = next
    BY <1>1
  <2> QED
    BY <2>1, <2>2
<1>6. next' \in 0 .. MaxHandles
  BY <1>1
<1>7. heap' \in [DOMAIN heap' -> Lengths] /\ DOMAIN heap' \subseteq Bases
  BY <1>1 DEF TypeOK
<1>8. RestType'
  BY <1>1, RestKept DEF TypeOK
<1> QED
  BY <1>3, <1>5, <1>6, <1>7, <1>8 DEF GrantsType

-----------------------------------------------------------------------------
(***************************************************************************)
(* Every step keeps the invariant.                                         *)
(***************************************************************************)
LEMMA InitFuncInv == Init => FuncInv
<1> SUFFICES ASSUME Init PROVE FuncInv
  OBVIOUS
<1>1. /\ granted = [h \in {} |-> 0] /\ next = 0 /\ heap = [b \in {} |-> 0]
      /\ nodes = <<>> /\ current = 0 /\ search = NoSearch /\ cross = <<>>
      /\ mode = "run" /\ MaxHandles \in Nat /\ MaxNodes \in Nat
  BY LimitsAssumption DEF Init
<1>2. nodes \in Seq(FuncNode) /\ Len(nodes) = 0
      /\ cross \in Seq([1 .. 3 -> 0 .. MaxHandles])
  BY <1>1
<1>3. Live = {} /\ DOMAIN heap = {}
  BY <1>1 DEF Live
<1>4. GrantsType
  BY <1>1, <1>3 DEF GrantsType
<1>5. RestType
  BY <1>1, <1>2 DEF RestType, Init, NoSearch
<1>6. \A n, i \in Nat : ~ Used(n, i)
  BY <1>2 DEF Used
<1>7. TypeOK
  BY <1>4, <1>5, TypeSplit
<1>8. RecordsBacked /\ RecordsUnique
  BY <1>6 DEF RecordsBacked, RecordsUnique
<1>9. BoundsOwned /\ BlocksApart /\ FreeUnheld /\ CalledBefore
  BY <1>1, <1>2, <1>3 DEF BoundsOwned, BlocksApart, FreeUnheld, CalledBefore
<1> QED
  BY <1>7, <1>8, <1>9 DEF FuncInv

LEMMA PutsKeeps ==
    ASSUME FuncInv, NEW c, NEW k, NEW a, NEW old, NEW base, NEW len,
           Puts(c, k, a, old, base, len), next < MaxHandles,
           nodes' \in Seq(FuncNode), Len(nodes') = Len(nodes),
           UNCHANGED <<lists, cross, mode>>
    PROVE  FuncInv'
<1>1. TypeOK /\ next' = next + 1 /\ next \in Nat
  BY DEF FuncInv, Puts, TypeOK
<1>2. RecordsBacked' /\ RecordsUnique' /\ BoundsOwned' /\ BlocksApart'
      /\ FreeUnheld'
  BY PutsInv
<1>3. GrantsType'
  BY <1>1, PutsType
<1>4. RestType'
  BY <1>1, RestKept DEF TypeOK
<1>5. CalledBefore'
  BY <1>1 DEF CalledBefore
<1>6. TypeOK'
  BY <1>3, <1>4, TypeSplit
<1> QED
  BY <1>2, <1>5, <1>6 DEF FuncInv

LEMMA TakesKeeps ==
    ASSUME FuncInv, NEW c, NEW k, NEW a, NEW old, Takes(c, k, a, old),
           nodes' \in Seq(FuncNode), Len(nodes') = Len(nodes),
           UNCHANGED <<next, lists, cross, mode>>
    PROVE  FuncInv'
<1>1. TypeOK
  BY DEF FuncInv
<1>2. RecordsBacked' /\ RecordsUnique' /\ BoundsOwned' /\ BlocksApart'
      /\ FreeUnheld'
  BY TakesInv
<1>3. GrantsType'
  BY <1>1, TakesType
<1>4. RestType'
  BY <1>1, RestKept DEF TypeOK
<1>5. CalledBefore'
  BY DEF FuncInv, CalledBefore
<1>6. TypeOK'
  BY <1>3, <1>4, TypeSplit
<1> QED
  BY <1>2, <1>5, <1>6 DEF FuncInv

LEMMA LeavesKeeps ==
    ASSUME FuncInv, Leaves, GrantsType', RestType', CalledBefore'
    PROVE  FuncInv'
<1>1. TypeOK'
  BY TypeSplit
<1> QED
  BY <1>1, LeavesInv DEF FuncInv

\* What leaves the bounds and the blocks as they are.
LEMMA QuietKeeps ==
    ASSUME FuncInv, UNCHANGED <<granted, next, heap, nodes, cross>>, RestType'
    PROVE  FuncInv'
<1>1. GrantsType' /\ CalledBefore'
  BY DEF FuncInv, TypeOK, GrantsType, Live, CalledBefore
<1> QED
  BY <1>1, StutterLeaves, LeavesKeeps

LEMMA EndsKeeps ==
    ASSUME FuncInv, NEW how \in {"dead", "aborted"}, Ends(how)
    PROVE  FuncInv'
<1>1. RestType'
  BY RestKept DEF FuncInv, TypeOK, Ends
<1> QED
  BY <1>1, QuietKeeps DEF Ends

LEMMA NextFuncInv == FuncInv /\ [Next]_vars => FuncInv'
<1> SUFFICES ASSUME FuncInv, [Next]_vars PROVE FuncInv'
  OBVIOUS
<1>1. TypeOK /\ next \in Nat
  BY DEF FuncInv, TypeOK
<1>2. ASSUME \/ \E f \in Funcs : SetStart(f)
             \/ SetStep \/ SetFound
      PROVE  FuncInv'
  <2>1. UNCHANGED <<granted, next, heap, nodes, cross>>
    BY <1>2 DEF SetStart, SetStep, SetFound
  <2> QED
    BY <1>2, <2>1, SetType, QuietKeeps
<1>3. CASE SetMissed
  <2>1. RestType' /\ UNCHANGED <<granted, next, heap, cross>>
    BY <1>3, SetType DEF SetMissed
  <2>2. GrantsType' /\ CalledBefore'
    BY <2>1 DEF FuncInv, TypeOK, GrantsType, Live, CalledBefore
  <2> QED
    BY <1>3, <2>1, <2>2, SetMissedLeaves, LeavesKeeps
<1>4. ASSUME NEW len \in Lengths, Malloc(len) PROVE FuncInv'
  <2>1. PICK k \in Nat, base \in Bases : Puts(current, k, 0, -1, base, len)
    BY <1>4, MallocPuts
  <2> QED
    BY <1>4, <2>1, MallocPuts, PutsKeeps
<1>5. ASSUME NEW a, NEW len \in Lengths, Realloc(a, len) PROVE FuncInv'
  <2>1. PICK k \in Nat, old \in Int, base \in Bases :
           Puts(current, k, a, old, base, len)
    BY <1>5, ReallocPuts
  <2> QED
    BY <1>5, <2>1, ReallocPuts, PutsKeeps
<1>6. ASSUME NEW a, Free(a) PROVE FuncInv'
  <2>1. PICK k \in Nat, old \in Int : Takes(current, k, a, old)
    BY <1>6, FreeTakes
  <2> QED
    BY <1>6, <2>1, FreeTakes, TakesKeeps
<1>7. ASSUME \/ \E len \in Lengths : MallocDies(len)
             \/ \E a \in Bases \cup {0}, len \in Lengths : ReallocDies(a, len)
             \/ \E a \in Bases \cup {0} : FreeDies(a)
             \/ PopAborts
      PROVE  FuncInv'
  <2>1. \E how \in {"dead", "aborted"} : Ends(how)
    BY <1>7 DEF MallocDies, ReallocDies, FreeDies, PopAborts
  <2> QED
    BY <2>1, EndsKeeps
<1>8. ASSUME NEW req \in OtherRequests, OtherAlloc(req) PROVE FuncInv'
  <2>1. CalledBefore'
    BY <1>8 DEF OtherAlloc, CalledBefore
  <2> QED
    BY <1>8, <2>1, OtherLeaves, OtherAllocType, LeavesKeeps
<1>9. CASE CallIn
  <2>1. CalledBefore'
    BY <1>1, <1>9 DEF CallIn, CalledBefore
  <2> QED
    BY <1>9, <2>1, CallInLeaves, CallInType, LeavesKeeps
<1>10. CASE PopCross
  <2>1. CalledBefore'
    BY <1>10 DEF PopCross, InLibrary, FuncInv, CalledBefore
  <2> QED
    BY <1>10, <2>1, PopLeaves, PopCrossType, LeavesKeeps
<1>11. CASE UNCHANGED vars
  <2>1. RestType'
    BY <1>1, <1>11 DEF vars, lists, TypeOK, RestType
  <2> QED
    BY <1>11, <2>1, QuietKeeps DEF vars
<1> QED
  BY <1>2, <1>3, <1>4, <1>5, <1>6, <1>7, <1>8, <1>9, <1>10, <1>11 DEF Next

\* The bounds of the library follow its blocks, each with one record.
THEOREM BoundsFollowBlocks == Spec => []FuncInv
<1> QED
  BY InitFuncInv, NextFuncInv, PTL DEF Spec

\* The type invariant.
THEOREM TypeCorrect == Spec => []TypeOK
<1>1. FuncInv => TypeOK
  BY DEF FuncInv
<1> QED
  BY <1>1, BoundsFollowBlocks, PTL

-----------------------------------------------------------------------------
\* No bound outlives its block (ufuncmem.c): what the library may access of the
\* heap lies in blocks that malloc has given out and free has not taken back,
\* for any sequence of malloc, realloc, free, calls and returns.
THEOREM HeapIsConfined == Spec => []HeapConfined
<1>1. ASSUME FuncInv PROVE HeapConfined
  <2> SUFFICES ASSUME NEW h \in Live, NEW a \in HeapArea, NEW k \in Kinds,
                      Covers(granted[h], a, k)
               PROVE  \E b \in DOMAIN heap : b <= a /\ a < RoundUp(b + heap[b])
    BY DEF HeapConfined
  <2>1. Within(a, granted[h].bound)
    BY DEF Covers
  <2>2. PICK n \in Nat, i \in Nat :
           /\ Used(n, i) /\ Handler(n, i) = h
           /\ granted[h] = BlockEntry(Addr(n, i), heap[Addr(n, i)])
    BY <1>1, <2>1 DEF FuncInv, BoundsOwned, OffHeap
  <2>3. Addr(n, i) \in DOMAIN heap
    BY <1>1, <2>2 DEF FuncInv, RecordsBacked
  <2>4. Addr(n, i) \in Bases /\ heap[Addr(n, i)] \in Lengths
    BY <1>1, <2>3 DEF FuncInv, TypeOK
  <2> DEFINE b == Addr(n, i)
  <2>5. granted[h].bound.lo = b /\ granted[h].bound.hi = RoundUp(b + heap[b])
    BY <2>2, <2>4, BlockFacts
  <2> QED
    BY <2>1, <2>3, <2>5 DEF Within
<1> QED
  BY <1>1, BoundsFollowBlocks, PTL

\* A bound that covers a block whole is the one of its record.
LEMMA UsableOwner ==
    ASSUME FuncInv, NEW b \in DOMAIN heap, NEW h \in Live,
           \A x \in b .. b + heap[b] - 1, kind \in Kinds :
               Covers(granted[h], x, kind)
    PROVE  \E n, i \in Nat : Used(n, i) /\ Addr(n, i) = b /\ Handler(n, i) = h
<1>1. b \in Bases /\ heap[b] \in Lengths
  BY DEF FuncInv, TypeOK
<1>2. b \in HeapArea /\ b \in b .. b + heap[b] - 1
  <2>1. b \in Nat /\ heap[b] \in Nat \ {0} /\ b \in HeapArea
    BY <1>1, BlockFacts
  <2> QED
    BY <2>1
<1>3. Within(b, granted[h].bound)
  <2>1. "R" \in Kinds
    BY DEF Kinds
  <2> QED
    BY <1>2, <2>1 DEF Covers
<1>4. PICK n \in Nat, i \in Nat :
         /\ Used(n, i) /\ Handler(n, i) = h
         /\ granted[h] = BlockEntry(Addr(n, i), heap[Addr(n, i)])
  BY <1>2, <1>3 DEF FuncInv, BoundsOwned, OffHeap
<1>5. Addr(n, i) \in DOMAIN heap
  BY <1>4 DEF FuncInv, RecordsBacked
<1>6. ASSUME Addr(n, i) # b PROVE FALSE
  <2>1. Addr(n, i) \in Bases /\ heap[Addr(n, i)] \in Lengths
    BY <1>5 DEF FuncInv, TypeOK
  <2>2. Apart(b, heap[b], Addr(n, i), heap[Addr(n, i)])
    BY <1>5, <1>6 DEF FuncInv, BlocksApart
  <2>3. ~ Within(b, BlockEntry(Addr(n, i), heap[Addr(n, i)]).bound)
    BY <1>1, <2>1, <2>2, ApartFacts
  <2> QED
    BY <1>3, <1>4, <2>3
<1> QED
  BY <1>4, <1>6

\* The bound of another block is not the one that goes.
LEMMA OwnerStays ==
    ASSUME FuncInv, NEW c \in Nat, NEW k \in Nat, NEW a, NEW old,
           Replaces(c, k, a, old), NEW b \in DOMAIN heap \ {a}, NEW h \in Live,
           \A x \in b .. b + heap[b] - 1, kind \in Kinds :
               Covers(granted[h], x, kind)
    PROVE  h # old
<1>1. PICK n \in Nat, i \in Nat : Used(n, i) /\ Addr(n, i) = b /\ Handler(n, i) = h
  BY UsableOwner
<1>2. h \in 1 .. next - 1
  BY <1>1 DEF FuncInv, RecordsBacked
<1>3. CASE Used(c, k)
  <2>1. Addr(c, k) = a /\ Handler(c, k) = old
    BY <1>3 DEF Replaces
  <2>2. ~ (n = c /\ i = k)
    BY <1>1, <2>1
  <2> QED
    BY <1>1, <1>3, <2>1, <2>2 DEF FuncInv, RecordsUnique
<1>4. CASE ~ Used(c, k)
  <2>1. old \in {-1, 0}
    BY <1>4 DEF Replaces
  <2> QED
    BY <1>2, <2>1
<1> QED
  BY <1>3, <1>4

LEMMA PutsUsable ==
    ASSUME FuncInv, NEW c, NEW k, NEW a, NEW old, NEW base, NEW len,
           Puts(c, k, a, old, base, len),
           NEW b \in DOMAIN heap, Usable(b), b \in DOMAIN heap'
    PROVE  Usable(b)'
<1>1. /\ Recorded(c, k, [addr |-> base, length |-> len, handler |-> next])
      /\ Replaces(c, k, a, old) /\ base \in Bases /\ len \in Lengths /\ TypeOK
  BY DEF Puts, FuncInv
<1>2. c \in Nat /\ k \in Nat
  BY <1>1, RecordedFacts
<1>3. Replaced(a, old, base, len)
  BY <1>1, PutsFields
<1>4. CASE b = base
  <2>1. heap'[b] = len /\ next \in Live' /\ granted'[next] = BlockEntry(base, len)
    BY <1>3, <1>4 DEF Replaced
  <2>2. \A x \in base .. base + len - 1, kind \in Kinds :
           Covers(BlockEntry(base, len), x, kind)
    BY <1>1, BlockCovered
  <2> QED
    BY <1>4, <2>1, <2>2 DEF Usable, Covers, Within
<1>5. CASE b # base
  <2>1. b \in DOMAIN heap \ {a} /\ heap'[b] = heap[b]
    BY <1>3, <1>5 DEF Replaced
  <2>2. PICK h \in Live : \A x \in b .. b + heap[b] - 1, kind \in Kinds :
                              Covers(granted[h], x, kind)
    BY DEF Usable
  <2>3. h # old
    BY <1>1, <1>2, <2>1, <2>2, OwnerStays
  <2>4. h \in Live' /\ granted'[h] = granted[h]
    BY <1>3, <2>3 DEF Replaced
  <2> QED
    BY <2>1, <2>2, <2>4 DEF Usable, Covers, Within
<1> QED
  BY <1>4, <1>5

LEMMA TakesUsable ==
    ASSUME FuncInv, NEW c, NEW k, NEW a, NEW old, Takes(c, k, a, old),
           NEW b \in DOMAIN heap, Usable(b), b \in DOMAIN heap'
    PROVE  Usable(b)'
<1>1. /\ Recorded(c, k, [addr |-> 0, length |-> 0, handler |-> -1])
      /\ Replaces(c, k, a, old) /\ TypeOK
  BY DEF Takes, FuncInv
<1>2. c \in Nat /\ k \in Nat
  BY <1>1, RecordedFacts
<1>3. /\ DOMAIN heap' = DOMAIN heap \ {a}
      /\ \A d \in DOMAIN heap \ {a} : heap'[d] = heap[d]
      /\ Live' = Live \ {old}
      /\ \A h \in Live \ {old} : granted'[h] = granted[h]
  BY <1>1, TakesFields
<1>4. b \in DOMAIN heap \ {a} /\ heap'[b] = heap[b]
  BY <1>3
<1>5. PICK h \in Live : \A x \in b .. b + heap[b] - 1, kind \in Kinds :
                            Covers(granted[h], x, kind)
  BY DEF Usable
<1>6. h # old
  BY <1>1, <1>2, <1>4, <1>5, OwnerStays
<1>7. h \in Live' /\ granted'[h] = granted[h]
  BY <1>3, <1>6
<1> QED
  BY <1>4, <1>5, <1>7 DEF Usable, Covers, Within

LEMMA GrowsUsable ==
    ASSUME heap' = heap, Live \subseteq Live',
           \A h \in Live : granted'[h] = granted[h],
           NEW b \in DOMAIN heap, Usable(b)
    PROVE  Usable(b)'
  BY DEF Usable, Covers, Within

\* A block the library may use stays usable until it is freed or a call returns
\* (_add_bounds, _change_bounds, _del_bounds): no operation takes the bound of
\* another block away.
THEOREM BlocksStayUsable == Spec => UsableUntilReturn
<1>1. ASSUME FuncInv, [Next]_vars, NEW b \in DOMAIN heap, Usable(b),
             b \in DOMAIN heap', ~ PopCross
      PROVE  Usable(b)'
  <2>1. ASSUME NEW len \in Lengths, Malloc(len) PROVE Usable(b)'
    <3>1. PICK k \in Nat, base \in Bases : Puts(current, k, 0, -1, base, len)
      BY <1>1, <2>1, MallocPuts
    <3> QED
      BY <1>1, <3>1, PutsUsable
  <2>2. ASSUME NEW a, NEW len \in Lengths, Realloc(a, len) PROVE Usable(b)'
    <3>1. PICK k \in Nat, old \in Int, base \in Bases :
             Puts(current, k, a, old, base, len)
      BY <1>1, <2>2, ReallocPuts
    <3> QED
      BY <1>1, <3>1, PutsUsable
  <2>3. ASSUME NEW a, Free(a) PROVE Usable(b)'
    <3>1. PICK k \in Nat, old \in Int : Takes(current, k, a, old)
      BY <1>1, <2>3, FreeTakes
    <3> QED
      BY <1>1, <3>1, TakesUsable
  <2>4. ASSUME UNCHANGED <<granted, heap>> PROVE Usable(b)'
    <3>1. heap' = heap /\ Live \subseteq Live'
          /\ \A h \in Live : granted'[h] = granted[h]
      BY <2>4 DEF Live
    <3> QED
      BY <1>1, <3>1, GrowsUsable
  <2>5. ASSUME NEW req \in OtherRequests, OtherAlloc(req) PROVE Usable(b)'
    <3>1. next \notin Live
      BY <1>1 DEF FuncInv, TypeOK
    <3>2. heap' = heap /\ granted' = With(granted, next, RoundedEntry(req))
      BY <2>5 DEF OtherAlloc
    <3>3. Live \subseteq Live' /\ \A h \in Live : granted'[h] = granted[h]
      BY <3>1, <3>2 DEF Live, With
    <3> QED
      BY <1>1, <3>2, <3>3, GrowsUsable
  <2>6. CASE CallIn
    <3>1. heap' = heap /\ Live \subseteq Live'
          /\ \A h \in Live : granted'[h] = granted[h]
      BY <1>1, <2>6, CallInFields DEF CallIn
    <3> QED
      BY <1>1, <3>1, GrowsUsable
  <2>7. ASSUME \/ \E f \in Funcs : SetStart(f)
               \/ SetStep \/ SetFound \/ SetMissed
               \/ \E len \in Lengths : MallocDies(len)
               \/ \E a \in Bases \cup {0}, len \in Lengths : ReallocDies(a, len)
               \/ \E a \in Bases \cup {0} : FreeDies(a)
               \/ PopAborts
               \/ UNCHANGED vars
        PROVE  UNCHANGED <<granted, heap>>
    BY <2>7 DEF SetStart, SetStep, SetFound, SetMissed, MallocDies, ReallocDies,
                FreeDies, PopAborts, Ends, vars
  <2> QED
    BY <1>1, <2>1, <2>2, <2>3, <2>4, <2>5, <2>6, <2>7 DEF Next
<1>2. ASSUME FuncInv, [Next]_vars
      PROVE  \A b \in DOMAIN heap :
                Usable(b) /\ b \in DOMAIN heap' /\ ~ PopCross => Usable(b)'
  BY <1>1, <1>2
<1> QED
  BY <1>2, BoundsFollowBlocks, PTL DEF Spec, UsableUntilReturn

-----------------------------------------------------------------------------
(***************************************************************************)
(* What pop_cross asserts: the handles of a pending call stay live, and so *)
(* does that of a record in use until a return takes it.                   *)
(***************************************************************************)
\* A pending call holds its handles alone, but for 0, which pop_cross skips.
FramesHeld ==
    \A i \in 1 .. Len(cross), k \in 1 .. 3 : cross[i][k] # 0 =>
        /\ cross[i][k] \in Live
        /\ \A n, r \in Nat : Used(n, r) => Handler(n, r) # cross[i][k]
        /\ \A j \in 1 .. Len(cross), l \in 1 .. 3 :
              cross[j][l] = cross[i][k] => j = i

\* What a step does to the blocks, the bounds and the calls.
LEMMA StepKinds ==
    ASSUME FuncInv, [Next]_vars
    PROVE  \/ /\ cross' = cross
              /\ \/ \E c, k, a, old, base, len : Puts(c, k, a, old, base, len)
                 \/ \E c, k, a, old : Takes(c, k, a, old)
                 \/ Leaves /\ Live \subseteq Live'
           \/ CallIn
           \/ PopCross
<1> DEFINE Wrote ==
              /\ cross' = cross
              /\ \/ \E c, k, a, old, base, len : Puts(c, k, a, old, base, len)
                 \/ \E c, k, a, old : Takes(c, k, a, old)
           Grew == cross' = cross /\ Leaves /\ Live \subseteq Live'
<1>1. ASSUME NEW len \in Lengths, Malloc(len) PROVE Wrote
  BY <1>1, MallocPuts
<1>2. ASSUME NEW a, NEW len \in Lengths, Realloc(a, len) PROVE Wrote
  BY <1>2, ReallocPuts
<1>3. ASSUME NEW a, Free(a) PROVE Wrote
  BY <1>3, FreeTakes
<1>4. ASSUME UNCHANGED <<granted, next, heap, nodes, cross>> PROVE Grew
  BY <1>4, StutterLeaves DEF Live
<1>5. ASSUME SetMissed PROVE Grew
  BY <1>5, SetMissedLeaves DEF SetMissed, Live
<1>6. ASSUME NEW req \in OtherRequests, OtherAlloc(req) PROVE Grew
  <2>1. cross' = cross /\ granted' = With(granted, next, RoundedEntry(req))
    BY <1>6 DEF OtherAlloc
  <2>2. Live \subseteq Live'
    BY <2>1 DEF Live, With
  <2> QED
    BY <1>6, <2>1, <2>2, OtherLeaves
<1>7. ASSUME \/ \E f \in Funcs : SetStart(f)
             \/ SetStep \/ SetFound
             \/ \E len \in Lengths : MallocDies(len)
             \/ \E a \in Bases \cup {0}, len \in Lengths : ReallocDies(a, len)
             \/ \E a \in Bases \cup {0} : FreeDies(a)
             \/ PopAborts
             \/ UNCHANGED vars
      PROVE  UNCHANGED <<granted, next, heap, nodes, cross>>
  BY <1>7 DEF SetStart, SetStep, SetFound, MallocDies, ReallocDies, FreeDies,
              PopAborts, Ends, vars
<1>8. Wrote \/ Grew \/ CallIn \/ PopCross
  BY <1>1, <1>2, <1>3, <1>4, <1>5, <1>6, <1>7 DEF Next
<1> QED
  BY <1>8

\* The pending calls keep their handles when the bounds of other owners go and
\* records get new handles only.
LEMMA FramesStay ==
    ASSUME FramesHeld, cross' = cross,
           \A i \in 1 .. Len(cross), k \in 1 .. 3 :
               cross[i][k] # 0 => cross[i][k] \in Live',
           \A n, r \in Nat : Used(n, r)' =>
               \/ Handler(n, r)' \notin Live
               \/ Used(n, r) /\ Handler(n, r)' = Handler(n, r)
    PROVE  FramesHeld'
<1> SUFFICES ASSUME NEW i \in 1 .. Len(cross), NEW k \in 1 .. 3, cross[i][k] # 0
             PROVE  /\ cross[i][k] \in Live'
                    /\ \A n, r \in Nat : Used(n, r)' =>
                          Handler(n, r)' # cross[i][k]
                    /\ \A j \in 1 .. Len(cross), l \in 1 .. 3 :
                          cross[j][l] = cross[i][k] => j = i
  BY DEF FramesHeld
<1>1. /\ cross[i][k] \in Live
      /\ \A n, r \in Nat : Used(n, r) => Handler(n, r) # cross[i][k]
      /\ \A j \in 1 .. Len(cross), l \in 1 .. 3 :
            cross[j][l] = cross[i][k] => j = i
  BY DEF FramesHeld
<1> QED
  BY <1>1

\* The handle that realloc or free takes back is not one of a pending call.
LEMMA FrameSpared ==
    ASSUME FuncInv, FramesHeld, NEW c \in Nat, NEW k \in Nat, NEW a, NEW old,
           Replaces(c, k, a, old), NEW i \in 1 .. Len(cross), NEW l \in 1 .. 3,
           cross[i][l] # 0
    PROVE  cross[i][l] \in Live \ {old}
<1>1. cross[i][l] \in Live /\ cross[i][l] # -1
  <2>1. Live \subseteq 0 .. next - 1 /\ next \in Nat
    BY DEF FuncInv, TypeOK
  <2>2. cross[i][l] \in Live
    BY DEF FramesHeld
  <2> QED
    BY <2>1, <2>2
<1>2. CASE Used(c, k)
  BY <1>1, <1>2 DEF Replaces, FramesHeld
<1>3. CASE ~ Used(c, k)
  BY <1>1, <1>3 DEF Replaces
<1> QED
  BY <1>2, <1>3

LEMMA PutsFrames ==
    ASSUME FuncInv, FramesHeld, NEW c, NEW k, NEW a, NEW old, NEW base, NEW len,
           Puts(c, k, a, old, base, len), cross' = cross
    PROVE  FramesHeld'
<1> DEFINE w == [addr |-> base, length |-> len, handler |-> next]
<1>1. Recorded(c, k, w) /\ Replaces(c, k, a, old) /\ w.handler = next
  BY DEF Puts
<1>2. /\ c \in Nat /\ k \in Nat /\ Handler(c, k)' = next
      /\ \A n, i \in Nat : n # c \/ i # k =>
            /\ Used(n, i)' <=> Used(n, i)
            /\ Used(n, i) => /\ Addr(n, i)' = Addr(n, i)
                             /\ Handler(n, i)' = Handler(n, i)
  <2> HIDE DEF w
  <2> QED
    BY <1>1, RecordedFacts
<1>3. Live' = (Live \ {old}) \cup {next} /\ next \notin Live
  <2>1. TypeOK
    BY DEF FuncInv
  <2>2. Replaced(a, old, base, len)
    BY <2>1, PutsFields
  <2> QED
    BY <2>2 DEF Replaced
<1>4. ASSUME NEW i \in 1 .. Len(cross), NEW l \in 1 .. 3, cross[i][l] # 0
      PROVE  cross[i][l] \in Live'
  <2>1. cross[i][l] \in Live \ {old}
    BY <1>1, <1>2, <1>4, FrameSpared
  <2> QED
    BY <1>3, <2>1
<1>5. \A n, i \in Nat : Used(n, i)' =>
         \/ Handler(n, i)' \notin Live
         \/ Used(n, i) /\ Handler(n, i)' = Handler(n, i)
  BY <1>2, <1>3
<1> QED
  BY <1>4, <1>5, FramesStay

LEMMA TakesFrames ==
    ASSUME FuncInv, FramesHeld, NEW c, NEW k, NEW a, NEW old,
           Takes(c, k, a, old), cross' = cross
    PROVE  FramesHeld'
<1> DEFINE w == [addr |-> 0, length |-> 0, handler |-> -1]
<1>1. Recorded(c, k, w) /\ Replaces(c, k, a, old) /\ w.addr = 0
  BY DEF Takes
<1>2. /\ c \in Nat /\ k \in Nat /\ ~ Used(c, k)'
      /\ \A n, i \in Nat : n # c \/ i # k =>
            /\ Used(n, i)' <=> Used(n, i)
            /\ Used(n, i) => /\ Addr(n, i)' = Addr(n, i)
                             /\ Handler(n, i)' = Handler(n, i)
  <2> HIDE DEF w
  <2> QED
    BY <1>1, RecordedFacts
<1>3. Live' = Live \ {old}
  BY TakesFields DEF FuncInv
<1>4. ASSUME NEW i \in 1 .. Len(cross), NEW l \in 1 .. 3, cross[i][l] # 0
      PROVE  cross[i][l] \in Live'
  <2>1. cross[i][l] \in Live \ {old}
    BY <1>1, <1>2, <1>4, FrameSpared
  <2> QED
    BY <1>3, <2>1
<1>5. \A n, i \in Nat : Used(n, i)' =>
         \/ Handler(n, i)' \notin Live
         \/ Used(n, i) /\ Handler(n, i)' = Handler(n, i)
  BY <1>2
<1> QED
  BY <1>4, <1>5, FramesStay

LEMMA CallInFrames == ASSUME FuncInv, FramesHeld, CallIn PROVE FramesHeld'
<1> DEFINE m == Len(cross)
           f == <<next, next + 1, next + 2>>
<1>1. /\ Live \subseteq 0 .. next - 1 /\ next \in Nat
      /\ cross \in Seq([1 .. 3 -> 0 .. MaxHandles])
  BY DEF FuncInv, TypeOK
<1>2. /\ m \in Nat /\ Len(cross') = m + 1 /\ cross'[m + 1] = f
      /\ \A i \in 1 .. m : cross'[i] = cross[i]
  <2>1. cross' = Append(cross, f)
    BY DEF CallIn
  <2> HIDE DEF f
  <2>2. \A i \in 1 .. m + 1 : i <= m \/ i = m + 1
    BY <1>1, LenProperties
  <2> QED
    BY <1>1, <2>1, <2>2, AppendProperties, LenProperties
<1>3. Live' = Live \cup next .. next + 2
  BY CallInFields
<1>4. ASSUME NEW n \in Nat, NEW r \in Nat, Used(n, r)'
      PROVE  Used(n, r) /\ Handler(n, r)' = Handler(n, r)
             /\ Handler(n, r)' \in 1 .. next - 1
  <2>1. Used(n, r) /\ Handler(n, r)' = Handler(n, r)
    BY <1>4, CallInLeaves DEF Leaves, SameRecords
  <2> QED
    BY <2>1 DEF FuncInv, RecordsBacked
<1>5. \A k \in 1 .. 3 : f[k] \in next .. next + 2
  BY <1>1
<1>6. \A i \in 1 .. m, k \in 1 .. 3 : cross[i][k] \in 0 .. next - 1
  <2> SUFFICES ASSUME NEW i \in 1 .. m, NEW k \in 1 .. 3
               PROVE  cross[i][k] \in 0 .. next - 1
    OBVIOUS
  <2>1. CASE cross[i][k] = 0
    BY <1>1, <2>1 DEF CallIn, FuncInv, CalledBefore
  <2>2. CASE cross[i][k] # 0
    BY <1>1, <2>2 DEF FramesHeld
  <2> QED
    BY <2>1, <2>2
<1> HIDE DEF f
<1>7. \A x \in 0 .. next - 1, y \in next .. next + 2 : x # y
  BY <1>1
<1>8. ASSUME NEW i \in 1 .. m + 1, NEW k \in 1 .. 3, cross'[i][k] # 0
      PROVE  /\ cross'[i][k] \in Live'
             /\ \A n, r \in Nat : Used(n, r)' => Handler(n, r)' # cross'[i][k]
             /\ \A j \in 1 .. m + 1, l \in 1 .. 3 :
                   cross'[j][l] = cross'[i][k] => j = i
  <2>1. CASE i \in 1 .. m
    <3>1. cross'[i][k] = cross[i][k]
      BY <1>2, <2>1
    <3>2. /\ cross[i][k] \in Live
          /\ \A n, r \in Nat : Used(n, r) => Handler(n, r) # cross[i][k]
          /\ \A j \in 1 .. m, l \in 1 .. 3 :
                cross[j][l] = cross[i][k] => j = i
      BY <1>8, <2>1, <3>1 DEF FramesHeld
    <3>3. ASSUME NEW j \in 1 .. m + 1, NEW l \in 1 .. 3,
                 cross'[j][l] = cross'[i][k]
          PROVE  j = i
      <4>1. cross[i][k] \in 0 .. next - 1
        BY <1>6, <2>1
      <4>2. CASE j \in 1 .. m
        BY <1>2, <3>1, <3>2, <3>3, <4>2
      <4>3. CASE j = m + 1
        <5>1. cross'[j][l] \in next .. next + 2
          BY <1>2, <1>5, <4>3
        <5> QED
          BY <1>7, <3>1, <3>3, <4>1, <5>1, Zenon
      <4> QED
        BY <1>2, <4>2, <4>3
    <3> QED
      BY <1>3, <1>4, <3>1, <3>2, <3>3
  <2>2. CASE i = m + 1
    <3>1. cross'[i][k] \in next .. next + 2
      BY <1>2, <1>5, <2>2
    <3>2. \A n, r \in Nat : Used(n, r)' => Handler(n, r)' # cross'[i][k]
      BY <1>1, <1>4, <3>1
    <3>3. ASSUME NEW j \in 1 .. m, NEW l \in 1 .. 3
          PROVE  cross'[j][l] # cross'[i][k]
      <4>1. cross'[j][l] = cross[j][l] /\ cross[j][l] \in 0 .. next - 1
        BY <1>2, <1>6
      <4> QED
        BY <1>7, <3>1, <4>1, Zenon
    <3> QED
      BY <1>2, <1>3, <2>2, <3>1, <3>2, <3>3
  <2>3. i \in 1 .. m \/ i = m + 1
    BY <1>2
  <2> QED
    BY <2>1, <2>2, <2>3, Zenon
<1> QED
  BY <1>2, <1>8 DEF FramesHeld

\* The records of the current name space are those of its node.
LEMMA DelegatedUsed ==
    ASSUME FuncInv, NEW h \in Delegated
    PROVE  \E i \in DOMAIN Records :
              /\ current \in 1 .. Len(nodes) /\ current \in Nat /\ i \in Nat
              /\ Records = nodes[current].records
              /\ Used(current, i) /\ Handler(current, i) = h
<1>1. PICK i \in DOMAIN Records : Records[i].addr # 0 /\ Records[i].handler = h
  BY DEF Delegated
<1>2. current # 0
  BY <1>1 DEF Records
<1>3. TypeOK /\ current \in 1 .. Len(nodes)
  <2>1. TypeOK
    BY DEF FuncInv
  <2>2. current \in 0 .. Len(nodes) /\ Len(nodes) \in Nat
    BY <2>1, NodeFacts DEF TypeOK
  <2> QED
    BY <1>2, <2>1, <2>2
<1>4. Records = nodes[current].records
  BY <1>2 DEF Records
<1>5. i \in 1 .. Len(nodes[current].records)
      /\ Len(nodes[current].records) \in Nat /\ Len(nodes) \in Nat
  BY <1>1, <1>3, <1>4, NodeFacts
<1> QED
  BY <1>1, <1>3, <1>4, <1>5 DEF Used, Handler

LEMMA FrontFields ==
    ASSUME NEW S, NEW s \in Seq(S), s # <<>>
    PROVE  /\ Len(s) \in Nat \ {0} /\ Len(Front(s)) = Len(s) - 1
           /\ Last(s) = s[Len(s)]
           /\ \A i \in 1 .. Len(s) - 1 : Front(s)[i] = s[i]
<1>1. Len(s) \in Nat \ {0}
  BY EmptySeq, LenProperties
<1>2. \A n \in 0 .. Len(s) :
         /\ Len(SubSeq(s, 1, n)) = n
         /\ \A i \in 1 .. n : SubSeq(s, 1, n)[i] = s[i]
  OBVIOUS
<1>3. Len(s) - 1 \in 0 .. Len(s)
  BY <1>1
<1> QED
  BY <1>1, <1>2, <1>3 DEF Front, Last

LEMMA PopCrossFrames == ASSUME FuncInv, FramesHeld, PopCross PROVE FramesHeld'
<1> DEFINE m == Len(cross)
<1>1. /\ cross \in Seq([1 .. 3 -> 0 .. MaxHandles]) /\ cross # <<>>
      /\ cross' = Front(cross) /\ nodes' = nodes
      /\ Live' = Live \ Popped
  BY DEF FuncInv, TypeOK, PopCross, InLibrary, Without, Restrict, Live
<1>2. /\ m \in Nat \ {0} /\ Len(cross') = m - 1 /\ Last(cross) = cross[m]
      /\ \A i \in 1 .. m - 1 : cross'[i] = cross[i]
  BY <1>1, FrontFields
<1>3. DOMAIN cross[m] = 1 .. 3
  BY <1>1, <1>2, ElementOfSeq
<1>4. ASSUME NEW i \in 1 .. m - 1, NEW k \in 1 .. 3, cross[i][k] # 0
      PROVE  cross[i][k] \in Live \ Popped
  <2>1. /\ cross[i][k] \in Live
        /\ \A n, r \in Nat : Used(n, r) => Handler(n, r) # cross[i][k]
        /\ \A j \in 1 .. m, l \in 1 .. 3 : cross[j][l] = cross[i][k] => j = i
    BY <1>2, <1>4 DEF FramesHeld
  <2>2. cross[i][k] \notin Delegated
    BY <2>1, DelegatedUsed
  <2>3. m \in 1 .. m /\ m # i
    BY <1>2
  <2>4. cross[i][k] \notin Range(cross[m])
    BY <1>3, <2>1, <2>3 DEF Range
  <2> QED
    BY <1>2, <2>1, <2>2, <2>4 DEF Popped
<1>5. \A n, r \in Nat : /\ Used(n, r)' <=> Used(n, r)
                        /\ Handler(n, r)' = Handler(n, r)
  BY <1>1 DEF Used, Handler
<1> SUFFICES ASSUME NEW i \in 1 .. m - 1, NEW k \in 1 .. 3, cross[i][k] # 0
             PROVE  /\ cross[i][k] \in Live'
                    /\ \A n, r \in Nat : Used(n, r)' =>
                          Handler(n, r)' # cross[i][k]
                    /\ \A j \in 1 .. m - 1, l \in 1 .. 3 :
                          cross[j][l] = cross[i][k] => j = i
  BY <1>2 DEF FramesHeld
<1>6. i \in 1 .. m /\ \A j \in 1 .. m - 1 : j \in 1 .. m
  BY <1>2
<1>7. /\ \A n, r \in Nat : Used(n, r) => Handler(n, r) # cross[i][k]
      /\ \A j \in 1 .. m, l \in 1 .. 3 : cross[j][l] = cross[i][k] => j = i
  BY <1>6 DEF FramesHeld
<1>8. cross[i][k] \in Live'
  BY <1>1, <1>4
<1>9. \A n, r \in Nat : Used(n, r)' => Handler(n, r)' # cross[i][k]
  BY <1>5, <1>7
<1> QED
  BY <1>6, <1>7, <1>8, <1>9

LEMMA FramesHeldStep ==
    ASSUME FuncInv, FramesHeld, [Next]_vars PROVE FramesHeld'
<1>1. CASE /\ cross' = cross
           /\ \E c, k, a, old, base, len : Puts(c, k, a, old, base, len)
  BY <1>1, PutsFrames
<1>2. CASE cross' = cross /\ \E c, k, a, old : Takes(c, k, a, old)
  BY <1>2, TakesFrames
<1>3. CASE cross' = cross /\ Leaves /\ Live \subseteq Live'
  <2>1. \A i \in 1 .. Len(cross), k \in 1 .. 3 :
           cross[i][k] # 0 => cross[i][k] \in Live'
    BY <1>3 DEF FramesHeld
  <2>2. \A n, r \in Nat : Used(n, r)' =>
           Used(n, r) /\ Handler(n, r)' = Handler(n, r)
    BY <1>3 DEF Leaves, SameRecords
  <2> QED
    BY <1>3, <2>1, <2>2, FramesStay
<1> QED
  BY <1>1, <1>2, <1>3, CallInFrames, PopCrossFrames, StepKinds

\* A block is stranded when the handle in its record is no longer live.
StrandedUsed ==
    \A b : b \in Stranded <=>
        \E n, i \in Nat :
            Used(n, i) /\ Addr(n, i) = b /\ Handler(n, i) \notin Live

LEMMA StrandedMeans == TypeOK /\ RecordsBacked => StrandedUsed
<1> SUFFICES ASSUME TypeOK, RecordsBacked PROVE StrandedUsed
  OBVIOUS
<1>1. 0 \notin DOMAIN heap
  BY BlocksAssumption DEF TypeOK
<1>2. /\ Len(nodes) \in Nat /\ DOMAIN nodes = 1 .. Len(nodes)
      /\ \A n \in 1 .. Len(nodes) :
            /\ Len(nodes[n].records) \in Nat
            /\ DOMAIN nodes[n].records = 1 .. Len(nodes[n].records)
  BY NodeFacts
<1>3. ASSUME NEW b \in Stranded
      PROVE  \E n, i \in Nat :
                Used(n, i) /\ Addr(n, i) = b /\ Handler(n, i) \notin Live
  <2>1. PICK n \in DOMAIN nodes : \E i \in RecordsAt(nodes[n].records, b) :
                                     nodes[n].records[i].handler \notin Live
    BY <1>3 DEF Stranded
  <2>2. PICK i \in RecordsAt(nodes[n].records, b) :
                                     nodes[n].records[i].handler \notin Live
    BY <2>1
  <2>3. b # 0 /\ i \in 1 .. Len(nodes[n].records) /\ n \in 1 .. Len(nodes)
        /\ nodes[n].records[i].addr = b
    BY <1>1, <1>2, <1>3, <2>2 DEF RecordsAt, Stranded
  <2> QED
    BY <1>2, <2>2, <2>3 DEF Used, Addr, Handler
<1>4. ASSUME NEW b, NEW n \in Nat, NEW i \in Nat,
             Used(n, i), Addr(n, i) = b, Handler(n, i) \notin Live
      PROVE  b \in Stranded
  <2>1. /\ b \in DOMAIN heap /\ n \in DOMAIN nodes
        /\ i \in RecordsAt(nodes[n].records, b)
    BY <1>2, <1>4 DEF RecordsBacked, Used, Addr, RecordsAt
  <2> QED
    BY <1>4, <2>1 DEF Stranded, Handler
<1> QED
  BY <1>3, <1>4 DEF StrandedUsed

LEMMA StrandedMeansAfter == (TypeOK /\ RecordsBacked)' => StrandedUsed'
  BY StrandedMeans, PTL

\* No step but a return strands a block.
LEMMA StrandsNone ==
    ASSUME FuncInv, [Next]_vars, ~ PopCross
    PROVE  Stranded' \subseteq Stranded
<1> DEFINE Kept(n, i) ==
              Used(n, i)' /\ Handler(n, i)' \notin Live' =>
                 /\ Used(n, i) /\ Addr(n, i)' = Addr(n, i)
                 /\ Handler(n, i) \notin Live
<1>1. ASSUME NEW c, NEW k, NEW a, NEW old, NEW base, NEW len,
             Puts(c, k, a, old, base, len), NEW n \in Nat, NEW i \in Nat
      PROVE  Kept(n, i)
  <2> DEFINE w == [addr |-> base, length |-> len, handler |-> next]
  <2>1. Recorded(c, k, w) /\ Replaces(c, k, a, old) /\ w.handler = next
    BY <1>1 DEF Puts
  <2> HIDE DEF w
  <2>2. Replaced(a, old, base, len)
    BY <1>1, PutsFields DEF FuncInv
  <2>3. Live' = (Live \ {old}) \cup {next}
    BY <2>2 DEF Replaced
  <2>4. CASE n = c /\ i = k
    <3>1. Handler(n, i)' = next
      BY <2>1, <2>4, RecordedFacts
    <3> QED
      BY <2>3, <3>1
  <2>5. CASE n # c \/ i # k
    <3>1. /\ Used(n, i)' <=> Used(n, i)
          /\ Used(n, i) => /\ Addr(n, i)' = Addr(n, i)
                           /\ Handler(n, i)' = Handler(n, i)
      BY <2>1, <2>5, RecordedFacts
    <3>2. Used(n, i) => Handler(n, i) # old
      BY <2>1, <2>5, OtherRecords
    <3> QED
      BY <2>3, <3>1, <3>2
  <2> QED
    BY <2>4, <2>5
<1>2. ASSUME NEW c, NEW k, NEW a, NEW old, Takes(c, k, a, old),
             NEW n \in Nat, NEW i \in Nat
      PROVE  Kept(n, i)
  <2> DEFINE w == [addr |-> 0, length |-> 0, handler |-> -1]
  <2>1. Recorded(c, k, w) /\ Replaces(c, k, a, old) /\ w.addr = 0
    BY <1>2 DEF Takes
  <2> HIDE DEF w
  <2>2. Live' = Live \ {old}
    BY <1>2, TakesFields DEF FuncInv
  <2>3. CASE n = c /\ i = k
    BY <2>1, <2>3, RecordedFacts
  <2>4. CASE n # c \/ i # k
    <3>1. /\ Used(n, i)' <=> Used(n, i)
          /\ Used(n, i) => /\ Addr(n, i)' = Addr(n, i)
                           /\ Handler(n, i)' = Handler(n, i)
      BY <2>1, <2>4, RecordedFacts
    <3>2. Used(n, i) => Handler(n, i) # old
      BY <2>1, <2>4, OtherRecords
    <3> QED
      BY <2>2, <3>1, <3>2
  <2> QED
    BY <2>3, <2>4
<1>3. ASSUME Leaves, Live \subseteq Live', NEW n \in Nat, NEW i \in Nat
      PROVE  Kept(n, i)
  BY <1>3 DEF Leaves, SameRecords
<1>4. ASSUME CallIn, NEW n \in Nat, NEW i \in Nat PROVE Kept(n, i)
  <2>1. Leaves /\ Live \subseteq Live'
    BY <1>4, CallInLeaves, CallInFields
  <2> QED
    BY <1>3, <2>1
<1>5. \A n, i \in Nat : Kept(n, i)
  BY <1>1, <1>2, <1>3, <1>4, StepKinds
<1>6. FuncInv'
  BY NextFuncInv
<1>7. \A b : b \in Stranded <=>
         \E n, i \in Nat :
            Used(n, i) /\ Addr(n, i) = b /\ Handler(n, i) \notin Live
  BY StrandedMeans DEF FuncInv, StrandedUsed
<1>8. \A b : b \in Stranded' <=>
         \E n, i \in Nat :
            Used(n, i)' /\ Addr(n, i)' = b /\ Handler(n, i)' \notin Live'
  <2>1. TypeOK' /\ RecordsBacked'
    BY <1>6 DEF FuncInv
  <2> QED
    BY <2>1, StrandedMeansAfter DEF StrandedUsed
<1> QED
  BY <1>5, <1>7, <1>8

\* The assertions of pop_cross on its own handles hold, and those on the records
\* fail only for a block whose bound an earlier return took (cross.c:52, 91): no
\* other operation parts a record in use from its bound.
THEOREM AbortsExplained == Spec => AbortsOnlyStranded
<1>1. Init => FuncInv /\ FramesHeld
  <2>1. Init => Len(cross) = 0
    BY DEF Init
  <2> QED
    BY <2>1, InitFuncInv DEF FramesHeld
<1>2. FuncInv /\ FramesHeld /\ [Next]_vars => (FuncInv /\ FramesHeld)'
  BY NextFuncInv, FramesHeldStep
<1>3. ASSUME FuncInv, FramesHeld, PopAborts
      PROVE  \E i \in DOMAIN Records : Records[i].addr \in Stranded
  <2>1. /\ cross \in Seq([1 .. 3 -> 0 .. MaxHandles]) /\ cross # <<>>
        /\ ~ (Popped \subseteq Live)
    BY <1>3 DEF FuncInv, TypeOK, PopAborts, InLibrary
  <2>2. Len(cross) \in 1 .. Len(cross) /\ Last(cross) = cross[Len(cross)]
    BY <2>1, FrontFields
  <2>3. DOMAIN cross[Len(cross)] = 1 .. 3
    BY <2>1, <2>2, ElementOfSeq
  <2>4. Range(Last(cross)) \ {0} \subseteq Live
    BY <1>3, <2>2, <2>3 DEF FramesHeld, Range
  <2>5. PICK h \in Delegated : h \notin Live
    BY <2>1, <2>4 DEF Popped
  <2>6. PICK i \in DOMAIN Records :
           /\ current \in Nat /\ i \in Nat /\ Records = nodes[current].records
           /\ Used(current, i) /\ Handler(current, i) = h
    BY <1>3, DelegatedUsed
  <2>7. Addr(current, i) \in Stranded
    BY <1>3, <2>5, <2>6, StrandedMeans DEF FuncInv, StrandedUsed
  <2> QED
    BY <2>6, <2>7 DEF Addr
<1>4. ASSUME FuncInv, FramesHeld, [Next]_vars
      PROVE  /\ PopAborts =>
                   \E i \in DOMAIN Records : Records[i].addr \in Stranded
             /\ ~ PopCross => Stranded' \subseteq Stranded
  BY <1>3, <1>4, StrandsNone
<1> QED
  BY <1>1, <1>2, <1>4, PTL DEF Spec, AbortsOnlyStranded

-----------------------------------------------------------------------------
(***************************************************************************)
(* bound_num counts the records in use.                                    *)
(***************************************************************************)
InUse(n) == {i \in 1 .. Len(nodes[n].records) : nodes[n].records[i].addr # 0}

LEMMA InUseFacts ==
    ASSUME TypeOK, NEW n \in 1 .. Len(nodes)
    PROVE  /\ IsFiniteSet(InUse(n)) /\ Cardinality(InUse(n)) \in Nat
           /\ Cardinality(DOMAIN nodes[n].records)
                - Cardinality(RecordsAt(nodes[n].records, 0))
                = Cardinality(InUse(n))
<1> DEFINE D == DOMAIN nodes[n].records
           Z == RecordsAt(nodes[n].records, 0)
<1>1. D = 1 .. Len(nodes[n].records) /\ Len(nodes[n].records) \in Nat
  BY NodeFacts
<1>2. IsFiniteSet(D)
  <2>1. \A m \in Int : IsFiniteSet(1 .. m)
    BY FS_Interval
  <2> QED
    BY <1>1, <2>1
<1>3. Z \in SUBSET D /\ InUse(n) = D \ Z /\ InUse(n) \in SUBSET D
      /\ D \cap Z = Z
  BY <1>1 DEF RecordsAt, InUse
<1> HIDE DEF D, Z
<1>4. /\ IsFiniteSet(Z) /\ IsFiniteSet(InUse(n))
      /\ Cardinality(D) \in Nat /\ Cardinality(Z) \in Nat
      /\ Cardinality(InUse(n)) \in Nat
  BY <1>2, <1>3, FS_Subset, FS_CardinalityType
<1>5. Cardinality(D \ Z) = Cardinality(D) - Cardinality(D \cap Z)
  BY <1>2, FS_Difference
<1> QED
  BY <1>3, <1>4, <1>5 DEF D, Z

\* Counted, in terms of the records in use.
CountedInUse ==
    \A n \in 1 .. Len(nodes) : nodes[n].num = Cardinality(InUse(n))

LEMMA CountedMeans == TypeOK => (Counted <=> CountedInUse)
  BY NodeFacts, InUseFacts DEF Counted, CountedInUse

LEMMA CountedMeansAfter == TypeOK' => (Counted' <=> CountedInUse')
  BY CountedMeans, PTL

LEMMA RecordedInUse ==
    ASSUME NEW c, NEW k, NEW r, Recorded(c, k, r), NEW n \in 1 .. Len(nodes)
    PROVE  InUse(n)' = IF n # c THEN InUse(n)
                       ELSE IF r.addr # 0 THEN InUse(n) \cup {k}
                       ELSE InUse(n) \ {k}
<1>1. /\ Len(nodes[n].records) \in Nat /\ Len(nodes'[n].records) \in Nat
      /\ Len(nodes[n].records) <= Len(nodes'[n].records)
      /\ \A i \in 1 .. Len(nodes'[n].records) : n # c \/ i # k =>
            nodes'[n].records[i] = IF i <= Len(nodes[n].records)
                                   THEN nodes[n].records[i] ELSE EmptyRecord
  BY DEF Recorded
<1>2. ASSUME NEW i \in Nat, n # c \/ i # k
      PROVE  i \in InUse(n)' <=> i \in InUse(n)
  BY <1>1, <1>2 DEF InUse, EmptyRecord
<1>3. ASSUME n = c
      PROVE  k \in InUse(n)' <=> r.addr # 0
  BY <1>3 DEF InUse, Recorded
<1>4. InUse(n) \subseteq Nat /\ InUse(n)' \subseteq Nat /\ k \in Nat
  <2>1. k \in Nat
    BY DEF Recorded
  <2> QED
    BY <1>1, <2>1 DEF InUse
<1> QED
  BY <1>2, <1>3, <1>4

\* The count after a record is written, where the count of before was right.
LEMMA PutsCounts ==
    ASSUME FuncInv, TypeOK', CountedInUse, NEW c, NEW k, NEW a, NEW old, NEW r,
           Recorded(c, k, r), Replaces(c, k, a, old), c = current, NEW d \in Int,
           CountsBy(d),
           d = IF r.addr # 0 THEN IF a = 0 THEN 1 ELSE 0
               ELSE IF a = 0 THEN 0 ELSE -1
    PROVE  CountedInUse'
<1>1. TypeOK /\ Len(nodes') = Len(nodes) /\ current \in 1 .. Len(nodes)
  BY DEF FuncInv, Recorded
<1> SUFFICES ASSUME NEW n \in 1 .. Len(nodes)
             PROVE  nodes'[n].num = Cardinality(InUse(n)')
  BY <1>1 DEF CountedInUse
<1>2. nodes[n].num = Cardinality(InUse(n)) /\ IsFiniteSet(InUse(n))
      /\ Cardinality(InUse(n)) \in Nat
  BY <1>1, InUseFacts DEF CountedInUse
<1>3. InUse(n)' = IF n # c THEN InUse(n)
                  ELSE IF r.addr # 0 THEN InUse(n) \cup {k}
                  ELSE InUse(n) \ {k}
  BY RecordedInUse
<1>4. CASE n # c
  BY <1>2, <1>3, <1>4 DEF CountsBy
<1>5. CASE n = c
  <2>1. k \in InUse(n) <=> a # 0
    BY <1>1, <1>5 DEF Replaces, Used, Addr, InUse
  <2>2. nodes'[n].num = nodes[n].num + d
    BY <1>5 DEF CountsBy
  <2>3. /\ Cardinality(InUse(n) \cup {k}) =
              IF k \in InUse(n) THEN Cardinality(InUse(n))
              ELSE Cardinality(InUse(n)) + 1
        /\ Cardinality(InUse(n) \ {k}) =
              IF k \in InUse(n) THEN Cardinality(InUse(n)) - 1
              ELSE Cardinality(InUse(n))
    BY <1>2, FS_AddElement, FS_RemoveElement
  <2>4. CASE r.addr # 0
    BY <1>2, <1>3, <1>5, <2>1, <2>2, <2>3, <2>4
  <2>5. CASE r.addr = 0
    BY <1>2, <1>3, <1>5, <2>1, <2>2, <2>3, <2>5
  <2> QED
    BY <2>4, <2>5
<1> QED
  BY <1>4, <1>5

LEMMA MissedCounts ==
    ASSUME FuncInv, CountedInUse, SetMissed
    PROVE  CountedInUse'
<1>1. /\ Len(nodes) \in Nat /\ nodes \in Seq(FuncNode)
      /\ search.func \in Funcs
  BY NodeFacts DEF FuncInv, TypeOK, SetMissed
<1> DEFINE node == [func |-> search.func, records |-> EmptyRecords, num |-> 0]
<1>2. /\ node \in FuncNode /\ Len(node.records) = Chunk /\ node.num = 0
      /\ \A i \in 1 .. Chunk : node.records[i] = EmptyRecord
  BY <1>1, EmptyFacts DEF FuncNode
<1>3. nodes' = Append(nodes, node)
  BY DEF SetMissed
<1> HIDE DEF node
<1>4. /\ nodes' \in Seq(FuncNode) /\ Len(nodes') = Len(nodes) + 1
      /\ \A n \in 1 .. Len(nodes) : nodes'[n] = nodes[n]
      /\ nodes'[Len(nodes) + 1] = node
  BY <1>1, <1>2, <1>3, AppendProperties
<1> SUFFICES ASSUME NEW n \in 1 .. Len(nodes) + 1
             PROVE  nodes'[n].num = Cardinality(InUse(n)')
  BY <1>4 DEF CountedInUse
<1>5. CASE n \in 1 .. Len(nodes)
  BY <1>4, <1>5 DEF CountedInUse, InUse
<1>6. CASE n = Len(nodes) + 1
  <2>1. InUse(n)' = {}
    BY <1>2, <1>4, <1>6 DEF InUse, EmptyRecord
  <2> QED
    BY <1>2, <1>4, <1>6, <2>1, FS_EmptySet
<1> QED
  BY <1>1, <1>5, <1>6

\* bound_num, which decides when the table must grow (_add_bounds), stays the
\* number of records in use as long as no argument is NULL.
THEOREM CountsStay == Spec => CountKept
<1>1. ASSUME FuncInv, [Next]_vars, ~ NullArgument, CountedInUse, FuncInv'
      PROVE  CountedInUse'
  <2>1. TypeOK'
    BY <1>1 DEF FuncInv
  <2>2. ASSUME NEW len \in Lengths, Malloc(len) PROVE CountedInUse'
    <3>1. PICK k \in Nat, base \in Bases : Puts(current, k, 0, -1, base, len)
      BY <1>1, <2>2, MallocPuts
    <3>2. CountsBy(1)
      BY <1>1, <2>2, MallocPuts
    <3> DEFINE r == [addr |-> base, length |-> len, handler |-> next]
    <3>3. Recorded(current, k, r) /\ Replaces(current, k, 0, -1) /\ r.addr # 0
      BY <3>1, BlockFacts DEF Puts
    <3> HIDE DEF r
    <3> QED
      BY <1>1, <2>1, <3>2, <3>3, PutsCounts
  <2>3. ASSUME NEW a \in Bases \cup {0}, NEW len \in Lengths, Realloc(a, len)
        PROVE  CountedInUse'
    <3>1. PICK k \in Nat, old \in Int, base \in Bases :
             Puts(current, k, a, old, base, len)
      BY <1>1, <2>3, ReallocPuts
    <3>2. CountsBy(0)
      BY <1>1, <2>3, ReallocPuts
    <3>3. a # 0
      BY <1>1, <2>3 DEF NullArgument
    <3> DEFINE r == [addr |-> base, length |-> len, handler |-> next]
    <3>4. Recorded(current, k, r) /\ Replaces(current, k, a, old) /\ r.addr # 0
      BY <3>1, BlockFacts DEF Puts
    <3> HIDE DEF r
    <3> QED
      BY <1>1, <2>1, <3>2, <3>3, <3>4, PutsCounts
  <2>4. ASSUME NEW a \in Bases \cup {0}, Free(a) PROVE CountedInUse'
    <3>1. PICK k \in Nat, old \in Int : Takes(current, k, a, old)
      BY <1>1, <2>4, FreeTakes
    <3>2. CountsBy(-1)
      BY <1>1, <2>4, FreeTakes
    <3>3. a # 0
      BY <1>1, <2>4 DEF NullArgument
    <3> DEFINE r == [addr |-> 0, length |-> 0, handler |-> -1]
    <3>4. Recorded(current, k, r) /\ Replaces(current, k, a, old) /\ r.addr = 0
      BY <3>1 DEF Takes
    <3> HIDE DEF r
    <3> QED
      BY <1>1, <2>1, <3>2, <3>3, <3>4, PutsCounts
  <2>5. CASE SetMissed
    BY <1>1, <2>5, MissedCounts
  <2>6. ASSUME nodes' = nodes PROVE CountedInUse'
    BY <1>1, <2>6 DEF CountedInUse, InUse
  <2>7. ASSUME \/ \E f \in Funcs : SetStart(f)
               \/ SetStep \/ SetFound
               \/ \E len \in Lengths : MallocDies(len)
               \/ \E a \in Bases \cup {0}, len \in Lengths : ReallocDies(a, len)
               \/ \E a \in Bases \cup {0} : FreeDies(a)
               \/ \E req \in OtherRequests : OtherAlloc(req)
               \/ CallIn \/ PopCross \/ PopAborts
               \/ UNCHANGED vars
        PROVE  nodes' = nodes
    BY <2>7 DEF SetStart, SetStep, SetFound, MallocDies, ReallocDies, FreeDies,
                OtherAlloc, CallIn, PopCross, PopAborts, Ends, vars
  <2> QED
    BY <1>1, <2>2, <2>3, <2>4, <2>5, <2>6, <2>7 DEF Next
<1>2. ASSUME FuncInv, FuncInv', [Next]_vars
      PROVE  ~ NullArgument /\ Counted => Counted'
  <2>1. TypeOK /\ TypeOK'
    BY <1>2 DEF FuncInv
  <2> QED
    BY <1>1, <1>2, <2>1, CountedMeans, CountedMeansAfter
<1> QED
  BY <1>2, BoundsFollowBlocks, PTL DEF Spec, CountKept

-----------------------------------------------------------------------------
(***************************************************************************)
(* The list of name spaces. What Forward computes follows from the least   *)
(* place where it would be undefined or different.                         *)
(***************************************************************************)
Walk(f, g, M) == f = [i \in 0 .. M |-> IF i = 0 THEN 0 ELSE g[f[i - 1]]]

LEMMA WalkExists ==
    ASSUME NEW S, 0 \in S, NEW g \in [S -> S], NEW M \in Nat
    PROVE  \E f : Walk(f, g, M)
<1> DEFINE Walks(f, m) == f[0] = 0 /\ \A i \in 1 .. m : f[i] = g[f[i - 1]]
           T == {m \in 0 .. M : ~ \E f \in [0 .. m -> S] : Walks(f, m)}
<1>1. T = {}
  <2> SUFFICES ASSUME T # {} PROVE FALSE
    OBVIOUS
  <2>1. T \in SUBSET Nat
    OBVIOUS
  <2>2. PICK m \in T : \A y \in T : m <= y
    BY <2>1, NatMin
  <2>3. m \in 0 .. M /\ ~ \E f \in [0 .. m -> S] : Walks(f, m)
    OBVIOUS
  <2>4. CASE m = 0
    <3>1. [i \in 0 .. 0 |-> 0] \in [0 .. 0 -> S]
          /\ Walks([i \in 0 .. 0 |-> 0], 0)
      OBVIOUS
    <3> QED
      BY <2>3, <2>4, <3>1
  <2>5. CASE m # 0
    <3>1. m - 1 \in 0 .. M /\ ~ (m <= m - 1)
      BY <2>3, <2>5
    <3>2. PICK f \in [0 .. m - 1 -> S] : Walks(f, m - 1)
      <4>1. m - 1 \notin T
        BY <2>2, <3>1
      <4> QED
        BY <3>1, <4>1
    <3> DEFINE h == [i \in 0 .. m |-> IF i = m THEN g[f[m - 1]] ELSE f[i]]
    <3>3. h \in [0 .. m -> S]
      BY <2>3, <2>5
    <3>4. Walks(h, m)
      BY <2>3, <2>5, <3>2
    <3> QED
      BY <2>3, <3>3, <3>4
  <2> QED
    BY <2>4, <2>5
<1>2. PICK f \in [0 .. M -> S] : Walks(f, M)
  <2>1. M \notin T
    BY <1>1
  <2> QED
    BY <2>1
<1>3. f = [i \in 0 .. M |-> IF i = 0 THEN 0 ELSE g[f[i - 1]]]
  BY <1>2
<1> QED
  BY <1>3 DEF Walk

LEMMA WalkType ==
    ASSUME NEW S, 0 \in S, NEW g \in [S -> S], NEW M \in Nat, NEW f,
           Walk(f, g, M)
    PROVE  \A i \in 0 .. M : f[i] \in S
<1> DEFINE T == {i \in 0 .. M : f[i] \notin S}
<1> SUFFICES ASSUME T # {} PROVE FALSE
  OBVIOUS
<1>1. T \in SUBSET Nat
  OBVIOUS
<1>2. PICK m \in T : \A y \in T : m <= y
  BY <1>1, NatMin
<1>3. m \in 0 .. M /\ f[m] \notin S
  OBVIOUS
<1>4. f[0] = 0 /\ \A i \in 1 .. M : f[i] = g[f[i - 1]]
  BY DEF Walk
<1>5. m \in 1 .. M /\ m - 1 \in 0 .. M /\ ~ (m <= m - 1)
  BY <1>3, <1>4
<1>6. f[m - 1] \in S
  <2>1. m - 1 \notin T
    BY <1>2, <1>5
  <2> QED
    BY <1>5, <2>1
<1>7. f[m] = g[f[m - 1]]
  BY <1>4, <1>5
<1> QED
  BY <1>3, <1>6, <1>7

ForwardWalks ==
    /\ Forward[0] = 0
    /\ \A i \in 1 .. MaxNodes + 1 : Forward[i] = nxt[Forward[i - 1]]
    /\ \A i \in 0 .. MaxNodes + 1 : Forward[i] \in {0} \cup Node

LEMMA ForwardFacts == TypeOK => ForwardWalks
<1> SUFFICES ASSUME TypeOK PROVE ForwardWalks
  OBVIOUS
<1>1. nxt \in [{0} \cup Node -> {0} \cup Node] /\ MaxNodes + 1 \in Nat
  BY NodeFacts, LimitsAssumption DEF TypeOK, Node
<1> DEFINE S == {0} \cup Node
           M == MaxNodes + 1
<1>2. 0 \in S /\ nxt \in [S -> S] /\ M \in Nat
  BY <1>1
<1>3. Forward = CHOOSE f : Walk(f, nxt, M)
  BY DEF Forward, Walk
<1> HIDE DEF S, M
<1>4. \E f : Walk(f, nxt, M)
  BY <1>2, WalkExists
<1>5. Walk(Forward, nxt, M)
  BY <1>3, <1>4
<1>6. \A i \in 0 .. M : Forward[i] \in S
  BY <1>2, <1>5, WalkType
<1>7. Forward[0] = 0 /\ \A i \in 1 .. M : Forward[i] = nxt[Forward[i - 1]]
  BY <1>2, <1>5 DEF Walk
<1> QED
  BY <1>6, <1>7 DEF ForwardWalks, S, M

LEMMA ForwardAfter == TypeOK' => ForwardWalks'
  BY ForwardFacts, PTL

\* The walk before and after a new node n is appended behind the last one.
LEMMA AppendedWalk ==
    ASSUME TypeOK, TypeOK', Linked, NEW N \in Nat, N = Len(nodes),
           Len(nodes') = N + 1, AddTail(N + 1)
    PROVE  /\ prv[0] = Forward[N] /\ prv[0] \in 0 .. N
           /\ \A i \in 0 .. N : Forward'[i] = Forward[i]
           /\ Forward'[N + 1] = N + 1 /\ Forward'[N + 2] = 0
<1>1. /\ DOMAIN nodes = 1 .. N /\ N + 1 <= MaxNodes /\ MaxNodes \in Nat
  <2>1. Len(nodes') <= MaxNodes
    BY DEF TypeOK
  <2> QED
    BY <2>1, NodeFacts, LimitsAssumption
<1>2. /\ Forward[0] = 0
      /\ \A i \in 1 .. MaxNodes + 1 : Forward[i] = nxt[Forward[i - 1]]
      /\ Forward'[0] = 0
      /\ \A i \in 1 .. MaxNodes + 1 : Forward'[i] = nxt'[Forward'[i - 1]]
  BY ForwardFacts, ForwardAfter DEF ForwardWalks
<1>3. /\ \A i \in 1 .. N : Forward[i] \in 1 .. N
      /\ Forward[N + 1] = 0
      /\ \A m \in 0 .. N : prv[nxt[m]] = m
  BY <1>1 DEF Linked
<1>4. /\ nxt \in [{0} \cup Node -> 0 .. N]
      /\ nxt' = [nxt EXCEPT ![N + 1] = 0, ![prv[0]] = N + 1]
      /\ \A m \in 0 .. N + 1 : m \in {0} \cup Node
  <2>1. nxt \in [{0} \cup Node -> 0 .. N]
    BY DEF TypeOK
  <2>2. nxt' = [nxt EXCEPT ![N + 1] = 0, ![prv[0]] = N + 1]
    BY DEF AddTail
  <2>3. \A m \in 0 .. N + 1 : m \in {0} \cup Node
    BY <1>1 DEF Node
  <2> QED
    BY <2>1, <2>2, <2>3
<1>5. \A i \in 0 .. N : Forward[i] \in 0 .. N
  BY <1>2, <1>3
<1>6. prv[0] = Forward[N]
  <2>1. nxt[Forward[N]] = Forward[N + 1]
    BY <1>1, <1>2
  <2> QED
    BY <1>3, <1>5, <2>1
<1>7. prv[0] \in 0 .. N
  BY <1>5, <1>6
<1>8. ASSUME NEW i \in 0 .. N - 1 PROVE Forward[i] # prv[0]
  <2>1. i + 1 \in 1 .. N /\ i + 1 \in 1 .. MaxNodes + 1
    BY <1>1
  <2>2. Forward[i + 1] = nxt[Forward[i]] /\ Forward[N + 1] = nxt[Forward[N]]
    BY <1>1, <1>2, <2>1
  <2>3. Forward[i + 1] # 0
    BY <1>3, <2>1
  <2> QED
    BY <1>3, <1>6, <2>2, <2>3
<1>9. \A m \in 0 .. N : m # prv[0] => nxt'[m] = nxt[m]
  BY <1>4
<1>10. nxt'[prv[0]] = N + 1 /\ nxt'[N + 1] = 0
  BY <1>4, <1>7
<1>11. \A i \in 0 .. N : Forward'[i] = Forward[i]
  <2> DEFINE T == {i \in 0 .. N : Forward'[i] # Forward[i]}
  <2> SUFFICES ASSUME T # {} PROVE FALSE
    OBVIOUS
  <2>1. T \in SUBSET Nat
    OBVIOUS
  <2>2. PICK m \in T : \A y \in T : m <= y
    BY <2>1, NatMin
  <2>3. m \in 0 .. N /\ Forward'[m] # Forward[m]
    OBVIOUS
  <2>4. m \in 1 .. N /\ m - 1 \in 0 .. N - 1 /\ m - 1 \in 0 .. N
        /\ ~ (m <= m - 1) /\ m \in 1 .. MaxNodes + 1
    BY <1>1, <1>2, <2>3
  <2>5. Forward'[m - 1] = Forward[m - 1]
    <3>1. m - 1 \notin T
      BY <2>2, <2>4
    <3> QED
      BY <2>4, <3>1
  <2>6. Forward[m - 1] \in 0 .. N /\ Forward[m - 1] # prv[0]
    BY <1>5, <1>8, <2>4
  <2> QED
    BY <1>2, <1>9, <2>3, <2>4, <2>5, <2>6
<1>12. Forward'[N + 1] = N + 1
  <2>1. N + 1 \in 1 .. MaxNodes + 1 /\ (N + 1) - 1 = N /\ N \in 0 .. N
    BY <1>1
  <2>2. Forward'[N + 1] = nxt'[Forward'[N]] /\ Forward'[N] = prv[0]
    BY <1>2, <1>6, <1>11, <2>1
  <2> QED
    BY <1>10, <2>2
<1>13. Forward'[N + 2] = 0
  <2>1. N + 2 \in 1 .. MaxNodes + 1 /\ (N + 2) - 1 = N + 1
    BY <1>1
  <2> QED
    BY <1>2, <1>10, <1>12, <2>1
<1> QED
  BY <1>6, <1>7, <1>11, <1>12, <1>13

LEMMA AppendedLinked ==
    ASSUME TypeOK, TypeOK', Linked, NEW N \in Nat, N = Len(nodes),
           Len(nodes') = N + 1, AddTail(N + 1)
    PROVE  Linked'
<1>1. /\ DOMAIN nodes = 1 .. N /\ DOMAIN nodes' = 1 .. N + 1
      /\ N + 1 <= MaxNodes /\ MaxNodes \in Nat
  <2>1. Len(nodes') <= MaxNodes /\ DOMAIN nodes' = 1 .. Len(nodes')
    BY LenProperties DEF TypeOK
  <2> QED
    BY <2>1, NodeFacts, LimitsAssumption
<1>2. /\ prv[0] = Forward[N] /\ prv[0] \in 0 .. N
      /\ \A i \in 0 .. N : Forward'[i] = Forward[i]
      /\ Forward'[N + 1] = N + 1 /\ Forward'[N + 2] = 0
  BY AppendedWalk
<1>3. /\ {Forward[i] : i \in 1 .. N} = 1 .. N
      /\ \A m \in 0 .. N : prv[nxt[m]] = m
  BY <1>1 DEF Linked
<1>4. /\ nxt \in [{0} \cup Node -> 0 .. N] /\ prv \in [{0} \cup Node -> 0 .. N]
      /\ nxt' = [nxt EXCEPT ![N + 1] = 0, ![prv[0]] = N + 1]
      /\ prv' = [prv EXCEPT ![0] = N + 1, ![N + 1] = prv[0]]
      /\ \A m \in 0 .. N + 1 : m \in {0} \cup Node
  <2>1. /\ nxt \in [{0} \cup Node -> 0 .. N]
        /\ prv \in [{0} \cup Node -> 0 .. N]
    BY DEF TypeOK
  <2>2. /\ nxt' = [nxt EXCEPT ![N + 1] = 0, ![prv[0]] = N + 1]
        /\ prv' = [prv EXCEPT ![0] = N + 1, ![N + 1] = prv[0]]
    BY DEF AddTail
  <2>3. \A m \in 0 .. N + 1 : m \in {0} \cup Node
    BY <1>1 DEF Node
  <2> QED
    BY <2>1, <2>2, <2>3
<1>5. {Forward'[i] : i \in 1 .. N + 1} = 1 .. N + 1
  <2>1. ASSUME NEW i \in 1 .. N + 1 PROVE Forward'[i] \in 1 .. N + 1
    <3>1. CASE i \in 1 .. N
      <4>1. Forward[i] \in {Forward[j] : j \in 1 .. N}
        BY <3>1
      <4>2. Forward[i] \in 1 .. N /\ i \in 0 .. N
        BY <1>3, <3>1, <4>1
      <4>3. Forward'[i] = Forward[i]
        BY <1>2, <4>2
      <4> QED
        BY <4>2, <4>3
    <3>2. CASE i = N + 1
      BY <1>2, <3>2
    <3> QED
      BY <3>1, <3>2
  <2>2. ASSUME NEW n \in 1 .. N + 1
        PROVE  \E i \in 1 .. N + 1 : Forward'[i] = n
    <3>1. CASE n \in 1 .. N
      <4>1. PICK i \in 1 .. N : Forward[i] = n
        BY <1>3, <3>1
      <4>2. i \in 0 .. N /\ i \in 1 .. N + 1
        OBVIOUS
      <4> QED
        BY <1>2, <4>1, <4>2
    <3>2. CASE n = N + 1
      BY <1>2, <3>2
    <3> QED
      BY <3>1, <3>2
  <2> QED
    BY <2>1, <2>2
<1>6. ASSUME NEW m \in 0 .. N + 1 PROVE prv'[nxt'[m]] = m
  <2>1. CASE m = N + 1
    BY <1>2, <1>4, <2>1
  <2>2. CASE m = prv[0]
    BY <1>2, <1>4, <2>2
  <2>3. CASE m # N + 1 /\ m # prv[0]
    <3>1. m \in 0 .. N /\ nxt'[m] = nxt[m] /\ nxt[m] \in 0 .. N
          /\ prv[nxt[m]] = m
      BY <1>2, <1>3, <1>4, <2>3
    <3>2. nxt[m] # 0 /\ nxt[m] # N + 1
      BY <2>3, <3>1
    <3> QED
      BY <1>4, <3>1, <3>2
  <2> QED
    BY <2>1, <2>2, <2>3
<1>7. Len(nodes') + 1 = N + 2 /\ {0} \cup DOMAIN nodes' = 0 .. N + 1
  BY <1>1
<1>8. /\ {Forward'[i] : i \in 1 .. Len(nodes')} = DOMAIN nodes'
      /\ Forward'[Len(nodes') + 1] = 0
      /\ \A m \in {0} \cup DOMAIN nodes' : prv'[nxt'[m]] = m
  BY <1>1, <1>2, <1>5, <1>6, <1>7
<1> QED
  BY <1>8 DEF Linked

\* Only setting a name space a second time (_list_add of a node found) breaks the
\* list: every other operation keeps all name spaces in reach, once.
THEOREM ListStays == Spec => ListKept
<1>1. ASSUME FuncInv, FuncInv', [Next]_vars, ~ SetFound, Linked
      PROVE  Linked'
  <2>1. TypeOK /\ TypeOK'
    BY <1>1 DEF FuncInv
  <2>2. CASE SetMissed
    <3>1. Len(nodes) \in Nat /\ Len(nodes') = Len(nodes) + 1
          /\ AddTail(Len(nodes) + 1)
      BY <1>1, <2>1, <2>2, NodeFacts, SetMissedLeaves DEF SetMissed
    <3> QED
      BY <1>1, <2>1, <3>1, AppendedLinked
  <2>3. ASSUME nxt' = nxt, prv' = prv, Len(nodes') = Len(nodes)
        PROVE  Linked'
    <3>1. DOMAIN nodes' = DOMAIN nodes
      <4>1. DOMAIN nodes' = 1 .. Len(nodes')
        BY <2>1, LenProperties DEF TypeOK
      <4> QED
        BY <2>1, <2>3, <4>1, NodeFacts
    <3>2. Forward' = Forward
      BY <2>3 DEF Forward
    <3> QED
      BY <1>1, <2>3, <3>1, <3>2 DEF Linked
  <2>4. ASSUME \/ \E f \in Funcs : SetStart(f)
               \/ SetStep
               \/ \E len \in Lengths : MallocDies(len)
               \/ \E a \in Bases \cup {0}, len \in Lengths : ReallocDies(a, len)
               \/ \E a \in Bases \cup {0} : FreeDies(a)
               \/ \E req \in OtherRequests : OtherAlloc(req)
               \/ CallIn \/ PopCross \/ PopAborts
               \/ UNCHANGED vars
        PROVE  nxt' = nxt /\ prv' = prv /\ Len(nodes') = Len(nodes)
    BY <2>4 DEF SetStart, SetStep, MallocDies, ReallocDies, FreeDies,
                OtherAlloc, CallIn, PopCross, PopAborts, Ends, vars, lists
  <2>5. ASSUME \/ \E len \in Lengths : Malloc(len)
               \/ \E a \in Bases \cup {0}, len \in Lengths : Realloc(a, len)
               \/ \E a \in Bases \cup {0} : Free(a)
        PROVE  nxt' = nxt /\ prv' = prv /\ Len(nodes') = Len(nodes)
    BY <1>1, <2>5, MallocPuts, ReallocPuts, FreeTakes DEF lists
  <2> QED
    BY <1>1, <2>2, <2>3, <2>4, <2>5 DEF Next
<1>2. ASSUME FuncInv, FuncInv', [Next]_vars
      PROVE  ~ SetFound /\ Linked => Linked'
  BY <1>1, <1>2
<1> QED
  BY <1>2, BoundsFollowBlocks, PTL DEF Spec, ListKept

=============================================================================
