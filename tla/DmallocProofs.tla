--------------------------- MODULE DmallocProofs ---------------------------
(***************************************************************************)
(* Theorems about Dmalloc for chunks of any size in any places.            *)
(***************************************************************************)
EXTENDS Dmalloc, SequenceTheorems, TLAPS

-----------------------------------------------------------------------------
(***************************************************************************)
(* The rounding: what ROUND(a, 0x16) does to an address.                   *)
(***************************************************************************)
LEMMA BitFacts ==
    ASSUME NEW x \in Nat
    PROVE  /\ Bit(x, 1) \in {0, 1} /\ Bit(x, 1) = x % 2
           /\ Bit(x, 4) \in {0, 4} /\ (Bit(x, 4) = 4 <=> x % 8 >= 4)
           /\ Bit(x, 16) \in {0, 16} /\ (Bit(x, 16) = 16 <=> x % 32 >= 16)
<1>1. Bit(x, 1) \in {0, 1} /\ Bit(x, 1) = x % 2
  BY DEF Bit
<1>2. Bit(x, 4) \in {0, 4} /\ (Bit(x, 4) = 4 <=> x % 8 >= 4)
  BY DEF Bit
<1>3. Bit(x, 16) \in {0, 16} /\ (Bit(x, 16) = 16 <=> x % 32 >= 16)
  BY DEF Bit
<1> QED
  BY <1>1, <1>2, <1>3

\* Rounding never goes down, and from a multiple of 4 it ends in one of 8.
LEMMA RoundFacts ==
    ASSUME NEW a \in Nat
    PROVE  /\ Round(a) \in Nat /\ a <= Round(a)
           /\ a % 4 = 0 => Round(a) % 8 = 0
           /\ a % 32 = 0 => Round(a) = a
<1> DEFINE sum == a + 21
<1>1. /\ Bit(sum, 1) \in {0, 1} /\ Bit(sum, 1) = sum % 2
      /\ Bit(sum, 4) \in {0, 4} /\ (Bit(sum, 4) = 4 <=> sum % 8 >= 4)
      /\ Bit(sum, 16) \in {0, 16} /\ (Bit(sum, 16) = 16 <=> sum % 32 >= 16)
  BY BitFacts
<1>2. Round(a) = sum - Bit(sum, 1) - Bit(sum, 4) - Bit(sum, 16)
  BY DEF Round
<1>3. Round(a) \in Nat /\ a <= Round(a)
  BY <1>1, <1>2
<1>4. ASSUME a % 4 = 0 PROVE Round(a) % 8 = 0
  BY <1>1, <1>2, <1>4
<1>5. ASSUME a % 32 = 0 PROVE Round(a) = a
  BY <1>1, <1>2, <1>5
<1> QED
  BY <1>3, <1>4, <1>5

-----------------------------------------------------------------------------
(***************************************************************************)
(* The inductive invariant.                                                *)
(***************************************************************************)
\* The current chunk; every block comes from a chunk mapped before.
Placed ==
    /\ IF base = 0 THEN blocks = <<>> /\ chunks = {}
       ELSE top - ChunkSize \in chunks /\ top - ChunkSize <= base
    /\ \A i \in DOMAIN blocks : blocks[i].end - ChunkSize \in chunks

\* The blocks of the current chunk lie below the base.
Below == \A i \in DOMAIN blocks : blocks[i].end = top => blocks[i].hi <= base

AllocInv ==
    /\ TypeOK /\ Placed /\ Below /\ Disjoint
    /\ Aligned /\ base % 4 = 0

\* The next block [start, start + size) of a chunk that ends at end.
Cuts(start, end, size) ==
    /\ start \in Nat /\ start > 0 /\ start % 8 = 0 /\ end \in Nat
    /\ end - ChunkSize \in chunks' /\ chunks' \subseteq ChunkBases
    /\ chunks \subseteq chunks'
    /\ end - ChunkSize <= start
    /\ \A i \in DOMAIN blocks :
          blocks[i].end = end => blocks[i].hi <= start
    /\ Cut(start, end, size)

LEMMA InitAllocInv == Init => AllocInv
<1> SUFFICES ASSUME Init PROVE AllocInv
  OBVIOUS
<1>1. /\ base = 0 /\ top = 0 /\ chunks = {} /\ blocks = <<>> /\ hung = FALSE
      /\ blocks \in Seq(Block) /\ DOMAIN blocks = {}
  BY DEF Init
<1>2. base % 4 = 0
  BY <1>1
<1>3. TypeOK
  BY <1>1 DEF TypeOK
<1>4. Placed /\ Below /\ Disjoint /\ Aligned
  BY <1>1 DEF Placed, Below, Disjoint, Aligned
<1> QED
  BY <1>2, <1>3, <1>4 DEF AllocInv

LEMMA CutsFields ==
    ASSUME TypeOK, NEW size \in Sizes, NEW start, NEW end, Cuts(start, end, size)
    PROVE  /\ Len(blocks) \in Nat /\ DOMAIN blocks = 1 .. Len(blocks)
           /\ blocks' \in Seq(Block) /\ DOMAIN blocks' = 1 .. Len(blocks) + 1
           /\ \A i \in 1 .. Len(blocks) :
                 blocks'[i] = blocks[i] /\ blocks[i] \in Block
           /\ blocks'[Len(blocks) + 1]
                = [lo |-> start, hi |-> start + size, end |-> end]
           /\ end \in Nat /\ start \in Nat /\ size \in Nat \ {0} /\ size % 4 = 0
           /\ ChunkSize \in Nat /\ base' = start + size /\ top' = end
<1> DEFINE b == [lo |-> start, hi |-> start + size, end |-> end]
<1>1. /\ size \in Nat \ {0} /\ size % 4 = 0 /\ ChunkSize \in Nat
      /\ start \in Nat /\ end \in Nat
      /\ base' = start + size /\ top' = end /\ blocks' = Append(blocks, b)
  BY SizesAssumption, ChunkAssumption DEF Cuts, Cut
<1>2. b \in Block /\ blocks \in Seq(Block)
  BY <1>1 DEF Block, TypeOK
<1> HIDE DEF b
<1>3. /\ blocks' \in Seq(Block) /\ Len(blocks') = Len(blocks) + 1
      /\ \A i \in 1 .. Len(blocks) : blocks'[i] = blocks[i]
      /\ blocks'[Len(blocks) + 1] = b
  BY <1>1, <1>2, AppendProperties
<1>4. /\ Len(blocks) \in Nat /\ DOMAIN blocks = 1 .. Len(blocks)
      /\ DOMAIN blocks' = 1 .. Len(blocks')
      /\ \A i \in 1 .. Len(blocks) : blocks[i] \in Block
  BY <1>2, <1>3, LenProperties, ElementOfSeq
<1> QED
  BY <1>1, <1>3, <1>4 DEF b

LEMMA CutsInv ==
    ASSUME AllocInv, NEW size \in Sizes, NEW start, NEW end,
           Cuts(start, end, size), hung' = hung
    PROVE  AllocInv'
<1> DEFINE N == Len(blocks)
           b == [lo |-> start, hi |-> start + size, end |-> end]
<1>1. /\ N \in Nat /\ DOMAIN blocks = 1 .. N
      /\ blocks' \in Seq(Block) /\ DOMAIN blocks' = 1 .. N + 1
      /\ \A i \in 1 .. N : blocks'[i] = blocks[i] /\ blocks[i] \in Block
      /\ blocks'[N + 1] = b
      /\ end \in Nat /\ start \in Nat /\ size \in Nat \ {0} /\ size % 4 = 0
      /\ ChunkSize \in Nat /\ base' = start + size /\ top' = end
  BY CutsFields DEF AllocInv
<1>2. /\ start > 0 /\ start % 8 = 0
      /\ end - ChunkSize \in chunks' /\ chunks' \subseteq ChunkBases
      /\ chunks \subseteq chunks' /\ end - ChunkSize <= start
      /\ \A i \in DOMAIN blocks : blocks[i].end = end => blocks[i].hi <= start
  BY DEF Cuts
<1>3. \A i \in 1 .. N : /\ blocks[i].lo \in Nat /\ blocks[i].hi \in Nat
                        /\ blocks[i].end \in Nat
  BY <1>1 DEF Block
<1> HIDE DEF N
<1>4. TypeOK'
  <2>1. base' \in Nat /\ top' \in Nat /\ hung' \in BOOLEAN
    BY <1>1 DEF AllocInv, TypeOK
  <2>2. ASSUME NEW i \in 1 .. N + 1 PROVE blocks'[i].lo < blocks'[i].hi
    <3>1. CASE i \in 1 .. N
      BY <1>1, <3>1 DEF AllocInv, TypeOK
    <3>2. CASE i = N + 1
      BY <1>1, <3>2
    <3> QED
      BY <1>1, <3>1, <3>2
  <2> QED
    BY <1>1, <1>2, <2>1, <2>2 DEF TypeOK
<1>5. Placed'
  <2>1. ASSUME NEW i \in 1 .. N + 1 PROVE blocks'[i].end - ChunkSize \in chunks'
    <3>1. CASE i \in 1 .. N
      BY <1>1, <1>2, <3>1 DEF AllocInv, Placed
    <3>2. CASE i = N + 1
      BY <1>1, <1>2, <3>2
    <3> QED
      BY <1>1, <3>1, <3>2
  <2>2. base' # 0 /\ top' - ChunkSize \in chunks'
    BY <1>1, <1>2
  <2>3. top' - ChunkSize <= base'
    BY <1>1, <1>2
  <2> QED
    BY <1>1, <2>1, <2>2, <2>3 DEF Placed
<1>6. Below'
  <2> SUFFICES ASSUME NEW i \in 1 .. N + 1, blocks'[i].end = end
               PROVE  blocks'[i].hi <= start + size
    BY <1>1 DEF Below
  <2>1. CASE i \in 1 .. N
    <3>1. blocks[i].hi <= start /\ blocks[i].hi \in Nat
          /\ blocks'[i].hi = blocks[i].hi
      BY <1>1, <1>2, <1>3, <2>1
    <3> QED
      BY <1>1, <3>1
  <2>2. CASE i = N + 1
    BY <1>1, <2>2
  <2> QED
    BY <1>1, <2>1, <2>2
<1>7. Disjoint'
  <2> SUFFICES ASSUME InsideChunk', NEW i \in 1 .. N + 1, NEW j \in 1 .. N + 1,
                      i # j
               PROVE  \/ blocks'[i].hi <= blocks'[j].lo
                      \/ blocks'[j].hi <= blocks'[i].lo
    BY <1>1 DEF Disjoint
  <2>1. /\ InsideChunk
        /\ \A k \in 1 .. N : /\ blocks[k].end - ChunkSize <= blocks[k].lo
                             /\ blocks[k].hi <= blocks[k].end
        /\ end - ChunkSize <= start /\ start + size <= end
    <3>1. \A k \in 1 .. N + 1 : /\ blocks'[k].end - ChunkSize <= blocks'[k].lo
                                /\ blocks'[k].hi <= blocks'[k].end
      BY <1>1 DEF InsideChunk
    <3>2. /\ b.end - ChunkSize <= b.lo /\ b.hi <= b.end
      BY <1>1, <3>1
    <3>3. \A k \in 1 .. N : /\ blocks[k].end - ChunkSize <= blocks[k].lo
                            /\ blocks[k].hi <= blocks[k].end
      BY <1>1, <3>1
    <3> QED
      BY <1>1, <3>2, <3>3 DEF InsideChunk
  <2>2. ASSUME NEW k \in 1 .. N
        PROVE  blocks[k].hi <= start \/ start + size <= blocks[k].lo
    <3>1. CASE blocks[k].end = end
      BY <1>1, <1>2, <3>1
    <3>2. CASE blocks[k].end # end
      <4>1. blocks[k].end - ChunkSize \in ChunkBases
            /\ end - ChunkSize \in ChunkBases
        BY <1>1, <1>2 DEF AllocInv, Placed
      <4>2. blocks[k].end \in Nat
        BY <1>3
      <4>3. blocks[k].end - ChunkSize # end - ChunkSize
        BY <1>1, <3>2, <4>2
      <4>4. \/ (blocks[k].end - ChunkSize) + ChunkSize <= end - ChunkSize
            \/ (end - ChunkSize) + ChunkSize <= blocks[k].end - ChunkSize
        BY <4>1, <4>3, ChunkAssumption
      <4>5. /\ (blocks[k].end - ChunkSize) + ChunkSize = blocks[k].end
            /\ (end - ChunkSize) + ChunkSize = end
        BY <1>1, <4>2
      <4>6. /\ blocks[k].end - ChunkSize <= blocks[k].lo
            /\ blocks[k].hi <= blocks[k].end
        BY <2>1
      <4>7. blocks[k].lo \in Nat /\ blocks[k].hi \in Nat
        BY <1>3
      <4> QED
        BY <1>1, <2>1, <4>2, <4>4, <4>5, <4>6, <4>7
    <3> QED
      BY <3>1, <3>2
  <2>3. CASE i \in 1 .. N /\ j \in 1 .. N
    BY <1>1, <2>1, <2>3 DEF AllocInv, Disjoint
  <2>4. CASE i = N + 1 /\ j \in 1 .. N
    BY <1>1, <2>2, <2>4
  <2>5. CASE j = N + 1 /\ i \in 1 .. N
    BY <1>1, <2>2, <2>5
  <2> QED
    BY <1>1, <2>3, <2>4, <2>5
<1>8. Aligned'
  <2> SUFFICES ASSUME NEW i \in 1 .. N + 1 PROVE blocks'[i].lo % 8 = 0
    BY <1>1 DEF Aligned
  <2>1. CASE i \in 1 .. N
    BY <1>1, <2>1 DEF AllocInv, Aligned
  <2>2. CASE i = N + 1
    BY <1>1, <1>2, <2>2
  <2> QED
    BY <1>1, <2>1, <2>2
<1>9. base' % 4 = 0
  BY <1>1, <1>2
<1> QED
  BY <1>4, <1>5, <1>6, <1>7, <1>8, <1>9 DEF AllocInv

-----------------------------------------------------------------------------
(***************************************************************************)
(* Every way to hand out a block cuts it so.                               *)
(***************************************************************************)
LEMMA FirstCuts ==
    ASSUME AllocInv, NEW size \in Sizes, MallocFirst(size)
    PROVE  \E start, end : Cuts(start, end, size)
<1>1. PICK new \in ChunkBases :
         /\ chunks' = {new}
         /\ Cut(Round(new), new + ChunkSize, size)
  BY DEF MallocFirst
<1>2. new \in Nat \ {0} /\ new % 32 = 0 /\ ChunkSize \in Nat
  BY ChunkAssumption
<1>3. Round(new) = new
  BY <1>2, RoundFacts
<1>4. blocks = <<>> /\ DOMAIN blocks = {}
  BY DEF MallocFirst, AllocInv, Placed
<1>5. chunks = {}
  BY DEF MallocFirst, AllocInv, Placed
<1> QED
  BY <1>1, <1>2, <1>3, <1>4, <1>5 DEF Cuts

LEMMA HereCuts ==
    ASSUME AllocInv, NEW size \in Sizes, MallocHere(size)
    PROVE  \E start, end : Cuts(start, end, size)
<1>1. /\ base # 0 /\ Cut(Round(base), top, size) /\ chunks' = chunks
  BY DEF MallocHere
<1>2. /\ base \in Nat \ {0} /\ base % 4 = 0 /\ top \in Nat
      /\ top - ChunkSize \in chunks /\ top - ChunkSize <= base
      /\ chunks \subseteq ChunkBases /\ ChunkSize \in Nat
      /\ \A i \in DOMAIN blocks : blocks[i].end = top => blocks[i].hi <= base
  BY <1>1, ChunkAssumption DEF AllocInv, TypeOK, Placed, Below
<1>3. /\ Round(base) \in Nat /\ base <= Round(base) /\ Round(base) % 8 = 0
  BY <1>2, RoundFacts
<1>4. top - ChunkSize <= Round(base)
  BY <1>2, <1>3
<1>5. ASSUME NEW i \in DOMAIN blocks, blocks[i].end = top
      PROVE  blocks[i].hi <= Round(base)
  <2>1. blocks[i].hi <= base /\ blocks[i].hi \in Nat
    <3>1. blocks[i] \in Block
      BY LenProperties, ElementOfSeq DEF AllocInv, TypeOK
    <3> QED
      BY <1>2, <1>5, <3>1 DEF Block
  <2> QED
    BY <1>2, <1>3, <2>1
<1> QED
  BY <1>1, <1>2, <1>3, <1>4, <1>5 DEF Cuts

LEMMA NextCuts ==
    ASSUME AllocInv, NEW size \in Sizes, MallocNext(size)
    PROVE  \E start, end : Cuts(start, end, size)
<1>1. PICK new \in ChunkBases \ chunks :
         /\ chunks' = chunks \cup {new}
         /\ Cut(new, new + ChunkSize, size)
  BY DEF MallocNext, MapChunk
<1>2. new \in Nat \ {0} /\ new % 8 = 0 /\ ChunkSize \in Nat
  <2>1. new \in Nat \ {0} /\ new % 32 = 0 /\ ChunkSize \in Nat
    BY ChunkAssumption
  <2> QED
    BY <2>1
<1>3. (new + ChunkSize) - ChunkSize = new /\ new + ChunkSize \in Nat
  BY <1>2
<1>4. ASSUME NEW i \in DOMAIN blocks PROVE blocks[i].end # new + ChunkSize
  BY <1>3 DEF AllocInv, Placed
<1>5. chunks' \subseteq ChunkBases
  BY <1>1 DEF AllocInv, TypeOK
<1> QED
  BY <1>1, <1>2, <1>3, <1>4, <1>5 DEF Cuts

LEMMA HangsInv ==
    ASSUME AllocInv, NEW size \in Sizes, MallocHangs(size)
    PROVE  AllocInv'
<1>1. /\ base' = IF base = 0 THEN 0 ELSE Round(base)
      /\ hung' = TRUE /\ UNCHANGED <<top, chunks, blocks>>
  BY DEF MallocHangs
<1>2. base \in Nat /\ base % 4 = 0 /\ top \in Nat /\ ChunkSize \in Nat
  BY ChunkAssumption DEF AllocInv, TypeOK
<1>3. /\ Round(base) \in Nat /\ base <= Round(base) /\ Round(base) % 8 = 0
  BY <1>2, RoundFacts
<1>4. /\ base' \in Nat /\ base <= base' /\ base' % 4 = 0
      /\ base' = 0 <=> base = 0
  BY <1>1, <1>2, <1>3
<1>5. TypeOK' /\ Disjoint' /\ Aligned'
  BY <1>1, <1>4 DEF AllocInv, TypeOK, Disjoint, Aligned, InsideChunk
<1>6. Placed'
  <2>1. base # 0 => top - ChunkSize <= base'
    BY <1>2, <1>4 DEF AllocInv, Placed
  <2> QED
    BY <1>1, <1>4, <2>1 DEF AllocInv, Placed
<1>7. Below'
  <2> SUFFICES ASSUME NEW i \in DOMAIN blocks, blocks[i].end = top
               PROVE  blocks[i].hi <= base'
    BY <1>1 DEF Below
  <2>1. blocks[i].hi <= base /\ blocks[i].hi \in Nat
    <3>1. blocks[i] \in Block
      BY LenProperties, ElementOfSeq DEF AllocInv, TypeOK
    <3> QED
      BY <3>1 DEF Block, AllocInv, Below
  <2> QED
    BY <1>2, <1>4, <2>1
<1> QED
  BY <1>4, <1>5, <1>6, <1>7 DEF AllocInv

LEMMA NextAllocInv == AllocInv /\ [Next]_vars => AllocInv'
<1> SUFFICES ASSUME AllocInv, [Next]_vars PROVE AllocInv'
  OBVIOUS
<1>1. ASSUME NEW size \in Sizes, MallocFirst(size) PROVE AllocInv'
  BY <1>1, FirstCuts, CutsInv DEF MallocFirst
<1>2. ASSUME NEW size \in Sizes, MallocHere(size) PROVE AllocInv'
  BY <1>2, HereCuts, CutsInv DEF MallocHere
<1>3. ASSUME NEW size \in Sizes, MallocNext(size) PROVE AllocInv'
  BY <1>3, NextCuts, CutsInv DEF MallocNext
<1>4. ASSUME NEW size \in Sizes, MallocHangs(size) PROVE AllocInv'
  BY <1>4, HangsInv
<1>5. CASE UNCHANGED vars
  BY <1>5 DEF vars, AllocInv, TypeOK, Placed, Below, Disjoint, Aligned, InsideChunk
<1> QED
  BY <1>1, <1>2, <1>3, <1>4, <1>5 DEF Next, Malloc

\* The base of the allocator lies above every block of its chunk.
THEOREM BaseAboveBlocks == Spec => []AllocInv
<1> QED
  BY InitAllocInv, NextAllocInv, PTL DEF Spec

\* The type invariant.
THEOREM TypeCorrect == Spec => []TypeOK
<1>1. AllocInv => TypeOK
  BY DEF AllocInv
<1> QED
  BY <1>1, BaseAboveBlocks, PTL

\* dasics_malloc hands out no byte twice while its blocks stay in their chunks.
THEOREM BlocksDisjoint == Spec => []Disjoint
<1>1. AllocInv => Disjoint
  BY DEF AllocInv
<1> QED
  BY <1>1, BaseAboveBlocks, PTL

\* Every block dasics_malloc hands out is aligned to 8 bytes, although a request
\* is only a multiple of 4 and the rounding is not to a power of two.
THEOREM BlocksAligned == Spec => []Aligned
<1>1. AllocInv => Aligned
  BY DEF AllocInv
<1> QED
  BY <1>1, BaseAboveBlocks, PTL

=============================================================================
