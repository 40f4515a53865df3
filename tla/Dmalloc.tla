------------------------------ MODULE Dmalloc ------------------------------
(***************************************************************************)
(* The allocator of the library's own tables (dmalloc.c): blocks are cut   *)
(* from the low end of a chunk obtained with mmap and never given back.    *)
(* Addresses are counted in bytes; differences wrap around at AddrSpace.   *)
(***************************************************************************)
EXTENDS Integers, Sequences

CONSTANTS
    ChunkSize,      \* CHUNK_SIZE
    ChunkBases,     \* the addresses mmap may return
    AddrSpace,      \* number of byte addresses: 2^64
    Sizes,          \* the sizes requested
    MaxBlocks       \* bound on the number of blocks

\* Every caller asks for an array of pointers, words or integers, or for a node.
ASSUME SizesAssumption ==
    \A size \in Sizes : size \in 1 .. ChunkSize /\ size % 4 = 0

\* mmap gives whole pages of its own, inside the address space. A page has more
\* than 32 bytes; that is all that matters here.
ASSUME ChunkAssumption ==
    /\ AddrSpace \in Nat \ {0}
    /\ ChunkSize \in Nat \ {0} /\ ChunkSize % 32 = 0
    /\ \A c \in ChunkBases :
          c \in Nat \ {0} /\ c % 32 = 0 /\ c + ChunkSize <= AddrSpace
    /\ \A c, d \in ChunkBases :
          c = d \/ c + ChunkSize <= d \/ d + ChunkSize <= c

VARIABLES
    base,   \* mmap_base: the first free address, 0 before the first chunk
    top,    \* mmap_top: the end of the current chunk
    chunks, \* the addresses of the chunks mapped
    blocks, \* the blocks handed out, in order, with the end of their chunk
    hung    \* a chunk could not be mapped: while (1)

vars == <<base, top, chunks, blocks, hung>>

Init ==
    /\ base = 0
    /\ top = 0
    /\ chunks = {}
    /\ blocks = <<>>
    /\ hung = FALSE

Bit(x, b) == b * ((x \div b) % 2)

\* Mutants of Round: round down; round to the next even address.
RoundNothing(a) == a - Bit(a, 1) - Bit(a, 4) - Bit(a, 16)
RoundEven(a) == a + (a % 2)

\* ROUND(a, 0x16): add 0x15, then clear the bits of 0x15 (1, 4 and 16).
Round(a) ==
    LET sum == a + 21
    IN  sum - Bit(sum, 1) - Bit(sum, 4) - Bit(sum, 16)

\* mmap_top - mmap_base in unsigned arithmetic.
Left(start) == (top - start) % AddrSpace

\* Mutant of Cut: blocks grow downwards from the base.
CutDown(start, end, size) ==
    /\ base' = start - size
    /\ top' = end
    /\ blocks' = Append(blocks, [lo |-> start, hi |-> start - size, end |-> end])

\* The block [start, start + size), and the chunk that ends at end from there on.
Cut(start, end, size) ==
    /\ base' = start + size
    /\ top' = end
    /\ blocks' = Append(blocks, [lo |-> start, hi |-> start + size, end |-> end])

\* mmap_chunk for a request the current chunk has no room for.
MapChunk(size) ==
    \E new \in ChunkBases \ chunks :
        /\ chunks' = chunks \cup {new}
        /\ Cut(new, new + ChunkSize, size)

(***************************************************************************)
(* dasics_malloc. The very first chunk is rounded like any other base;     *)
(* a chunk mapped because the last one is used up is not. Without memory   *)
(* for a chunk the process hangs.                                          *)
(***************************************************************************)
Asked == ~ hung /\ Len(blocks) < MaxBlocks
Fits(size) == Left(Round(base)) >= size

MallocFirst(size) ==
    /\ Asked
    /\ base = 0
    /\ \E new \in ChunkBases :
          /\ chunks' = {new}
          /\ Cut(Round(new), new + ChunkSize, size)
    /\ UNCHANGED hung

MallocHere(size) ==
    /\ Asked
    /\ base # 0
    /\ Fits(size)
    /\ Cut(Round(base), top, size)
    /\ UNCHANGED <<chunks, hung>>

MallocNext(size) ==
    /\ Asked
    /\ base # 0
    /\ ~ Fits(size)
    /\ MapChunk(size)
    /\ UNCHANGED hung

MallocHangs(size) ==
    /\ Asked
    /\ base = 0 \/ ~ Fits(size)
    /\ base' = IF base = 0 THEN 0 ELSE Round(base)
    /\ hung' = TRUE
    /\ UNCHANGED <<top, chunks, blocks>>

Malloc(size) ==
    MallocFirst(size) \/ MallocHere(size) \/ MallocNext(size)
        \/ MallocHangs(size)

Next == \E size \in Sizes : Malloc(size)

Spec == Init /\ [][Next]_vars

-----------------------------------------------------------------------------
Block == [lo : Nat, hi : Nat, end : Nat]

\* The type invariant.
TypeOK ==
    /\ base \in Nat /\ top \in Nat /\ hung \in BOOLEAN
    /\ chunks \subseteq ChunkBases
    /\ blocks \in Seq(Block)
    /\ \A i \in DOMAIN blocks : blocks[i].lo < blocks[i].hi

\* dasics_string.h:6 says of ROUND "only works for n = power of two". Rounding
\* must not move the base past the end of its chunk, where the room left would
\* be negative: every block lies in the chunk it was cut from.
InsideChunk ==
    \A i \in DOMAIN blocks :
        blocks[i].end - ChunkSize <= blocks[i].lo /\ blocks[i].hi <= blocks[i].end

\* As long as no block leaves its chunk (see InsideChunk), no two blocks share a
\* byte, although the rounding of addresses is not the one the macro is made for
\* and mmap may place chunks side by side.
Disjoint ==
    InsideChunk =>
        \A i, j \in DOMAIN blocks : i # j =>
            blocks[i].hi <= blocks[j].lo \/ blocks[j].hi <= blocks[i].lo

\* The tables the library allocates hold pointers and 64-bit words: whatever is
\* asked for in between, every block is aligned to 8 bytes, inside its chunk or
\* past it.
Aligned == \A i \in DOMAIN blocks : blocks[i].lo % 8 = 0

=============================================================================
