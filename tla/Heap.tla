-------------------------------- MODULE Heap --------------------------------
(***************************************************************************)
(* The coalescing allocator of kernel/heap4.c.  Sizes and addresses are in *)
(* words of four bytes, counted from the start of the heap; arithmetic on  *)
(* sizes wraps, as uint32_t does, at Modulus.  One list in address order   *)
(* holds the free and the allocated blocks.  The allocator has no critical *)
(* section: the application is assumed to serialise its calls.             *)
(***************************************************************************)
EXTENDS Integers, Sequences, FiniteSets

CONSTANTS
    HeapSize,        \* OS_CONFIG_HEAP_SIZE
    Header,          \* sizeof(os_block_header_t)
    Alignment,       \* OS_CONFIG_HEAP_ALIGNMENT
    Modulus,         \* 2^w: bound on the width of sizes and counters
    Sizes            \* sizes the application asks for

ASSUME HeapAssumption ==
    /\ Header \in Nat \ {0}
    /\ Alignment \in Nat \ {0}
    /\ HeapSize \in Nat /\ HeapSize > Header
    /\ Modulus \in Nat /\ Modulus > HeapSize
    /\ Modulus % Alignment = 0          \* both are powers of two
    /\ Sizes \subseteq 0 .. Modulus - 1

VARIABLES
    px_block_list,           \* the blocks, in the order of the list
    free_bytes_remaining,
    min_free_bytes_ever,
    asked                    \* history: address of each live allocation -> size

heap == <<px_block_list, free_bytes_remaining, min_free_bytes_ever, asked>>

Addresses == 0 .. HeapSize - 1
Blocks == [addr : Addresses, size : 0 .. HeapSize, allocated : BOOLEAN]

HeapTypeOK ==
    /\ px_block_list \in Seq(Blocks)
    /\ free_bytes_remaining \in 0 .. Modulus - 1
    /\ min_free_bytes_ever \in 0 .. Modulus - 1
    /\ DOMAIN asked \subseteq Addresses
    /\ \A p \in DOMAIN asked : asked[p] \in Sizes

\* os_heap_init
HeapInit ==
    /\ px_block_list = <<[addr |-> 0, size |-> HeapSize - Header, allocated |-> FALSE]>>
    /\ free_bytes_remaining = HeapSize - Header
    /\ min_free_bytes_ever = HeapSize - Header
    /\ asked = << >>

\* ALIGN_UP, in the width of the machine
AlignUp(size) == (((size + Alignment - 1) % Modulus) \div Alignment) * Alignment

\* BLOCK_DATA(block) + size, the address behind a block
End(b) == b.addr + Header + b.size

Minus(x, y) == (x - y) % Modulus

-----------------------------------------------------------------------------

\* The first free block of at least that size, as a set of at most one index.
FirstFit(bs, size) ==
    {i \in 1 .. Len(bs) :
        /\ ~bs[i].allocated /\ bs[i].size >= size
        /\ \A j \in 1 .. i - 1 : bs[j].allocated \/ bs[j].size < size}

CanSplit(b, size) == b.size >= size + Header + Alignment

\* Block i is allocated with that size; what is left of it becomes a block.
Carved(bs, i, size) ==
    LET b == bs[i]
        mine == [addr |-> b.addr, size |-> IF CanSplit(b, size) THEN size ELSE b.size,
                 allocated |-> TRUE]
        left == [addr |-> End(mine), size |-> b.size - size - Header,
                 allocated |-> FALSE]
    IN  SubSeq(bs, 1, i - 1)
        \o (IF CanSplit(b, size) THEN <<mine, left>> ELSE <<mine>>)
        \o SubSeq(bs, i + 1, Len(bs))

\* What the allocation of that size takes from free_bytes_remaining.
Cost(b, size) == IF CanSplit(b, size) THEN size + Header ELSE b.size

Joined(b, c) == [b EXCEPT !.size = @ + Header + c.size]

\* Mutant: only the previous block is looked at.
MergedBack(bs, i) ==
    IF i > 1 /\ ~bs[i - 1].allocated /\ End(bs[i - 1]) = bs[i].addr
    THEN SubSeq(bs, 1, i - 2) \o <<Joined(bs[i - 1], bs[i])>> \o SubSeq(bs, i + 1, Len(bs))
    ELSE bs

\* prv_insert_block for block i, which is back in its place: it is joined with
\* the previous block, and the result with the next one, if they are free and
\* adjacent.
Merged(bs, i) ==
    LET n == Len(bs)
        back == i > 1 /\ ~bs[i - 1].allocated /\ End(bs[i - 1]) = bs[i].addr
        first == IF back THEN i - 1 ELSE i
        one == IF back THEN Joined(bs[i - 1], bs[i]) ELSE bs[i]
        on == i < n /\ ~bs[i + 1].allocated /\ End(one) = bs[i + 1].addr
    IN  SubSeq(bs, 1, first - 1)
        \o <<IF on THEN Joined(one, bs[i + 1]) ELSE one>>
        \o SubSeq(bs, IF on THEN i + 2 ELSE i + 1, n)

BlockAt(bs, p) == CHOOSE i \in 1 .. Len(bs) : bs[i].addr = p

\* Block at p freed: marked, taken out of the list and inserted again.
Released(bs, p) ==
    LET i == BlockAt(bs, p)
    IN  Merged([bs EXCEPT ![i].allocated = FALSE], i)

-----------------------------------------------------------------------------

Lowest(bytes) ==
    IF bytes < min_free_bytes_ever THEN bytes ELSE min_free_bytes_ever

\* Removes p and adds q, a live allocation of that size, to the history.
Live(gone, q, size) ==
    [p \in (DOMAIN asked \ gone) \cup {q} |-> IF p = q THEN size ELSE asked[p]]

\* os_heap_alloc and os_heap_calloc.  No fitting block: NULL, nothing changes.
Alloc(size) ==
    /\ size > 0
    /\ \E i \in FirstFit(px_block_list, AlignUp(size)) :
          LET b == px_block_list[i]
          IN  /\ px_block_list' = Carved(px_block_list, i, AlignUp(size))
              /\ free_bytes_remaining' =
                    Minus(free_bytes_remaining, Cost(b, AlignUp(size)))
              /\ asked' = Live({}, b.addr, size)
    /\ min_free_bytes_ever' = Lowest(free_bytes_remaining')

\* os_heap_free of a live allocation
Free(p) ==
    /\ px_block_list' = Released(px_block_list, p)
    /\ free_bytes_remaining' =
          (free_bytes_remaining + px_block_list[BlockAt(px_block_list, p)].size) % Modulus
    /\ asked' = [q \in DOMAIN asked \ {p} |-> asked[q]]
    /\ UNCHANGED min_free_bytes_ever

\* os_heap_realloc that shrinks or fits: the pointer is returned as it is.
ReallocInPlace(p, size) ==
    /\ size > 0
    /\ AlignUp(size) <= px_block_list[BlockAt(px_block_list, p)].size
    /\ asked' = Live({}, p, size)
    /\ UNCHANGED <<px_block_list, free_bytes_remaining, min_free_bytes_ever>>

\* os_heap_realloc that grows: a new block is allocated, then the old one freed;
\* when there is none the old one stays.
ReallocMoves(p, size) ==
    LET old == px_block_list[BlockAt(px_block_list, p)]
        words == AlignUp(AlignUp(size))
    IN  /\ AlignUp(size) > old.size
        /\ \E i \in FirstFit(px_block_list, words) :
              LET b == px_block_list[i]
                  low == Minus(free_bytes_remaining, Cost(b, words))
              IN  /\ px_block_list' = Released(Carved(px_block_list, i, words), p)
                  /\ free_bytes_remaining' = (low + old.size) % Modulus
                  /\ min_free_bytes_ever' = Lowest(low)
                  /\ asked' = Live({p}, b.addr, size)

\* A new size of 0 frees.
os_heap_realloc(p) ==
    \E size \in Sizes :
        \/ size = 0 /\ Free(p)
        \/ ReallocInPlace(p, size)
        \/ ReallocMoves(p, size)

HeapNext ==
    \/ \E size \in Sizes : Alloc(size)
    \/ \E p \in DOMAIN asked : Free(p) \/ os_heap_realloc(p)

-----------------------------------------------------------------------------

\* After any sequence of calls the blocks cover the heap without gap or overlap,
\* no two free blocks are adjacent, the allocated blocks are the live ones, and
\* each has the size that was asked for unless rounding that size up wraps
\* (heap4.c:75-122, 175-193, 228-258).
HeapTiled ==
    LET n == Len(px_block_list)
    IN  /\ px_block_list[1].addr = 0
        /\ End(px_block_list[n]) = HeapSize
        /\ \A i \in 1 .. n - 1 :
              /\ End(px_block_list[i]) = px_block_list[i + 1].addr
              /\ px_block_list[i].allocated \/ px_block_list[i + 1].allocated
        /\ DOMAIN asked = {px_block_list[i].addr :
                              i \in {j \in 1 .. n : px_block_list[j].allocated}}
        /\ \A p \in DOMAIN asked :
              asked[p] <= Modulus - Alignment =>
                  asked[p] <= px_block_list[BlockAt(px_block_list, p)].size
=============================================================================
