------------------------------- MODULE MemPool -------------------------------
(***************************************************************************)
(* A pool of fixed-size blocks, kernel/mempool.c.  Sizes and addresses are *)
(* in bytes and wrap at SizeModulus, as uint32_t and pointers do: aligning *)
(* a small buffer may leave less than nothing of it, and rounding a large  *)
(* block size up may give 0.                                               *)
(* The free list runs through the first word of the free blocks, which the *)
(* user of an allocated block overwrites: the model keeps that word only   *)
(* while the block is free.  Calls are assumed to be serialised, the code  *)
(* has no critical section; that a block is not freed twice is the         *)
(* application's duty, the code does not check it.                         *)
(***************************************************************************)
EXTENDS Integers, Sequences, FiniteSets

CONSTANTS
    Pointer,         \* sizeof(void*)
    SizeModulus,     \* 2^w: the width of uint32_t
    BufferStarts,    \* addresses of buffers the application passes
    BufferSizes,     \* and their sizes
    BlockSizes       \* block sizes the application asks for

\* A buffer is a region of the address space, and not at NULL.
ASSUME PoolAssumption ==
    /\ Pointer \in Nat \ {0}
    /\ SizeModulus \in Nat \ {0}
    /\ SizeModulus % Pointer = 0
    /\ BufferStarts \subseteq 1 .. SizeModulus - 1
    /\ BufferSizes \subseteq 1 .. SizeModulus - 1
    /\ \A start \in BufferStarts, size \in BufferSizes : start + size <= SizeModulus
    /\ BlockSizes \subseteq 1 .. SizeModulus - 1

VARIABLES
    pool,            \* pool_start, pool_end, block_size and total_blocks
    free_list,       \* addresses of the free blocks, in the order of the links
    free_count,
    min_free_count,
    buffer,          \* history: the buffer, as an interval
    held             \* history: addresses of the blocks the application has

mempool == <<pool, free_list, free_count, min_free_count, buffer, held>>

\* POOL_ALIGN_SIZE
PoolAlign(s) == (((s + Pointer - 1) % SizeModulus) \div Pointer) * Pointer

\* prv_calc_stride
Stride(block_size) ==
    IF PoolAlign(block_size) < Pointer THEN Pointer ELSE PoolAlign(block_size)

NoPool == [start |-> 0, end |-> 0, block_size |-> 0, total |-> 0]

MemPoolInit ==
    /\ pool = NoPool
    /\ free_list = << >>
    /\ free_count = 0
    /\ min_free_count = 0
    /\ buffer = [from |-> 0, to |-> 0]
    /\ held = {}

MemPoolTypeOK ==
    /\ free_list \in Seq(Nat)
    /\ free_count \in 0 .. pool.total
    /\ min_free_count \in 0 .. pool.total
    /\ held \subseteq Nat

\* aligned_buf
Aligned(start) ==
    IF PoolAlign(start) < start THEN PoolAlign(start) + Pointer ELSE PoolAlign(start)

\* os_mempool_create on the buffer at start, which succeeds if a block fits:
\* the list is built by pushing the blocks one by one.
Create(start, size, block_size) ==
    LET first == Aligned(start)
        stride == Stride(block_size)
        usable == (size - (first - start)) % SizeModulus
        blocks == usable \div stride
    IN  /\ pool = NoPool
        /\ usable >= Pointer
        /\ blocks > 0
        /\ pool' = [start |-> first, end |-> (first + blocks * stride) % SizeModulus,
                    block_size |-> block_size, total |-> blocks]
        /\ free_list' = [i \in 1 .. blocks |-> (first + (blocks - i) * stride) % SizeModulus]
        /\ free_count' = blocks
        /\ min_free_count' = blocks
        /\ buffer' = [from |-> start, to |-> start + size]
        /\ UNCHANGED held

\* os_mempool_alloc
PoolAlloc ==
    /\ free_count > 0
    /\ free_list' = Tail(free_list)
    /\ free_count' = free_count - 1
    /\ min_free_count' = IF free_count' < min_free_count THEN free_count'
                         ELSE min_free_count
    /\ held' = held \cup {Head(free_list)}
    /\ UNCHANGED <<pool, buffer>>

\* The checks of os_mempool_free: an address in the pool, at a block boundary.
Accepted(ptr) ==
    /\ ptr >= pool.start /\ ptr < pool.end
    /\ (ptr - pool.start) % Stride(pool.block_size) = 0

\* os_mempool_free.  The application may pass any address of its buffer, or of
\* a block it was given, that is not that of a free block; one that is refused
\* changes nothing.
PoolFree(ptr) ==
    IF Accepted(ptr)
    THEN /\ free_list' = <<ptr>> \o free_list
         /\ free_count' = free_count + 1
         /\ held' = held \ {ptr}
         /\ UNCHANGED <<pool, min_free_count, buffer>>
    ELSE UNCHANGED mempool

NotFree ==
    ((buffer.from .. buffer.to) \cup held) \ {free_list[i] : i \in 1 .. Len(free_list)}

MemPoolNext ==
    \/ \E start \in BufferStarts, size \in BufferSizes, block_size \in BlockSizes :
          Create(start, size, block_size)
    \/ PoolAlloc
    \/ \E ptr \in NotFree : PoolFree(ptr)

-----------------------------------------------------------------------------

\* "The buffer must be large enough to hold at least one block + overhead"
\* (mempool.h:38), of which only this is needed: the first aligned address is
\* in the buffer, and the block size can be rounded up.  Otherwise the code
\* takes memory outside the buffer where it should return OS_ERR_NOMEM.
LargeEnough ==
    /\ pool.start \in buffer.from .. buffer.to
    /\ pool.block_size <= SizeModulus - Pointer

\* Whatever the alignment and size of the buffer and the order of the calls, the
\* free and the used blocks are as many as the pool was created with, aligned
\* and different, and an address that is not a block is never taken in.  If the
\* buffer was large enough they are inside it and no two of them overlap
\* (mempool.c:45-52, 67-103, 129-153).
PoolExact ==
    LET free == {free_list[i] : i \in 1 .. Len(free_list)}
        blocks == free \cup held
    IN  /\ Len(free_list) = free_count
        /\ free \cap held = {}
        /\ Cardinality(blocks) = pool.total
        /\ Cardinality(free) = free_count
        /\ min_free_count <= free_count
        /\ \A p \in blocks :
              /\ p % Pointer = 0
              /\ LargeEnough =>
                    /\ p >= buffer.from /\ p + pool.block_size <= buffer.to
                    /\ \A q \in blocks : q > p => q >= p + pool.block_size
=============================================================================
