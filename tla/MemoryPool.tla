----------------------------- MODULE MemoryPool -----------------------------
(***************************************************************************)
(* src/core/memory_pool.c: the arena every tensor of the training core     *)
(* lives in.  A weights pool keeps blocks behind headers in a list and     *)
(* gives a freed one out again; an activations or scratch pool only moves  *)
(* its head on until it is reset.  Addresses count from the base, which    *)
(* is page-aligned, so an offset is aligned as its address is.             *)
(***************************************************************************)
EXTENDS Integers, Sequences

CONSTANTS
    Capacity,       \* bytes of the arena
    HeaderSize,     \* sizeof(AllocHeader)
    MinAlignment,   \* POOL_MIN_ALIGNMENT, which tensor_create asks for
    Alignments,     \* what else a caller may ask for
    Sizes           \* bytes a caller may ask for

align_up(x, a) == ((x + a - 1) \div a) * a
Multiple(x, a) == align_up(x, a) = x

ASSUME MemoryPoolAssumption ==
    /\ Capacity \in Nat /\ MinAlignment \in Nat \ {0}
    /\ HeaderSize \in Nat \ {0} /\ Multiple(HeaderSize, MinAlignment)
    /\ Alignments \subseteq Nat \ {0} /\ MinAlignment \in Alignments
    /\ Sizes \subseteq Nat \ {0}

VARIABLES
    type,           \* "weights" or "bump"
    ring_head, used, peak, alloc_count,
    blocks,         \* the headers in list order: [start, size, total_size, in_use]
    live,           \* ghost: what callers hold: [at, size, alignment]
    ragged,         \* ghost: a weights pool was asked for a size or an alignment off the grid
    reused          \* ghost: and then gave a freed block out again

poolVars == <<type, ring_head, used, peak, alloc_count, blocks, live, ragged, reused>>

Larger(x, y) == IF x > y THEN x ELSE y

PoolInit ==
    /\ type \in {"weights", "bump"}
    /\ ring_head = 0 /\ used = 0 /\ peak = 0 /\ alloc_count = 0
    /\ blocks = << >> /\ live = {} /\ ragged = FALSE /\ reused = FALSE
-----------------------------------------------------------------------------
OffGrid(n, a) == a # MinAlignment \/ ~ Multiple(n, MinAlignment)

Commit(n) == used' = used + n /\ peak' = Larger(peak, used + n) /\ alloc_count' = alloc_count + 1
Held(at, n, a) == live' = live \union {[at |-> at, size |-> n, alignment |-> a]}

(* The first free block that is large enough: its data begins where the new     *)
(* alignment puts it, whatever it was laid out for.  The mutant before it takes *)
(* a block in use.                                                              *)
FitsAny(i, n) == blocks[i].size >= n
Fits(i, n) == ~ blocks[i].in_use /\ blocks[i].size >= n

AllocReused(n, a) ==
    /\ type = "weights"
    /\ \E i \in DOMAIN blocks :
         /\ Fits(i, n) /\ \A j \in 1 .. i - 1 : ~ Fits(j, n)
         /\ blocks' = [blocks EXCEPT ![i].in_use = TRUE]
         /\ Commit(blocks[i].size)
         /\ Held(align_up(blocks[i].start + HeaderSize, a), n, a)
    /\ ragged' = (ragged \/ OffGrid(n, a)) /\ reused' = TRUE
    /\ UNCHANGED <<type, ring_head>>

(* No free block: a new one, from the head on, which is not rounded up. *)
AllocNew(n, a) ==
    LET space == align_up(HeaderSize, a) IN
    /\ type = "weights" /\ \A i \in DOMAIN blocks : ~ Fits(i, n)
    /\ ring_head + space + n <= Capacity
    /\ blocks' = Append(blocks, [start |-> ring_head, size |-> n, total_size |-> space + n, in_use |-> TRUE])
    /\ ring_head' = ring_head + space + n
    /\ Commit(n) /\ Held(ring_head + space, n, a)
    /\ ragged' = (ragged \/ OffGrid(n, a))
    /\ UNCHANGED <<type, reused>>

AllocBump(n, a) ==
    LET at == align_up(ring_head, a) IN
    /\ type = "bump" /\ at + n <= Capacity
    /\ ring_head' = at + n /\ used' = at + n
    /\ peak' = Larger(peak, at + n) /\ alloc_count' = alloc_count + 1
    /\ Held(at, n, a)
    /\ UNCHANGED <<type, blocks, ragged, reused>>

(* pool_free walks the list to the first block in use that holds the address; *)
(* in a bump pool it does nothing, and the caller only drops its pointer.     *)
Owns(i, x) ==
    /\ blocks[i].in_use
    /\ blocks[i].start <= x.at /\ x.at < blocks[i].start + blocks[i].total_size

Release(x) ==
    /\ live' = live \ {x}
    /\ \/ /\ \E i \in DOMAIN blocks :
               /\ Owns(i, x) /\ \A j \in 1 .. i - 1 : ~ Owns(j, x)
               /\ blocks' = [blocks EXCEPT ![i].in_use = FALSE]
               /\ used' = IF used >= blocks[i].size THEN used - blocks[i].size ELSE used
          /\ alloc_count' = alloc_count - 1
       \/ (\A i \in DOMAIN blocks : ~ Owns(i, x)) /\ UNCHANGED <<blocks, used, alloc_count>>
    /\ UNCHANGED <<type, ring_head, peak, ragged, reused>>

(* Only for the pools that are not weights; their callers hold nothing after it. *)
Reset ==
    /\ type = "bump"
    /\ ring_head' = 0 /\ used' = 0 /\ alloc_count' = 0 /\ live' = {}
    /\ UNCHANGED <<type, peak, blocks, ragged, reused>>

PoolNext ==
    \/ \E n \in Sizes, a \in Alignments : AllocReused(n, a) \/ AllocNew(n, a) \/ AllocBump(n, a)
    \/ \E x \in live : Release(x)
    \/ Reset

PoolSpec == PoolInit /\ [][PoolNext]_poolVars
-----------------------------------------------------------------------------
(* No two holders share a byte, no holder reaches a header or the end of the   *)
(* arena, and what was asked for aligned is aligned.  The exceptions are       *)
(* named: once a weights pool has been asked for a size or an alignment off    *)
(* the grid, the blocks behind it are not aligned, and a freed block that is   *)
(* given out again may reach into the next one.                                *)
Apart(p, n, q, m) == p + n <= q \/ q + m <= p
Disjoint ==
    /\ \A x \in live : x.at >= 0 /\ x.at + x.size <= Capacity
    /\ \A x, y \in live : x = y \/ Apart(x.at, x.size, y.at, y.size)
    /\ \A x \in live, i \in DOMAIN blocks : Apart(x.at, x.size, blocks[i].start, HeaderSize)
Aligned == \A x \in live : Multiple(x.at, x.alignment)
BytesAreOwned == ((ragged /\ reused) \/ Disjoint) /\ (ragged \/ Aligned)
=============================================================================
