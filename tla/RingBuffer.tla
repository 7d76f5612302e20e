----------------------------- MODULE RingBuffer -----------------------------
(***************************************************************************)
(* The byte ring under a TCP socket (dependency/smoltcp, storage/          *)
(* ring_buffer.rs).  A ring is its storage, the index the oldest byte is   *)
(* read at, and the number of allocated bytes.  The bytes past `length`    *)
(* are unallocated, yet the receive path writes there: a segment that      *)
(* arrives out of order is stored at its offset long before it counts.     *)
(* Operators only: each takes a ring and returns the ring after the call.  *)
(***************************************************************************)
LOCAL INSTANCE Integers
LOCAL INSTANCE Sequences
LOCAL INSTANCE FiniteSets

Least(a, b) == IF a < b THEN a ELSE b

\* A new ring of the given size; the owner hands over zeroed storage.
NewRing(size) ==
    [storage |-> [i \in 0 .. size - 1 |-> 0], read_at |-> 0, length |-> 0]

Capacity(r) == Cardinality(DOMAIN r.storage)
Window(r) == Capacity(r) - r.length
GetIdx(r, i) == (r.read_at + i) % Capacity(r)

\* clear forgets the bytes and leaves the storage as it is.
ClearRing(r) == [r EXCEPT !.read_at = 0, !.length = 0]

\* Storage with `data` written from index `at` on, around the end.
Written(r, at, data) ==
    [i \in DOMAIN r.storage |->
        LET k == ((i - at) % Capacity(r)) + 1
        IN  IF k <= Len(data) THEN data[k] ELSE r.storage[i]]

\* A plausible slip: the slice is not cut to the window.
EnqueueSliceUncut(r, data) ==
    LET q == IF r.length = 0 THEN [r EXCEPT !.read_at = 0] ELSE r
    IN  [q EXCEPT !.storage = Written(q, GetIdx(q, q.length), data),
                  !.length = @ + Len(data)]

\* enqueue_slice: an empty ring restarts at index 0, then as much of data as
\* the window holds is stored, in two pieces when it wraps.
EnqueueSlice(r, data) ==
    LET n == Least(Len(data), Window(r))
        q == IF r.length = 0 THEN [r EXCEPT !.read_at = 0] ELSE r
    IN  [q EXCEPT !.storage = Written(q, GetIdx(q, q.length), SubSeq(data, 1, n)),
                  !.length = @ + n]

\* The bytes dequeue_slice hands out for a buffer of n bytes, and the ring
\* they leave behind.
Front(r, n) ==
    [i \in 1 .. Least(n, r.length) |-> r.storage[GetIdx(r, i - 1)]]

DequeueAllocated(r, n) ==
    [r EXCEPT !.length = @ - n, !.read_at = GetIdx(r, n)]

\* get_allocated: at most `size` bytes from `offset` on, cut at the end of
\* the allocated bytes and again at the end of the storage.
GetAllocated(r, offset, size) ==
    IF offset > r.length THEN <<>>
    ELSE LET at == GetIdx(r, offset)
             n == Least(Least(size, r.length - offset), Capacity(r) - at)
         IN  [i \in 1 .. n |-> r.storage[at + i - 1]]

\* A plausible slip: the offset is taken from the oldest byte, not from the
\* first unallocated one.
WriteUnallocatedFromFront(r, offset, data) ==
    LET n == Least(Len(data), Window(r) - offset)
    IN  IF offset > Window(r) THEN r
        ELSE [r EXCEPT !.storage = Written(r, GetIdx(r, offset), SubSeq(data, 1, n))]

\* write_unallocated: data lands `offset` bytes past the allocated ones, as
\* much of it as the window holds; it does not count as received yet.
WriteUnallocated(r, offset, data) ==
    LET n == Least(Len(data), Window(r) - offset)
    IN  IF offset > Window(r) THEN r
        ELSE [r EXCEPT !.storage = Written(r, GetIdx(r, r.length + offset),
                                           SubSeq(data, 1, n))]

EnqueueUnallocated(r, n) == [r EXCEPT !.length = @ + n]
=============================================================================
