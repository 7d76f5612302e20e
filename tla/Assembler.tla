------------------------------ MODULE Assembler ------------------------------
(***************************************************************************)
(* The reassembly map of a TCP socket (dependency/smoltcp, storage/        *)
(* assembler.rs): which bytes past the received ones are already in the    *)
(* ring.  The code's array of contigs, each a hole followed by data, is    *)
(* the sequence of its used entries; offsets are relative, so every change *)
(* to one entry must be made good in the next.  Operators only.            *)
(***************************************************************************)
LOCAL INSTANCE Integers
LOCAL INSTANCE Sequences
LOCAL INSTANCE FiniteSets
LOCAL INSTANCE FiniteSetsExt
LOCAL INSTANCE RingBuffer

CONSTANT MaxSegments   \* ASSEMBLER_MAX_SEGMENT_COUNT

ASSUME MaxSegmentsAssumption == MaxSegments \in Nat \ {0}

TotalSize(c) == c.hole + c.data

\* The offset at which contig i begins.
Start(cs, i) == LET f[n \in 1 .. i] == IF n = 1 THEN 0 ELSE f[n - 1] + TotalSize(cs[n - 1])
                IN  f[i]

\* The offsets the map records as held.
Held(cs) ==
    UNION {Start(cs, i) + cs[i].hole .. Start(cs, i) + TotalSize(cs[i]) - 1 : i \in DOMAIN cs}

Added(cs) == [ok |-> TRUE, contigs |-> cs]
TooManyHoles(cs) == [ok |-> FALSE, contigs |-> cs]

\* add_contig_at for a range that begins and ends inside the hole of contig i.
SplitHole(cs, i, offset, size) ==
    IF Len(cs) = MaxSegments THEN TooManyHoles(cs)
    ELSE Added(SubSeq(cs, 1, i - 1)
               \o << [hole |-> offset, data |-> size],
                     [cs[i] EXCEPT !.hole = @ - offset - size] >>
               \o SubSeq(cs, i + 1, Len(cs)))

\* A range that touches the data of contig i: it swallows every later contig
\* up to `last`, the last one it reaches, and what sticks out past that one
\* (up to `end`) shortens the next hole.
Swallow(cs, i, hole, last, begin, end) ==
    SubSeq(cs, 1, i - 1)
    \o << [hole |-> hole, data |-> end - begin - hole] >>
    \o [k \in 1 .. Len(cs) - last |->
           IF k = 1 THEN [cs[last + 1] EXCEPT !.hole = @ - (end - Start(cs, last + 1))]
           ELSE cs[last + k]]

Coalesce(cs, i, offset, size) ==
    LET begin == Start(cs, i)
        end == begin + offset + size
        last == Max({i} \cup {j \in i + 1 .. Len(cs) : end >= Start(cs, j) + cs[j].hole})
    IN  Added(Swallow(cs, i, Least(offset, cs[i].hole), last, begin,
                      Max({Start(cs, last + 1), end})))

\* Assembler::add.
AddAt(cs, i, offset, size) ==
    IF offset + size < cs[i].hole THEN SplitHole(cs, i, offset, size)
                                  ELSE Coalesce(cs, i, offset, size)

Add(cs, offset, size) ==
    LET hits == {i \in DOMAIN cs : offset <= Start(cs, i + 1)}
    IN  IF size = 0 THEN Added(cs)
        ELSE IF hits # {} THEN AddAt(cs, Min(hits), offset - Start(cs, Min(hits)), size)
        ELSE IF Len(cs) = MaxSegments THEN TooManyHoles(cs)
        ELSE Added(Append(cs, [hole |-> offset - Start(cs, Len(cs) + 1), data |-> size]))

\* remove_front: how many bytes became contiguous, and the map without them.
RemoveFront(cs) ==
    IF cs = <<>> \/ cs[1].hole > 0 THEN [ok |-> TRUE, len |-> 0, contigs |-> cs]
    ELSE [ok |-> TRUE, len |-> cs[1].data, contigs |-> Tail(cs)]

FrontOf(added) ==
    IF added.ok THEN RemoveFront(added.contigs)
    ELSE [ok |-> FALSE, len |-> 0, contigs |-> added.contigs]

\* add_then_remove_front: a segment at offset 0 that ends inside the first
\* hole needs no entry of its own, so it can never be refused.
AddThenRemoveFront(cs, offset, size) ==
    IF offset = 0 /\ cs # <<>> /\ size < cs[1].hole
    THEN [ok |-> TRUE, len |-> size, contigs |-> [cs EXCEPT ![1].hole = @ - size]]
    ELSE FrontOf(Add(cs, offset, size))
=============================================================================
