-------------------------------- MODULE MCTcp --------------------------------
(* Instances of Tcp for TLC. *)
EXTENDS Tcp, TLC

\* Both streams wrap around the end of the sequence space.
MCSeq == (Active :> SeqSpace - 2) @@ (Passive :> SeqSpace - 1)

Scenario(out, back, budget, closing) ==
    [keep_alive |-> FALSE, nagle |-> FALSE, ack_delay |-> FALSE, hasty |-> FALSE,
     payload |-> (Active :> out) @@ (Passive :> back), faults |-> budget,
     closes |-> closing]

\* More data than the rings hold; data both ways; an orderly close of both
\* halves; owners that close or abort at any moment; delayed ACKs with
\* Nagle's algorithm; keep-alives on a connection the sender closes.
MCScenarios ==
    { Scenario(3, 0, 1, {}),
      Scenario(1, 1, 1, {}),
      Scenario(1, 0, 1, Sockets),
      [Scenario(0, 0, 1, Sockets) EXCEPT !.hasty = TRUE],
      [Scenario(2, 0, 0, {Active}) EXCEPT !.ack_delay = TRUE, !.nagle = TRUE],
      [Scenario(1, 0, 1, {Active}) EXCEPT !.keep_alive = TRUE] }

\* Keep-alives on a connection whose receiver closes its own half first.
MCKeepAlive == {[Scenario(1, 0, 1, {Passive}) EXCEPT !.keep_alive = TRUE]}

-----------------------------------------------------------------------------
(* The assembler against sets of offsets.  The rings above are too small    *)
(* for more than one gap, so that every map of a longer range is tried.     *)
MaxOffset == 2 * MaxSegments

Begins(H) == {h \in H : h - 1 \notin H}
Ends(H) == {h + 1 : h \in {g \in H : g + 1 \notin H}}
Nth(S, i) == CHOOSE x \in S : Cardinality({y \in S : y < x}) = i - 1

\* The map of the offsets H: one contig for each run, with the hole before it.
ContigsOf(H) ==
    [i \in 1 .. Cardinality(Begins(H)) |->
        LET past == IF i = 1 THEN 0 ELSE Nth(Ends(H), i - 1)
        IN  [hole |-> Nth(Begins(H), i) - past, data |-> Nth(Ends(H), i) - Nth(Begins(H), i)]]

Maps == {H \in SUBSET (0 .. MaxOffset) : Cardinality(Begins(H)) <= MaxSegments}
Leading(H) == CHOOSE n \in 0 .. MaxOffset + 1 : n \notin H /\ 0 .. n - 1 \subseteq H

\* Assembler::add records the union, with one contig per run; it refuses the
\* range, and changes nothing, exactly when the union has too many runs.
AddAgrees(H, offset, size) ==
    LET union == H \cup (offset .. offset + size - 1)
        added == Add(ContigsOf(H), offset, size)
    IN  IF Cardinality(Begins(union)) <= MaxSegments
        THEN added = [ok |-> TRUE, contigs |-> ContigsOf(union)] /\ Held(added.contigs) = union
        ELSE added = [ok |-> FALSE, contigs |-> ContigsOf(H)]

\* add_then_remove_front hands out the leading run of the union and moves the
\* rest to the front; a range that begins at 0 is never refused.
FrontAgrees(H, offset, size) ==
    LET union == H \cup (offset .. offset + size - 1)
        front == AddThenRemoveFront(ContigsOf(H), offset, size)
        n == Leading(union)
    IN  IF offset = 0 \/ Cardinality(Begins(union)) <= MaxSegments
        THEN front = [ok |-> TRUE, len |-> n, contigs |-> ContigsOf({h - n : h \in union \ (0 .. n - 1)})]
        ELSE front = [ok |-> FALSE, len |-> 0, contigs |-> ContigsOf(H)]

ASSUME AssemblerAgrees ==
    \A H \in Maps, offset \in 0 .. MaxOffset : \A size \in 0 .. MaxOffset + 1 - offset :
        AddAgrees(H, offset, size) /\ FrontAgrees(H, offset, size)
=============================================================================
