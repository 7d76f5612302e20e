---------------------------- MODULE MCShootdown ----------------------------
(* Small instances of Shootdown. *)
EXTENDS Shootdown

MCLoads == {{"barrier", "user"}, {"range", "user"}, {"kernel", "defer", "stop"}}
MCRanges == {{"range"}}
MCTargets == {{0, 1}, {2}}
MCAny == SUBSET CPUs
MCLost == [load \in Workloads |-> IF "range" \in load THEN 1 ELSE 0]
MCNoLoss == [load \in Workloads |-> 0]
MCPair == [c \in CPUs |-> IF c < 2 THEN 1 ELSE 0]
MCReuse == [c \in CPUs |-> IF c = 0 THEN 2 ELSE 0]

=============================================================================
