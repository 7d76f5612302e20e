------------------------------- MODULE MCAsid -------------------------------
(* Small instances of Asid. *)
EXTENDS Asid, TLC

RiscvAsids(n, leaving) == [riscv |-> TRUE, max |-> n, leaving |-> leaving]
RiscvNone == [riscv |-> TRUE, max |-> 0, leaving |-> TRUE]
Loongarch(n) == [riscv |-> FALSE, max |-> n, leaving |-> TRUE]

MCMachines == {RiscvAsids(1, FALSE), RiscvAsids(2, FALSE), RiscvNone, Loongarch(1)}
MCLeaving == {RiscvAsids(1, TRUE)}

Sym == Permutations(CPUs) \cup Permutations(Written) \cup Permutations(MMs \ Written)

=============================================================================
