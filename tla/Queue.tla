------------------------------- MODULE Queue -------------------------------
(***************************************************************************)
(* The VecDeque containers of the kernel, as sequences.  The module holds   *)
(* only what the proofs need of SequencesExt and Functions: every proof     *)
(* obligation carries all definitions in scope.                             *)
(***************************************************************************)
EXTENDS Naturals, Sequences

(* The elements of a queue. *)
Elems(q) == { q[i] : i \in DOMAIN q }
(* No element occurs twice. *)
Distinct(q) == \A i, j \in DOMAIN q : q[i] = q[j] => i = j
(* VecDeque::remove(i). *)
Remove(q, i) == SubSeq(q, 1, i-1) \o SubSeq(q, i+1, Len(q))
=============================================================================
