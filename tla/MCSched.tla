------------------------------ MODULE MCSched ------------------------------
(* Small instances of Sched for TLC. *)
EXTENDS Sched

CONSTANTS c0, c1, t0, t1

MCCpus == {c0, c1}
MCInit == {t0}
MCOne == {t1}
MCTwo == {t0, t1}
MCPin0 == {{c0}}
MCPin1 == {{c1}}
=============================================================================
