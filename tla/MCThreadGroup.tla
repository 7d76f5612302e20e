--------------------------- MODULE MCThreadGroup ---------------------------
(* Small instances of the thread group. *)
EXTENDS ThreadGroup

=============================================================================
