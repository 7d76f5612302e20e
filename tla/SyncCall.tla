------------------------------ MODULE SyncCall ------------------------------
(***************************************************************************)
(* What the synchronous requests of os/src/smp.rs promise their callers,   *)
(* without mailboxes, doorbells, sequence numbers and slots: a call that   *)
(* returns Ok has seen every target perform the operation after the call   *)
(* began, or go down; a call that cannot return says so.                   *)
(***************************************************************************)
CONSTANT CPUs

VARIABLES
  owed,    \* the targets that have yet to act for the call of each CPU
  busy,    \* the CPUs that have called
  result,  \* what the last call of each CPU returned
  down     \* the CPUs that have stopped

vars == <<owed, busy, result, down>>

Init ==
  /\ owed = [c \in CPUs |-> {}]
  /\ busy = {}
  /\ result = [c \in CPUs |-> "none"]
  /\ down = {}

Call(c, targets) ==
  /\ c \notin busy
  /\ busy' = busy \cup {c}
  /\ owed' = [owed EXCEPT ![c] = targets]
  /\ result' = [result EXCEPT ![c] = "none"]
  /\ UNCHANGED down

(* One operation of a target may serve several calls. *)
Perform(d, served) ==
  /\ owed' = [c \in CPUs |-> IF c \in served THEN owed[c] \ {d} ELSE owed[c]]
  /\ UNCHANGED <<busy, result, down>>

Stop(d) ==
  /\ down' = down \cup {d}
  /\ UNCHANGED <<owed, busy, result>>

Return(c) ==
  /\ c \in busy /\ owed[c] \subseteq down
  /\ busy' = busy \ {c}
  /\ owed' = [owed EXCEPT ![c] = {}]
  /\ result' = [result EXCEPT ![c] = "ok"]
  /\ UNCHANGED down

Fail(c) ==
  /\ c \in busy
  /\ busy' = busy \ {c}
  /\ owed' = [owed EXCEPT ![c] = {}]
  /\ result' = [result EXCEPT ![c] = "timeout"]
  /\ UNCHANGED down

Next ==
  \E c \in CPUs :
    \/ \E targets \in SUBSET (CPUs \ {c}) : Call(c, targets)
    \/ \E served \in SUBSET CPUs : Perform(c, served)
    \/ Stop(c) \/ Return(c) \/ Fail(c)

Spec == Init /\ [][Next]_vars

=============================================================================
