---------------------------- MODULE MCWaitQueue ----------------------------
(* A small instance of WaitQueue for TLC: one waiter, two producers, waits *)
(* on one queue or on two, with and without a deadline.                    *)
EXTENDS WaitQueue

CONSTANTS w0, w1, q0, q1, o0

MCRegistrations == {<<q0>>, <<q0, q1>>, <<q0, q0>>}
MCOneQueue == {<<q0>>}
MCDeadlines == {1, Never}
=============================================================================
