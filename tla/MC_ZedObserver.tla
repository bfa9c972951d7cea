---------------------------- MODULE MC_ZedObserver ----------------------------
(* ZedObserver for TLC: an old thread with two calls and a second thread with *)
(* one, so that a scan can fail between two threads.                          *)
EXTENDS ZedObserver

CONSTANTS t1, t2, c1, c2, c3

MCThreads == {t1, t2}
MCCalls == {c1, c2, c3}
MCThreadOf == [c \in MCCalls |-> IF c = c3 THEN t2 ELSE t1]

\* One call in each thread, for the runs that check liveness.
MCTwoCalls == {c1, c3}
MCTwoThreadOf == [c \in MCTwoCalls |-> IF c = c3 THEN t2 ELSE t1]
=============================================================================
