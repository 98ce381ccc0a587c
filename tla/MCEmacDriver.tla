----------------------------- MODULE MCEmacDriver -----------------------------
(* The Ethernet driver with small rings for TLC.                              *)
EXTENDS EmacDriver, TLC

\* Buffers are interchangeable.  Not used where liveness is checked.
BufferSymmetry == Permutations(Buffers)

\* Behaviours are followed up to the race that "lapped" records.  Once something
\* has been sent they are followed with at most one frame or error and while the
\* link is up; with an error also while the receiver is on and up to HandleTxErrors.
NothingSent == txHead = 0 /\ txSem = NumTx /\ opc = "idle" /\ "tx" \notin status \cup irq \cup isr_events
Explored ==
    /\ ~lapped
    /\ \/ NothingSent
       \/ frames <= 1 /\ errors = 0 /\ link
       \/ frames = 0 /\ errors = 1 /\ link /\ rxen /\ ~cleaned
=============================================================================
