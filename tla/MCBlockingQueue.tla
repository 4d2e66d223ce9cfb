--------------------------- MODULE MCBlockingQueue ---------------------------
(* Three threads on one queue: a small instance of BlockingQueue for TLC. *)
EXTENDS BlockingQueue

CONSTANTS t1, t2, t3, m1, m2, b
==============================================================================
