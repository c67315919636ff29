---------------------------- MODULE MCReaderTable ----------------------------
(* ReaderTable with two threads in one process and one in another. *)
EXTENDS ReaderTable, TLC

CONSTANTS p, q, t1, t2, t3

ProcOfThread == [t \in Threads |-> IF t = t3 THEN q ELSE p]
=============================================================================
