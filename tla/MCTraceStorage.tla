--------------------------- MODULE MCTraceStorage ---------------------------
(* Model values for the threads of the trace storage runs.  Three threads *)
(* let two readers overlap while a writer waits; two requests let a       *)
(* request be replaced while another thread appends to it or clones it.   *)
EXTENDS TraceStorage, TLC

CONSTANTS t1, t2, t3

MCThreads3 == {t1, t2, t3}

MCThreads2 == {t1, t2}

(* The threads are interchangeable: no step tells one from another. *)
MCSymmetry == Permutations(MCThreads3)
=============================================================================
