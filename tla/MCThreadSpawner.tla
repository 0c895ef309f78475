--------------------------- MODULE MCThreadSpawner ---------------------------
(* Model-checking instance of ThreadSpawner: three threads and two daemons *)
EXTENDS ThreadSpawner, TLC
CONSTANTS t1, t2, t3, d1, d2
MCThreads == {t1, t2, t3}
MCDaemons == {d1, d2}
=============================================================================
