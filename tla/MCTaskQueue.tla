----------------------------- MODULE MCTaskQueue -----------------------------
(* Model-checking instance of TaskQueue: the stages of three tasks, with   *)
(* a tie in priority and the two reads (public and private) of one stage.  *)
EXTENDS TaskQueue
CONSTANTS w1, w2
MCWorkers == {w1, w2}
Entry(t, p, m) == [task |-> t, priority |-> p, metadata |-> m]
MCEntries == {Entry(0, -2, "public"), Entry(0, -2, "private"),
              Entry(1, -2, "public"), Entry(2, -1, "public")}
=============================================================================
