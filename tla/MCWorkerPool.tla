---------------------------- MODULE MCWorkerPool ----------------------------
(* Work items that come once, twice in a run, and again in a second run.   *)
EXTENDS WorkerPool

MCWorkLists == {<<"x", "y", "x">>, <<"y", "z">>}
=============================================================================
