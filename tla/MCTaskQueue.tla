---------------------------- MODULE MCTaskQueue ----------------------------
(* TaskQueue on small instances. *)
EXTENDS TaskQueue, TLC

\* Workers are interchangeable.
WorkerSymmetry == Permutations(Workers)
=============================================================================
