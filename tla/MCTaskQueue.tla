---------------------------- MODULE MCTaskQueue ----------------------------
(* Small instances of TaskQueue.                                           *)
EXTENDS TaskQueue, TLC

CONSTANTS w1, w2, r1

OneWorker == {w1}
TwoWorkers == {w1, w2}
OneRepo == {r1}

StopDoors == {"api_stop", "dash_stop"}
ApiApproveDoor == {"api_approve"}

\* Workers are interchangeable.
WorkerSymmetry == Permutations(TwoWorkers)
=============================================================================
