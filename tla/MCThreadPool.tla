----------------------------- MODULE MCThreadPool -----------------------------
(* Small instances of ThreadPool for TLC.                                   *)
EXTENDS ThreadPool, TLC

CONSTANTS w1, w2, w3, w4, main, app, j1, j2, j3, p1

PriorityLowHighHigh == (j1 :> "low") @@ (j2 :> "high") @@ (j3 :> "high")
PriorityLow2 == (j1 :> "low") @@ (j2 :> "low")
All == {main, app, w1, w2, w3, w4}
WorkerSymmetry == Permutations({w1, w2, w3, w4})
===============================================================================
