-------------------------------- MODULE JobPool --------------------------------
(***************************************************************************)
(* What a thread pool promises to the code that gives it jobs, with no     *)
(* threads, queues or conditions: a job that is handed over waits until it *)
(* is started, cancelled, or dropped when the pool closes, and is started  *)
(* once; at most Limit jobs run at a time; nothing starts after Close.     *)
(***************************************************************************)
EXTENDS Naturals, FiniteSets

CONSTANTS Jobs, Limit

VARIABLES state,   \* "idle", "waiting" or "running" for each job
          open

InState(s) == {j \in Jobs : state[j] = s}

Submit(j) == /\ state[j] = "idle"
             /\ state' = [state EXCEPT ![j] = "waiting"]
             /\ UNCHANGED open

Start(j) == /\ open
            /\ state[j] = "waiting"
            /\ Cardinality(InState("running")) < Limit
            /\ state' = [state EXCEPT ![j] = "running"]
            /\ UNCHANGED open

(* The thread that ran j may go straight on to the next job.                *)
Finish(j) == /\ state[j] = "running"
             /\ \/ state' = [state EXCEPT ![j] = "idle"]
                \/ /\ open
                   /\ \E k \in InState("waiting") :
                        state' = [state EXCEPT ![j] = "idle", ![k] = "running"]
             /\ UNCHANGED open

Cancel(j) == /\ state[j] = "waiting"
             /\ state' = [state EXCEPT ![j] = "idle"]
             /\ UNCHANGED open

Close == /\ open
         /\ open' = FALSE
         /\ state' = [j \in Jobs |-> IF state[j] = "waiting" THEN "idle" ELSE state[j]]

JobPoolInit == state = [j \in Jobs |-> "idle"] /\ open = TRUE

JobPoolNext == Close \/ \E j \in Jobs : Submit(j) \/ Start(j) \/ Finish(j) \/ Cancel(j)

JobPoolSpec == JobPoolInit /\ [][JobPoolNext]_<<state, open>>
================================================================================
