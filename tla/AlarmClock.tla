------------------------------ MODULE AlarmClock ------------------------------
(***************************************************************************)
(* What a timer promises to the code that sets alarms, with no queue, no   *)
(* thread and no mutex: an alarm that is set rings once, never before its  *)
(* time and never before an earlier alarm, unless it is cancelled first or *)
(* the clock is stopped.                                                   *)
(***************************************************************************)
EXTENDS Integers

CONSTANTS Alarms

VARIABLES now,
          state,      \* "idle", "set" or "rung"
          time,       \* when an alarm that is set is to ring
          on

InState(s) == {e \in Alarms : state[e] = s}

Advance == now' = now + 1 /\ UNCHANGED <<state, time, on>>

Set(e) == /\ on /\ state[e] = "idle"
          /\ state' = [state EXCEPT ![e] = "set"]
          /\ time'[e] \in Int /\ time' = [time EXCEPT ![e] = time'[e]]
          /\ UNCHANGED <<now, on>>

Ring(e) == /\ on /\ state[e] = "set" /\ now >= time[e]
           /\ \A f \in InState("set") : time[e] <= time[f]
           /\ state' = [state EXCEPT ![e] = "rung"]
           /\ UNCHANGED <<now, time, on>>

Cancel(e) == /\ on /\ state[e] = "set"
             /\ state' = [state EXCEPT ![e] = "idle"]
             /\ UNCHANGED <<now, time, on>>

(* Whoever heard the alarm is done with it.                                 *)
Answer(e) == /\ state[e] = "rung"
             /\ state' = [state EXCEPT ![e] = "idle"]
             /\ UNCHANGED <<now, time, on>>

Stop == /\ on /\ on' = FALSE
        /\ state' = [e \in Alarms |-> IF state[e] = "set" THEN "idle" ELSE state[e]]
        /\ UNCHANGED <<now, time>>

AlarmClockInit == /\ now = 0 /\ on = TRUE
                  /\ state = [e \in Alarms |-> "idle"]
                  /\ time = [e \in Alarms |-> 0]

AlarmClockNext ==
    \/ Advance
    \/ Stop
    \/ \E e \in Alarms : Set(e) \/ Ring(e) \/ Cancel(e) \/ Answer(e)

AlarmClockSpec == AlarmClockInit /\ [][AlarmClockNext]_<<now, state, time, on>>
===============================================================================
