---------------------------- MODULE MCTimerThread ----------------------------
(* Small instances of TimerThread for TLC.                                  *)
EXTENDS TimerThread, TLC

CONSTANTS e1, e2, t1, t2

(* A renewal of a subscription granted for less than AUTO_RENEW_TIME is     *)
(* scheduled for a time that is past already.                               *)
DelaysPastAndFuture == {-1, 1, 2}
===============================================================================
