---------------------------- MODULE MCTimerWheel ----------------------------
(* Two tasks, of one id or two, on a wheel of three slots.                  *)
EXTENDS TimerWheel
CONSTANTS i1, i2, t1, t2
MCIds == {i1, i2}
MCTwoTasks == {t1, t2}
=============================================================================
