---------------------------- MODULE MC_TimerQueue ----------------------------
(* Model-checking instance of TimerQueue: three heap addresses, timers due  *)
(* now or within two ticks, one-shot and repeating, a loop that may lag a  *)
(* tick behind the timerfd.                                                *)
EXTENDS TimerQueue

MC_Addr == {1, 2, 3}
MC_Delays == {0, 1, 2}
MC_Intervals == {0, 2}
=============================================================================
