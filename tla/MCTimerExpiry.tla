--------------------------- MODULE MCTimerExpiry ---------------------------
(* Two timers, one guest thread and the expirer.  MCPace are due times and
   periods no shorter than the number of timers, in passes. *)
EXTENDS TimerExpiry

CONSTANTS m1, m2, g1

MCTimers == {m1, m2}
MCGuests == {g1}
MCPace == {2}
MCPeriods == {0, 2}
=============================================================================
