--------------------------- MODULE MC_AsyncLogging ---------------------------
(* Model-checking instance of AsyncLogging: six buffer objects of two     *)
(* slots (one log line each, as avail() must exceed the line), three log  *)
(* lines, enough for two full buffers before a swap and so for a new      *)
(* Buffer; the LogFile rolls past four slots (every third buffer written),*)
(* checks the period every second append, and a period is two seconds.  *)
EXTENDS AsyncLogging

CONSTANTS b1, b2, b3, b4, b5, b6

MC_Buffers == {b1, b2, b3, b4, b5, b6}

(* A zone without daylight saving time: localtime_r is one-to-one.        *)
MC_LocalName(t) == t

(* A zone whose clocks go back at the end of daylight saving time: the     *)
(* second after 2 is shown as 2 again, so localtime_r repeats a second.    *)
MC_DstName(t) == IF t >= 3 THEN t - 1 ELSE t
=============================================================================
