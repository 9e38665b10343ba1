----------------------------- MODULE MCSysTimer -----------------------------
(* A counter of four ticks that overflows three times; delays shorter and   *)
(* longer than the counter.                                                 *)
EXTENDS SysTimer
MCDelays == {0, 1, 5}
=============================================================================
