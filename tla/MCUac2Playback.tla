--------------------------- MODULE MCUac2Playback ---------------------------
(* Playback over a ring of a few packets: one packet size fills a half with *)
(* two packets, the other with one and a half ring of rest.                 *)
EXTENDS Uac2Playback
MCPsizes == {2, 4}
=============================================================================
