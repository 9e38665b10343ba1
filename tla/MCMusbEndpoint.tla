---------------------------- MODULE MCMusbEndpoint --------------------------
(* The endpoints a build can have.  An OUT request is one packet, an IN     *)
(* request at most one.                                                     *)
EXTENDS MusbEndpoint
In(dm, len) == [isIn |-> TRUE, edma |-> dm, length |-> len, short |-> FALSE]
Out(dm, sh) == [isIn |-> FALSE, edma |-> dm, length |-> PacketSz, short |-> sh]

(* Short packets only where the driver reads them by itself.                *)
MCConfigs == {In(dm, len) : dm \in BOOLEAN, len \in 1 .. PacketSz}
             \cup {Out(TRUE, FALSE), Out(FALSE, TRUE)}
=============================================================================
