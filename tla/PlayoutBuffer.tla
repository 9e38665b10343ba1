---------------------------- MODULE PlayoutBuffer ---------------------------
(***************************************************************************)
(* What USB speaker playback promises, without rings, pointers, counters   *)
(* or interrupts: packets join a backlog of bounded capacity, and the      *)
(* backlog is played by halves of that capacity, one at a time, each half  *)
(* taken from the backlog exactly once.  A half may be started when it is  *)
(* not complete yet, since the host fills it as fast as it is played; what *)
(* it lacks is then owed by the packets to come.                           *)
(***************************************************************************)
EXTENDS Integers

CONSTANTS Packets,        (* packet sizes                                  *)
          CapacityOf(_)   (* the capacity chosen for a packet size         *)

VARIABLES open,     (* the host has the stream open                        *)
          packet,   (* packet size of the stream                           *)
          backlog,  (* bytes received and not played; below 0: bytes owed  *)
          playing   (* a half is being played                              *)

playoutVars == <<open, packet, backlog, playing>>

Capacity == CapacityOf(packet)
Half     == Capacity \div 2

Init ==
  /\ open = FALSE /\ packet \in Packets
  /\ backlog = 0 /\ playing = FALSE

(* A new stream starts from nothing: what was still playing is disowned.    *)
Open ==
  /\ open' = TRUE /\ packet' \in Packets
  /\ backlog' = 0 /\ playing' = FALSE

Close ==
  /\ open /\ open' = FALSE
  /\ UNCHANGED <<packet, backlog, playing>>

(* A packet may overfill the backlog, but only until it is dropped.         *)
Receive ==
  /\ open /\ backlog < Capacity
  /\ backlog' = backlog + packet
  /\ UNCHANGED <<open, packet, playing>>

Drop ==
  /\ open /\ backlog >= Capacity
  /\ backlog' = backlog - packet
  /\ UNCHANGED <<open, packet, playing>>

Play ==
  /\ ~playing /\ backlog > 0
  /\ playing' = TRUE
  /\ UNCHANGED <<open, packet, backlog>>

(* The half ends, and the next one follows at once or not at all.           *)
Finish ==
  /\ playing
  /\ backlog' = backlog - Half
  /\ playing' \in {FALSE, backlog' > 0}
  /\ UNCHANGED <<open, packet>>

Next == Open \/ Close \/ Receive \/ Drop \/ Play \/ Finish

Spec == Init /\ [][Next]_playoutVars
=============================================================================
