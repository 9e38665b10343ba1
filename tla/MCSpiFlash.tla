------------------------------ MODULE MCSpiFlash ------------------------------
(* Two sectors of one page of four cells; packets of two words.  Calls that *)
(* span both sectors, write across a page, and that the driver refuses.     *)
EXTENDS SpiFlash
C(op, addr, len, data) == [op |-> op, addr |-> addr, len |-> len, data |-> data]
MCCalls ==
  {C("erase", 0, 8, 0), C("erase", 4, 4, 0), C("erase", 4, 8, 0), C("erase", 2, 4, 0),
   C("write", 0, 7, 0), C("write", 4, 3, 1), C("write", 1, 4, 1), C("read", 2, 5, 0)}
(* One erase, of a sector that may be protected.                            *)
MCErase == {C("erase", 0, 4, 0)}
=============================================================================
