-------------------------------- MODULE MCI2c --------------------------------
(* Three registers, FIFOs of three; calls longer than a FIFO, with and        *)
(* without a register address, and to a device that is not there.           *)
EXTENDS I2c
W(d, addr, data) == [op |-> "write", dev |-> d, addr |-> addr, data |-> data, n |-> 0]
R(d, addr, n) == [op |-> "read", dev |-> d, addr |-> addr, data |-> <<>>, n |-> n]
MCCalls ==
  {W("there", <<1>>, <<1, 2>>), W("there", <<0>>, <<2, 1, 2>>), W("there", <<>>, <<2, 0, 1, 1>>),
   W("absent", <<2>>, <<1, 2, 1>>), R("there", <<0>>, 3), R("there", <<2>>, 1),
   R("there", <<>>, 2), R("absent", <<1>>, 2)}
=============================================================================
