------------------------------ MODULE MCUsbControl ----------------------------
(* The requests a host makes: enumeration, a streaming setting of each      *)
(* interface, halts, rates and controls; the status of the OUT endpoint is  *)
(* always refused, what needs a setting is refused without one.             *)
EXTENDS UsbControl
R(name, in, len, intf, sel, val) ==
  [name |-> name, in |-> in, len |-> len, intf |-> intf, sel |-> sel, val |-> val]

Enumeration ==
  {R("SET_ADDRESS", FALSE, 0, 0, "none", 3),
   R("GET_DESCRIPTOR", TRUE, 128, 0, "config", 0),
   R("GET_DESCRIPTOR", TRUE, 255, 0, "string", 0)}
  \cup {R("SET_CONFIGURATION", FALSE, 0, 0, "none", c) : c \in {0, 1}}
Streaming ==
  {R("SET_INTERFACE", FALSE, 0, OutIntf, "none", a) : a \in {0, 3}}
  \cup {R("SET_INTERFACE", FALSE, 0, InIntf, "none", 1),
        R("GET_INTERFACE", TRUE, 1, OutIntf, "none", 0)}
Halts ==
  {R("SET_HALT", FALSE, 0, 0, "in", 0), R("CLEAR_HALT", FALSE, 0, 0, "in", 0),
   R("GET_STATUS", TRUE, 2, 0, "in", 0), R("GET_STATUS", TRUE, 2, 0, "out", 0)}
Rates ==
  {R("SET_CUR", FALSE, 4, OutClk, "sam_freq", v) : v \in {48000}}
  \cup {R("SET_CUR", FALSE, 4, InClk, "sam_freq", v) : v \in {22050}}
  \cup {R("GET_CUR", TRUE, 4, OutClk, "sam_freq", 0),
        R("GET_RANGE", TRUE, 74, OutClk, "sam_freq", 0)}
Controls ==
  {R("SET_CUR", FALSE, 2, OutFu, "volume", 40000), R("SET_CUR", FALSE, 1, OutFu, "mute", 1),
   R("GET_CUR", TRUE, 1, OutFu, "mute", 0)}

MCRequests == Enumeration \cup Streaming \cup Halts \cup Rates \cup Controls
=============================================================================
