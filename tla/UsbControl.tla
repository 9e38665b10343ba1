------------------------------- MODULE UsbControl -----------------------------
(***************************************************************************)
(* Control transfers: endpoint 0 of the USB device controller driver       *)
(* (cdl/usb/musb-new/musb_gadget_ep0.c), the composite framework           *)
(* (composite.c) and the class requests, alternate settings and rates of   *)
(* the audio function (f_uac2.c).                                          *)
(*                                                                         *)
(* Actors: the host, which runs one control transfer after another and may *)
(* give one up in its data stage; the controller, which is what the host's *)
(* packets do to CSR0 and the FIFO; and the interrupt handler,             *)
(* musb_g_ep0_irq with all it calls, one action.  The handler runs for     *)
(* microseconds, a packet of the host takes longer.                        *)
(*                                                                         *)
(* Handlers are operators from a state to a state, so that calls nest as   *)
(* they do in the code.  A byte buffer is the number in its first bytes.   *)
(***************************************************************************)
EXTENDS MusbConfig, FiniteSets

CONSTANTS
  HostRequests,  (* the requests the host may make                          *)
  MaxFaults,     (* bound of the model: data stages the host gives up and   *)
                 (* bus resets                                              *)
  MaxTransfers   (* bound of the model: transfers the host starts           *)

VARIABLES
  csr,    (* bits of CSR0 that are set                                      *)
  fifo,   (* what the endpoint's FIFO holds                                 *)
  irq,    (* the endpoint's bit in INTRTX                                   *)
  faddr,  (* the address the controller answers to                          *)
  ep0,    (* the driver: stage, ackpend, setAddress, address                *)
  req,    (* cdev->req, the one request of the endpoint                     *)
  config, (* cdev->config, 0 for none                                       *)
  fn,     (* the audio function                                             *)
  host,   (* the transfer the host is in                                    *)
  belief, (* what the host thinks of the device                             *)
  count   (* transfers and faults so far, for the bounds                    *)

vars == <<csr, fifo, irq, faddr, ep0, req, config, fn, host, belief, count>>

Least(a, b) == IF a < b THEN a ELSE b
DivUp(a, b) == (a + b - 1) \div b
Unknown == -1

-----------------------------------------------------------------------------
(* The tables of the audio function.                                        *)

Ep0Fifo == 64       (* MUSB_EP0_FIFOSIZE, MUSB_MAX_END0_PACKET              *)
VolumeMin == 32769  (* 0x8001                                               *)
VolumeSteps == 288  (* 0x0120                                               *)
OutClk == 5
InClk == 6
OutFu == 7
AcIntf == 0
OutIntf == 1
InIntf == 2
MaxItems == 10      (* UAC_MAX_ITEMS                                        *)

CRates == <<12000, 16000, 24000, 32000, 48000, 64000>>
PRates == <<11025, 12000, 16000, 22050, 24000, 32000, 44100, 48000>>
Elements(s) == {s[i] : i \in DOMAIN s}

(* Channels and bytes per sample of the settings of the OUT interface.      *)
OutFormat ==
  <<[ch |-> 2, size |-> 2], [ch |-> 1, size |-> 4], [ch |-> 2, size |-> 4],
    [ch |-> 6, size |-> 2], [ch |-> 8, size |-> 2]>>

(* The descriptors of the configuration, by kind, and their bLength.        *)
ControlDescs == <<"assoc", "intf", "ac_header", "clock", "clock", "in_terminal",
                  "in_terminal", "out_terminal", "out_terminal", "feature_unit">>
SettingDescs == <<"intf", "as_header", "format", "endpoint", "iso_endpoint">>
FsAudioDesc ==
  ControlDescs \o <<"intf">> \o SettingDescs \o SettingDescs \o SettingDescs
    \o SettingDescs \o SettingDescs \o <<"intf">> \o SettingDescs
DescLength == [assoc |-> 8, intf |-> 9, ac_header |-> 9, clock |-> 8,
               in_terminal |-> 17, out_terminal |-> 12, feature_unit |-> 10,
               as_header |-> 16, format |-> 6, endpoint |-> 7, iso_endpoint |-> 8]
FilledTo[n \in 0 .. Len(FsAudioDesc)] ==
  IF n = 0 THEN 9 ELSE FilledTo[n - 1] + DescLength[FsAudioDesc[n]]
ConfigLength == FilledTo[Len(FsAudioDesc)]

(* What GET_DESCRIPTOR has: its length and first byte.  There is no         *)
(* qualifier, the gadget has one speed.                                     *)
Descriptors == [device |-> [len |-> 18, b |-> 18],
                config |-> [len |-> ConfigLength, b |-> 9],
                string |-> [len |-> 64, b |-> 64]]

-----------------------------------------------------------------------------
(* The state the handlers work on.                                          *)

State == [csr |-> csr, fifo |-> fifo, faddr |-> faddr, ep0 |-> ep0, req |-> req,
          config |-> config, fn |-> fn]

Become(s) ==
  /\ csr' = s.csr /\ fifo' = s.fifo /\ faddr' = s.faddr /\ ep0' = s.ep0
  /\ req' = s.req /\ config' = s.config /\ fn' = s.fn

(* A request: name, in (data to the host), len (wLength), intf (interface,   *)
(* clock or unit), sel (descriptor, control or endpoint), val (wValue or    *)
(* the data sent).                                                          *)
NoRequest == [name |-> "none", in |-> FALSE, len |-> 0, intf |-> 0, sel |-> "none", val |-> 0]
EmptyFifo == [kind |-> "empty", n |-> 0, val |-> 0, r |-> NoRequest]

(* A write of CSR0.  SVDRXPKTRDY and SVDSETUPEND clear the bit they serve,  *)
(* a one in the other bits sets them and a zero clears SENTSTALL only.      *)
WriteCsr(s, w) ==
  [s EXCEPT !.csr =
     (@ \ ({"SENTSTALL"} \cup (IF "SVDRXPKTRDY" \in w THEN {"RXPKTRDY"} ELSE {})
                         \cup (IF "SVDSETUPEND" \in w THEN {"SETUPEND"} ELSE {})))
     \cup (w \cap {"TXPKTRDY", "DATAEND", "SENDSTALL"})]

-----------------------------------------------------------------------------
(* The audio function: rates, packet sizes and settings.                    *)

(* set_ep_cur_max_packet_size for the OUT endpoint: a rate the format does  *)
(* not have room for is lowered first.                                      *)
RateLimit(f) == CASE f.ch \in {6, 8} -> 16000
                  [] f.ch = 2 /\ f.size = 4 -> 32000
                  [] OTHER -> f.cRate
SetOutPacketSize(f) ==
  LET rate == Least(f.cRate, RateLimit(f))
  IN [f EXCEPT !.cRate = rate, !.cMax = f.ch * f.size * DivUp(rate, 1000)]

InFrame == 4
SetInPacketSize_RoundUp(f) ==
  [f EXCEPT !.pMax = InFrame * DivUp(f.pRate, 1000),
            !.pPkt = InFrame * DivUp(f.pRate, 1000)]
SetInPacketSize(f) ==
  LET max == InFrame * DivUp(f.pRate, 1000)
  IN [f EXCEPT !.pMax = max, !.pPkt = Least((f.pRate * InFrame) \div 1000, max)]

(* musb_gadget_enable takes no packet longer than the FIFO; the packet size *)
(* goes into RXMAXP or TXMAXP in units of eight bytes.                      *)
EnableOk(ep, max) == ep.num # 0 /\ max <= ep.max
MaxpRegister(max) == (max \div 8) * 8

(* afunc_set_alt: the setting is recorded before the endpoint is enabled.   *)
SetOutAlt(f, alt) ==
  LET g == SetOutPacketSize(IF alt = 0 THEN f
             ELSE [f EXCEPT !.ch = OutFormat[alt].ch, !.size = OutFormat[alt].size])
      on == alt # 0 /\ EnableOk(OutEp, g.cMax)
  IN [f |-> [g EXCEPT !.outAlt = alt, !.outOn = on, !.halt = IF on THEN @ \ {"out"} ELSE @],
      ok |-> alt = 0 \/ on]
SetInAlt(f, alt) ==
  LET g == SetInPacketSize(f)
      on == alt # 0 /\ EnableOk(InEp, g.pMax)
  IN [f |-> [g EXCEPT !.inAlt = alt, !.inOn = on, !.halt = IF on THEN @ \ {"in"} ELSE @],
      ok |-> alt = 0 \/ on]
SetAlt(f, intf, alt) ==
  IF alt > 5 THEN [f |-> f, ok |-> FALSE]
  ELSE CASE intf = AcIntf -> [f |-> f, ok |-> alt = 0]
         [] intf = OutIntf -> SetOutAlt(f, alt)
         [] intf = InIntf -> SetInAlt(f, alt)
GetAlt(f, intf) == CASE intf = AcIntf -> 0
                     [] intf = OutIntf -> f.outAlt
                     [] intf = InIntf -> f.inAlt

(* afunc_disable.                                                           *)
Disable(f) == [f EXCEPT !.outAlt = 0, !.inAlt = 0, !.outOn = FALSE, !.inOn = FALSE]

-----------------------------------------------------------------------------
(* Completion of the data stage of a class request.                         *)

(* uac2_cs_control_sam_freq: stored whether or not the rate is offered.     *)
SamFreqDone_AnySize(s) ==
  IF s.fn.ctlId = InClk THEN [s EXCEPT !.fn.pRate = s.req.buf]
  ELSE [s EXCEPT !.fn.cRate = s.req.buf]
SamFreqDone(s) ==
  IF s.req.actual # 4 THEN s
  ELSE IF s.fn.ctlId = InClk THEN [s EXCEPT !.fn.pRate = s.req.buf]
  ELSE [s EXCEPT !.fn.cRate = s.req.buf]

(* generic_set_cmd.                                                         *)
CodecVolume(v) == (v - VolumeMin) \div VolumeSteps
SetControl(f, con, value) ==
  IF con = "mute"
  THEN [f EXCEPT !.mute = value, !.codec = IF value = 1 THEN 0 ELSE CodecVolume(f.volume)]
  ELSE [f EXCEPT !.volume = value, !.codec = CodecVolume(value)]

(* uac2_fu_control: the size is checked for the volume, not for mute.       *)
ControlData(s) == CASE s.fn.csId = "mute" -> s.req.buf % 256
                    [] s.fn.csId = "volume" -> s.req.buf % 65536
                    [] OTHER -> 0
FuControlDone_AnySize(s) ==
  IF s.req.status # "0" \/ s.fn.setCon = "none" THEN s
  ELSE [s EXCEPT !.fn = SetControl([@ EXCEPT !.setCon = "none"], s.fn.setCon, ControlData(s))]
FuControlDone(s) ==
  IF \/ s.fn.csId = "volume" /\ s.req.actual # 2
     \/ s.req.status # "0"
     \/ s.fn.setCon = "none"
  THEN s
  ELSE [s EXCEPT !.fn = SetControl([@ EXCEPT !.setCon = "none"], s.fn.setCon, ControlData(s))]

(* musb_g_ep0_giveback.                                                     *)
Giveback(s) ==
  LET t == [s EXCEPT !.req.listed = FALSE,
                     !.req.status = IF @ = "-EINPROGRESS" THEN "0" ELSE @]
  IN CASE t.req.complete = "sam_freq" -> SamFreqDone(t)
       [] t.req.complete = "fu_control" -> FuControlDone(t)
       [] t.req.complete = "setup" -> t

-----------------------------------------------------------------------------
(* Data stages: ep0_txstate, ep0_rxstate, musb_g_ep0_queue.                 *)

TxEnds(s) == \/ s.req.len - s.req.actual < Ep0Fifo
             \/ s.req.len - s.req.actual = Ep0Fifo /\ ~s.req.zero
TxState_NoZero(s) ==
  LET n == Least(Ep0Fifo, s.req.len - s.req.actual)
      last == s.req.len - s.req.actual <= Ep0Fifo
      t == WriteCsr([s EXCEPT !.fifo = [EmptyFifo EXCEPT !.kind = "in", !.n = n, !.val = s.req.buf],
                              !.req.actual = @ + n,
                              !.ep0.stage = IF last THEN "STATUSOUT" ELSE @],
                    {"TXPKTRDY"} \cup (IF last THEN {"DATAEND"} ELSE {}))
  IN IF last THEN Giveback(t) ELSE t
TxState(s) ==
  LET n == Least(Ep0Fifo, s.req.len - s.req.actual)
      t == WriteCsr([s EXCEPT !.fifo = [EmptyFifo EXCEPT !.kind = "in", !.n = n, !.val = s.req.buf],
                              !.req.actual = @ + n,
                              !.ep0.stage = IF TxEnds(s) THEN "STATUSOUT" ELSE @],
                    {"TXPKTRDY"} \cup (IF TxEnds(s) THEN {"DATAEND"} ELSE {}))
  IN IF ~s.req.listed THEN s
     ELSE IF TxEnds(s) THEN Giveback(t) ELSE t

(* What the request does not have room for is dropped (-EOVERFLOW).  The    *)
(* completion callback runs before the packet is acknowledged.              *)
RxState(s) ==
  LET room == s.req.len - s.req.actual
      n == Least(s.fifo.n, room)
      t == [s EXCEPT !.req.buf = IF n > 0 THEN s.fifo.val ELSE @,
                     !.req.actual = @ + n,
                     !.req.status = IF s.fifo.n > room THEN "-EOVERFLOW" ELSE @]
  IN CASE ~s.req.listed -> WriteCsr(s, {"SVDRXPKTRDY", "SENDSTALL"})
       [] s.req.listed /\ (n < Ep0Fifo \/ n = room) ->
            WriteCsr(Giveback([t EXCEPT !.ep0.stage = "STATUSIN"]), {"SVDRXPKTRDY", "DATAEND"})
       [] s.req.listed /\ n = Ep0Fifo /\ n # room -> WriteCsr(t, {"SVDRXPKTRDY"})

Ep0Queue_KeepActual(s) ==
  LET l == [s EXCEPT !.req.status = "-EINPROGRESS", !.req.listed = TRUE]
  IN CASE s.req.listed \/ s.ep0.stage \notin {"RX", "TX", "ACKWAIT"} -> [s |-> s, ok |-> FALSE]
       [] ~s.req.listed /\ s.ep0.stage = "TX" -> [s |-> TxState(l), ok |-> TRUE]
       [] ~s.req.listed /\ s.ep0.stage = "RX" ->
            [s |-> [WriteCsr(l, l.ep0.ackpend) EXCEPT !.ep0.ackpend = {}], ok |-> TRUE]
       [] OTHER -> [s |-> Giveback([WriteCsr(l, l.ep0.ackpend \cup {"DATAEND"})
                                     EXCEPT !.ep0.ackpend = {}, !.ep0.stage = "STATUSIN"]),
                    ok |-> TRUE]
(* The request is queued: value 0, or the error that makes the caller stall. *)
Ep0Queue(s) ==
  LET t == [s EXCEPT !.req.actual = 0, !.req.status = "-EINPROGRESS"]
      l == [t EXCEPT !.req.listed = TRUE]
  IN CASE s.req.listed \/ s.ep0.stage \notin {"RX", "TX", "ACKWAIT"} -> [s |-> t, ok |-> FALSE]
       [] ~s.req.listed /\ s.ep0.stage = "TX" -> [s |-> TxState(l), ok |-> TRUE]
       [] ~s.req.listed /\ s.ep0.stage = "RX" ->
            [s |-> [WriteCsr(l, l.ep0.ackpend) EXCEPT !.ep0.ackpend = {}], ok |-> TRUE]
       [] ~s.req.listed /\ s.ep0.stage = "ACKWAIT" ->
            IF s.req.len # 0 THEN [s |-> l, ok |-> FALSE]
            ELSE [s |-> Giveback([WriteCsr(l, l.ep0.ackpend \cup {"DATAEND"})
                                   EXCEPT !.ep0.ackpend = {}, !.ep0.stage = "STATUSIN"]),
                  ok |-> TRUE]

-----------------------------------------------------------------------------
(* The composite framework and the class requests.                          *)

(* Respond with `n' bytes that start with b.                                *)
Respond(s, r, n, b) ==
  Ep0Queue([s EXCEPT !.req.len = Least(n, r.len), !.req.zero = Least(n, r.len) < r.len,
                     !.req.buf = b])
Refuse(s) == [s |-> s, ok |-> FALSE]
Acknowledge(s) == Ep0Queue([s EXCEPT !.req.len = 0, !.req.zero = FALSE])

ResetConfig(s) ==
  IF s.config = 0 THEN s ELSE [s EXCEPT !.fn = Disable(@), !.config = 0]
(* set_config puts every interface into its setting 0.                      *)
SetConfig_NoReset(s, n) ==
  IF n = 0 THEN Acknowledge([s EXCEPT !.config = 0])
  ELSE IF n # 1 THEN Refuse([s EXCEPT !.config = 0])
  ELSE Acknowledge([s EXCEPT !.config = 1])
SetConfig(s, n) ==
  LET t == ResetConfig(s)
  IN IF n = 0 THEN Acknowledge(t)
     ELSE IF n # 1 THEN Refuse(t)
     ELSE Acknowledge([t EXCEPT !.config = 1,
                         !.fn = SetAlt(SetAlt(SetAlt(@, AcIntf, 0).f, OutIntf, 0).f, InIntf, 0).f])

(* in_rq_cur and in_rq_range.                                               *)
RangesSize(n, item) == 2 + n * (2 + item * MaxItems)
ClassIn(s, r) ==
  CASE r.name = "GET_CUR" /\ r.sel = "sam_freq" ->
         Respond(s, r, 4, IF r.intf = InClk THEN s.fn.pRate ELSE s.fn.cRate)
    [] r.name = "GET_CUR" /\ r.sel = "clock_valid" -> Respond(s, r, 1, 1)
    [] r.name = "GET_CUR" /\ r.sel = "mute" -> Respond(s, r, 1, s.fn.mute)
    [] r.name = "GET_CUR" /\ r.sel = "volume" -> Respond(s, r, 2, s.fn.volume)
    [] r.name = "GET_RANGE" /\ r.sel = "sam_freq" ->
         LET n == IF r.intf = InClk THEN Len(PRates) ELSE Len(CRates)
         IN Respond(s, r, RangesSize(n, 12), n)
    [] r.name = "GET_RANGE" /\ r.sel = "volume" -> Respond(s, r, RangesSize(1, 6), 1)
    [] OTHER -> Refuse(s)

(* out_rq_cur: what the completion of the data stage has to do.             *)
ClassOut(s, r) ==
  LET t == [s EXCEPT !.req.len = r.len, !.req.zero = FALSE]
  IN CASE r.intf \in {OutClk, InClk} /\ r.sel = "sam_freq" ->
            Ep0Queue([t EXCEPT !.fn.ctlId = r.intf, !.req.complete = "sam_freq"])
       [] r.intf = OutFu ->
            Ep0Queue([t EXCEPT !.fn.setCon = IF r.sel \in {"mute", "volume"} THEN r.sel ELSE @,
                               !.fn.csId = r.sel, !.req.complete = "fu_control"])
       [] OTHER -> Refuse(s)

(* composite_setup.  A class request is only made to a configured device.   *)
CompositeSetup(s0, r) ==
  LET s == [s0 EXCEPT !.req.zero = FALSE, !.req.complete = "setup", !.req.len = 4096]
  IN CASE r.name = "GET_DESCRIPTOR" ->
            IF r.sel \in DOMAIN Descriptors
            THEN Respond(s, r, Descriptors[r.sel].len, Descriptors[r.sel].b)
            ELSE Refuse(s)
       [] r.name = "SET_CONFIGURATION" -> SetConfig(s, r.val)
       [] r.name = "GET_CONFIGURATION" -> Respond(s, r, 1, s.config)
       [] r.name = "SET_INTERFACE" ->
            IF s.config = 0 THEN Refuse(s)
            ELSE LET a == SetAlt(s.fn, r.intf, r.val)
                     t == [s EXCEPT !.fn = a.f]
                 IN IF a.ok THEN Acknowledge(t) ELSE Refuse(t)
       [] r.name = "GET_INTERFACE" ->
            IF s.config = 0 THEN Refuse(s) ELSE Respond(s, r, 1, GetAlt(s.fn, r.intf))
       [] r.name \in {"GET_CUR", "GET_RANGE"} -> ClassIn(s, r)
       [] r.name = "SET_CUR" -> ClassOut(s, r)
       [] OTHER -> Refuse(s)

-----------------------------------------------------------------------------
(* The driver's own requests.                                               *)

(* Whether endpoint e has a descriptor where the driver looks for it: an IN  *)
(* endpoint in ep_in, an OUT endpoint in ep_out.  A shared FIFO has only an  *)
(* ep_in, for either direction, so that its OUT endpoint is never found.     *)
EpEnabled(s, e) ==
  IF e = "in" THEN s.fn.inOn
  ELSE s.fn.outOn /\ ~HwEndpoints.eps[OutEp.num].shared

(* service_zero_data_request: SET_ADDRESS and the halt feature of an        *)
(* endpoint that is found; the rest is delegated.                           *)
ServiceZeroData(s, r) ==
  CASE r.name = "SET_ADDRESS" ->
         [s |-> [s EXCEPT !.ep0.setAddress = TRUE, !.ep0.address = r.val], v |-> "handled"]
    [] r.name \in {"SET_HALT", "CLEAR_HALT"} /\ EpEnabled(s, r.sel) ->
         [s |-> [s EXCEPT !.fn.halt = IF r.name = "SET_HALT" THEN @ \cup {r.sel} ELSE @ \ {r.sel}],
          v |-> "handled"]
    [] r.name \in {"SET_HALT", "CLEAR_HALT"} /\ ~EpEnabled(s, r.sel) -> [s |-> s, v |-> "stall"]
    [] OTHER -> [s |-> s, v |-> "delegate"]

(* service_in_request: GET_STATUS of an endpoint that is found, answered    *)
(* into the FIFO.                                                           *)
ServiceIn(s, r) ==
  CASE r.name = "GET_STATUS" /\ EpEnabled(s, r.sel) ->
         [s |-> [s EXCEPT !.fifo = [EmptyFifo EXCEPT !.kind = "in", !.n = Least(r.len, 2),
                                    !.val = IF r.sel \in s.fn.halt THEN 1 ELSE 0]],
          v |-> "handled"]
    [] r.name = "GET_STATUS" /\ ~EpEnabled(s, r.sel) -> [s |-> s, v |-> "stall"]
    [] OTHER -> [s |-> s, v |-> "delegate"]

(* musb_read_setup: the left-over request is given back with status 0.      *)
ReadSetup(s, r) ==
  LET g == IF s.req.listed THEN Giveback(s) ELSE s
      t == [g EXCEPT !.fifo = EmptyFifo, !.ep0.setAddress = FALSE,
                     !.ep0.ackpend = {"SVDRXPKTRDY"}]
  IN CASE r.len = 0 -> [t EXCEPT !.ep0.stage = "ACKWAIT"]
       [] r.len # 0 /\ r.in ->
            [WriteCsr(t, {"SVDRXPKTRDY"}) EXCEPT !.ep0.stage = "TX", !.ep0.ackpend = {}]
       [] r.len # 0 /\ ~r.in -> [t EXCEPT !.ep0.stage = "RX"]

Stall(s) ==
  [WriteCsr(s, s.ep0.ackpend \cup {"SENDSTALL"}) EXCEPT !.ep0.stage = "IDLE", !.ep0.ackpend = {}]
Finish(s) == [WriteCsr(s, s.ep0.ackpend) EXCEPT !.ep0.ackpend = {}]
Forward(s, r) == LET a == CompositeSetup(s, r) IN IF a.ok THEN a.s ELSE Stall(a.s)

(* The SETUP stage of musb_g_ep0_irq.                                       *)
DoSetup(s0) ==
  LET r == s0.fifo.r
      s == ReadSetup(s0, r)
      z == ServiceZeroData(s, r)
      zs == [z.s EXCEPT !.ep0.ackpend = @ \cup {"DATAEND"}]
      i == ServiceIn(s, r)
  IN CASE s.ep0.stage = "ACKWAIT" ->
            (CASE z.v = "handled" -> Finish([zs EXCEPT !.ep0.stage = "STATUSIN"])
               [] z.v = "stall" -> Stall(zs)
               [] z.v = "delegate" -> Forward(zs, r))
       [] s.ep0.stage = "TX" ->
            (CASE i.v = "handled" -> Finish([i.s EXCEPT !.ep0.stage = "STATUSOUT",
                                               !.ep0.ackpend = {"TXPKTRDY", "DATAEND"}])
               [] i.v = "stall" -> Stall(i.s)
               [] i.v = "delegate" -> Forward(i.s, r))
       [] s.ep0.stage = "RX" -> Forward(s, r)
Setup(s) ==
  IF "RXPKTRDY" \in s.csr /\ s.fifo.n = 8 THEN DoSetup(s) ELSE s

(* The status stages: take over the address, give back what is left, go on  *)
(* with a SETUP packet that is already there.                               *)
Status(s) ==
  LET a == IF s.ep0.stage = "STATUSIN" /\ s.ep0.setAddress
           THEN [s EXCEPT !.ep0.setAddress = FALSE, !.faddr = s.ep0.address] ELSE s
      g == IF a.req.listed THEN Giveback(a) ELSE a
  IN IF "RXPKTRDY" \in s.csr THEN Setup(g) ELSE [g EXCEPT !.ep0.stage = "IDLE"]
AckStall(s) == IF "SENTSTALL" \in s.csr
               THEN [s EXCEPT !.csr = @ \ {"SENTSTALL"}, !.ep0.stage = "IDLE"] ELSE s
(* The host ended the transfer early: on to the status stage.               *)
AckSetupEnd_KeepStage(s) ==
  IF "SETUPEND" \in s.csr THEN WriteCsr(s, {"SVDSETUPEND"}) ELSE s
AckSetupEnd(s) ==
  IF "SETUPEND" \notin s.csr THEN s
  ELSE [WriteCsr(s, {"SVDSETUPEND"}) EXCEPT
          !.ep0.stage = CASE @ = "TX" -> "STATUSOUT" [] @ = "RX" -> "STATUSIN" [] OTHER -> @]

Ep0Irq(s0) ==
  LET s == AckSetupEnd(AckStall(s0))
  IN CASE "DATAEND" \in s0.csr -> s0
       [] "DATAEND" \notin s0.csr /\ s.ep0.stage = "TX" ->
            IF "TXPKTRDY" \in s.csr THEN s ELSE TxState(s)
       [] "DATAEND" \notin s0.csr /\ s.ep0.stage = "RX" ->
            IF "RXPKTRDY" \in s.csr THEN RxState(s) ELSE s
       [] "DATAEND" \notin s0.csr /\ s.ep0.stage \in {"STATUSIN", "STATUSOUT"} -> Status(s)
       [] "DATAEND" \notin s0.csr /\ s.ep0.stage \in {"IDLE", "SETUP"} ->
            Setup([s EXCEPT !.ep0.stage = "SETUP"])
       [] "DATAEND" \notin s0.csr /\ s.ep0.stage = "ACKWAIT" -> s

(* generic_interrupt and musb_interrupt, for endpoint 0.                    *)
Irq ==
  /\ irq
  /\ irq' = FALSE
  /\ \E s \in {Ep0Irq(State)} : Become(s)
  /\ UNCHANGED <<host, belief, count>>

-----------------------------------------------------------------------------
(* The host and the controller.                                             *)

NoXfer == [stage |-> "idle", n |-> 0, vals |-> {}, r |-> NoRequest]
IsRate(r) == r.name = "SET_CUR" /\ r.sel = "sam_freq"
RateIntf(r) == IF r.intf = InClk THEN InIntf ELSE OutIntf

(* The control a SET_CUR is about, in the host's mind.                      *)
Believe(b, r, v) ==
  CASE IsRate(r) /\ r.intf = OutClk -> [b EXCEPT !.cRate = v]
    [] IsRate(r) /\ r.intf = InClk -> [b EXCEPT !.pRate = v]
    [] r.name = "SET_CUR" /\ r.sel = "mute" -> [b EXCEPT !.mute = v]
    [] r.name = "SET_CUR" /\ r.sel = "volume" -> [b EXCEPT !.volume = v]
    [] OTHER -> b
(* ... which is in doubt when the request was not answered ...              *)
Doubt(b, r) == IF r.name \in {"SET_INTERFACE", "SET_CONFIGURATION"}
               THEN [b EXCEPT !.cRate = Unknown] ELSE Believe(b, r, Unknown)
(* ... and what a request that was answered tells it.  Selecting a setting  *)
(* may have lowered the rate.                                               *)
AfterOk(b, r) ==
  CASE r.name = "SET_ADDRESS" -> [b EXCEPT !.addr = r.val]
    [] r.name = "SET_CONFIGURATION" ->
         [b EXCEPT !.cfg = r.val, !.halted = {}, !.alt = [i \in {OutIntf, InIntf} |-> 0], !.cRate = Unknown]
    [] r.name = "SET_INTERFACE" ->
         [b EXCEPT !.alt = [i \in {OutIntf, InIntf} |-> IF i = r.intf THEN r.val ELSE @[i]],
                   !.halted = IF r.val = 0 THEN @
                              ELSE @ \ {IF r.intf = OutIntf THEN "out" ELSE "in"},
                   !.cRate = IF r.intf = OutIntf THEN Unknown ELSE @]
    [] r.name = "SET_HALT" -> [b EXCEPT !.halted = @ \cup {r.sel}]
    [] r.name = "CLEAR_HALT" -> [b EXCEPT !.halted = @ \ {r.sel}]
    [] r.name = "SET_CUR" -> Believe(b, r, r.val)
    [] OTHER -> b
AfterStall(b, r) == IF r.name = "SET_CONFIGURATION" THEN [b EXCEPT !.cfg = Unknown] ELSE b

(* A host makes class and interface requests of a configured device, and    *)
(* sets the rate of an interface that is in setting 0.                      *)
MayAsk(r) ==
  /\ r.name \in {"SET_INTERFACE", "GET_INTERFACE", "SET_CUR", "GET_CUR", "GET_RANGE",
                 "GET_STATUS", "SET_HALT", "CLEAR_HALT"} => belief.cfg = 1
  /\ IsRate(r) => belief.alt[RateIntf(r)] = 0

(* The requests of a host: those without data, the controls it sets, in     *)
(* their size and from what it was offered, and what it reads (of a range   *)
(* no more than there is).                                                  *)
RangeBytes(sel) == IF sel = "sam_freq" THEN RangesSize(Len(CRates), 12) ELSE RangesSize(1, 6)
NoDataRequest(r) ==
  /\ ~r.in /\ r.len = 0
  /\ \/ r.name \in {"SET_ADDRESS", "SET_CONFIGURATION"}
     \/ r.name = "SET_INTERFACE" /\ r.intf \in {AcIntf, OutIntf, InIntf}
     \/ r.name \in {"SET_HALT", "CLEAR_HALT"} /\ r.sel \in {"out", "in"}
SetRequest(r) ==
  /\ ~r.in /\ r.name = "SET_CUR"
  /\ \/ r.intf = OutClk /\ r.sel = "sam_freq" /\ r.len = 4 /\ r.val \in Elements(CRates)
     \/ r.intf = InClk /\ r.sel = "sam_freq" /\ r.len = 4 /\ r.val \in Elements(PRates)
     \/ r.intf = OutFu /\ r.sel = "volume" /\ r.len = 2 /\ r.val < 65536
     \/ r.intf = OutFu /\ r.sel = "mute" /\ r.len = 1 /\ r.val \in {0, 1}
GetRequest(r) ==
  /\ r.in /\ r.len > 0
  /\ \/ r.name \in {"GET_DESCRIPTOR", "GET_CONFIGURATION", "GET_CUR"}
     \/ r.name = "GET_INTERFACE" /\ r.intf \in {OutIntf, InIntf}
     \/ r.name = "GET_STATUS" /\ r.sel \in {"out", "in"}
     \/ r.name = "GET_RANGE" /\ r.len <= RangeBytes(r.sel)
RequestNames ==
  {"none", "SET_ADDRESS", "SET_CONFIGURATION", "GET_CONFIGURATION", "SET_INTERFACE",
   "GET_INTERFACE", "GET_DESCRIPTOR", "SET_HALT", "CLEAR_HALT", "GET_STATUS", "SET_CUR",
   "GET_CUR", "GET_RANGE"}
Selectors == {"none", "device", "config", "string", "qualifier", "out", "in", "sam_freq",
              "clock_valid", "mute", "volume"}
Requests == [name : RequestNames, in : BOOLEAN, len : Nat, intf : Nat, sel : Selectors, val : Nat]
ASSUME RequestsAssumption ==
  \A r \in HostRequests :
    r \in Requests /\ (NoDataRequest(r) \/ SetRequest(r) \/ GetRequest(r))

(* What the tables come to: the configuration fits the buffer of endpoint 0 *)
(* (USB_BUFSIZ), and the two endpoints the function gets have a FIFO of 256 *)
(* bytes each.                                                              *)
ASSUME TablesAssumption ==
  /\ ConfigLength \in 1 .. 4096
  /\ OutEp.num # 0 /\ OutEp.max = 256 /\ HwEndpoints.eps[OutEp.num].rx = 256
  /\ InEp.num # 0 /\ InEp.max = 256 /\ HwEndpoints.eps[InEp.num].tx = 256

(* The controller takes any SETUP packet to its address; the transfer it    *)
(* was in has ended early unless DATAEND was set.                           *)
SendSetup(r, b) ==
  /\ faddr = belief.addr
  /\ MayAsk(r)
  /\ csr' = (csr \ {"TXPKTRDY", "DATAEND", "SENDSTALL"}) \cup {"RXPKTRDY"}
            \cup (IF host.stage # "idle" /\ "DATAEND" \notin csr THEN {"SETUPEND"} ELSE {})
  /\ fifo' = [EmptyFifo EXCEPT !.kind = "setup", !.n = 8, !.r = r]
  /\ irq' = TRUE
  /\ host' = [NoXfer EXCEPT !.stage = IF r.len = 0 THEN "status" ELSE "data", !.r = r]
  /\ belief' = b
  /\ UNCHANGED <<faddr, ep0, req, config, fn>>

StartTransfer ==
  /\ host.stage = "idle"
  /\ \E r \in HostRequests : SendSetup(r, belief)
  /\ count.transfers < MaxTransfers
  /\ count' = [count EXCEPT !.transfers = @ + 1]

(* Given up in the data stage, with the next transfer.                      *)
Abort ==
  /\ host.stage = "data"
  /\ count.faults < MaxFaults
  /\ \E r \in HostRequests : SendSetup(r, Doubt(belief, host.r))
  /\ count' = [count EXCEPT !.faults = @ + 1]

SendData ==
  /\ host.stage = "data" /\ ~host.r.in
  /\ {"RXPKTRDY", "SENDSTALL"} \cap csr = {}
  /\ LET n == Least(Ep0Fifo, host.r.len - host.n)
     IN /\ fifo' = [EmptyFifo EXCEPT !.kind = "out", !.n = n, !.val = host.r.val]
        /\ host' = [host EXCEPT !.n = @ + n,
                               !.stage = IF host.n + n = host.r.len THEN "status" ELSE @]
  /\ csr' = csr \cup {"RXPKTRDY"}
  /\ irq' = TRUE
  /\ UNCHANGED <<faddr, ep0, req, config, fn, belief, count>>

(* A packet shorter than the FIFO, or all that was asked for, ends the      *)
(* data stage.                                                              *)
TakeData ==
  /\ host.stage = "data" /\ host.r.in
  /\ "TXPKTRDY" \in csr
  /\ host' = [host EXCEPT !.n = @ + fifo.n, !.vals = @ \cup {fifo.val},
                         !.stage = IF fifo.n < Ep0Fifo \/ host.n + fifo.n = host.r.len
                                   THEN "status" ELSE @]
  /\ csr' = csr \ {"TXPKTRDY"}
  /\ fifo' = EmptyFifo
  /\ irq' = TRUE
  /\ UNCHANGED <<faddr, ep0, req, config, fn, belief, count>>

EndTransfer(b) == host' = NoXfer /\ belief' = b /\ irq' = TRUE

(* The status stage of a request without data or with data to the device    *)
(* waits for DATAEND; at the old address only.                              *)
StatusIn ==
  /\ host.stage = "status" /\ ~host.r.in
  /\ "DATAEND" \in csr /\ "SENDSTALL" \notin csr /\ faddr = belief.addr
  /\ csr' = csr \ {"DATAEND"}
  /\ EndTransfer(AfterOk(belief, host.r))
  /\ UNCHANGED <<fifo, faddr, ep0, req, config, fn, count>>

(* After data from the device it needs no permission: without DATAEND the   *)
(* controller reports SETUPEND and flushes the FIFO.                        *)
StatusOut(c) ==
  /\ host.r.in
  /\ {"RXPKTRDY", "SENDSTALL"} \cap csr = {}
  /\ csr' = (csr \ {"TXPKTRDY", "DATAEND"})
            \cup (IF "DATAEND" \in csr THEN {} ELSE {"SETUPEND"})
  /\ fifo' = EmptyFifo
  /\ EndTransfer(belief)
  /\ count' = c
  /\ UNCHANGED <<faddr, ep0, req, config, fn>>
Read == host.stage = "status" /\ StatusOut(count)
ReadEnough ==
  /\ host.stage = "data" /\ count.faults < MaxFaults
  /\ StatusOut([count EXCEPT !.faults = @ + 1])

GetStall ==
  /\ host.stage # "idle" /\ "SENDSTALL" \in csr
  /\ csr' = (csr \ {"SENDSTALL", "DATAEND"}) \cup {"SENTSTALL"}
  /\ EndTransfer(AfterStall(belief, host.r))
  /\ UNCHANGED <<fifo, faddr, ep0, req, config, fn, count>>

(* A bus reset with musb_g_reset; the host waits that long.  The driver     *)
(* keeps the configuration and the request.                                 *)
BusReset ==
  /\ count.faults < MaxFaults
  /\ csr' = {} /\ fifo' = EmptyFifo /\ irq' = FALSE /\ faddr' = 0
  /\ ep0' = [ep0 EXCEPT !.stage = "SETUP", !.address = 0]
  /\ host' = NoXfer
  /\ belief' = [Doubt(belief, host.r) EXCEPT !.addr = 0, !.cfg = Unknown]
  /\ count' = [count EXCEPT !.faults = @ + 1]
  /\ UNCHANGED <<req, config, fn>>

-----------------------------------------------------------------------------
(* After uac2_bind_config, afunc_bind, control_selector_init and the first  *)
(* bus reset.                                                               *)
Init ==
  /\ csr = {} /\ fifo = EmptyFifo /\ irq = FALSE /\ faddr = 0
  /\ ep0 = [stage |-> "SETUP", ackpend |-> {}, setAddress |-> FALSE, address |-> 0]
  /\ req = [listed |-> FALSE, len |-> 0, actual |-> 0, zero |-> FALSE, buf |-> 0,
            status |-> "0", complete |-> "setup"]
  /\ config = 0
  /\ fn = [outAlt |-> 0, inAlt |-> 0, outOn |-> FALSE, inOn |-> FALSE, halt |-> {},
           ch |-> 2, size |-> 2, cRate |-> 64000, pRate |-> 48000,
           cMax |-> 256, pMax |-> 192, pPkt |-> 0,
           mute |-> 0, volume |-> 65472, codec |-> Unknown,
           setCon |-> "none", csId |-> "none", ctlId |-> 0]
  /\ host = NoXfer
  /\ belief = [addr |-> 0, cfg |-> 0, alt |-> [i \in {OutIntf, InIntf} |-> 0],
               cRate |-> 64000, pRate |-> 48000, mute |-> 0, volume |-> 65472,
               halted |-> {}]
  /\ count = [transfers |-> 0, faults |-> 0]

HostNext == StartTransfer \/ Abort \/ SendData \/ TakeData \/ StatusIn \/ Read \/ ReadEnough
            \/ GetStall \/ BusReset
Next == Irq \/ HostNext

Spec == Init /\ [][Next]_vars

(* The interrupt is served (Irq is the step that does it); a host that      *)
(* started a transfer goes on with it.                                      *)
Served == irq /\ irq' = FALSE
FairSpec ==
  Spec /\ WF_irq(Served) /\ WF_vars(SendData) /\ WF_vars(TakeData) /\ WF_vars(StatusIn)
       /\ WF_vars(Read) /\ WF_vars(GetStall)

-----------------------------------------------------------------------------
(* Properties.                                                              *)

CsrBits == {"RXPKTRDY", "TXPKTRDY", "SENTSTALL", "SENDSTALL", "SETUPEND", "DATAEND"}

(* The driver is in a stage of its own, CSR0 holds known bits, and the      *)
(* alternate settings are ones the function has.                            *)
TypeOK ==
  /\ csr \subseteq CsrBits /\ irq \in BOOLEAN
  /\ fifo.kind \in {"empty", "setup", "out", "in"} /\ fifo.n \in 0 .. Ep0Fifo
  /\ ep0.stage \in {"IDLE", "SETUP", "TX", "RX", "ACKWAIT", "STATUSIN", "STATUSOUT"}
  /\ req.actual \in 0 .. req.len
  /\ config \in {0, 1} /\ fn.outAlt \in 0 .. 5 /\ fn.inAlt \in 0 .. 5

(* Between transfers, with every interrupt served, host and device agree:   *)
(* address, configuration, settings (an endpoint is enabled exactly in a    *)
(* setting that streams), rates, volume and mute, as far as the host knows  *)
(* them (an aborted SET_CUR leaves it in the dark).                         *)
Known(b, v) == b # Unknown => b = v
Agreement ==
  host.stage = "idle" /\ ~irq =>
    /\ faddr = belief.addr
    /\ Known(belief.cfg, config)
    /\ belief.cfg = 1 =>
         /\ belief.alt[OutIntf] = fn.outAlt /\ fn.outOn = (fn.outAlt # 0)
         /\ belief.alt[InIntf] = fn.inAlt /\ fn.inOn = (fn.inAlt # 0)
    /\ Known(belief.cRate, fn.cRate) /\ Known(belief.pRate, fn.pRate)
    /\ Known(belief.volume, fn.volume) /\ Known(belief.mute, fn.mute)

(* What a host has read when it goes on to the status stage is the answer   *)
(* to its own request, complete and from one reading of the device: the     *)
(* descriptor up to the length asked for, the setting and the rate it set.  *)
Answer(r) ==
  CASE r.name = "GET_DESCRIPTOR" -> Descriptors[r.sel].b
    [] r.name = "GET_CONFIGURATION" -> belief.cfg
    [] r.name = "GET_INTERFACE" -> belief.alt[r.intf]
    [] r.name = "GET_CUR" /\ r.sel = "sam_freq" ->
         IF r.intf = InClk THEN belief.pRate ELSE belief.cRate
    [] r.name = "GET_CUR" /\ r.sel = "volume" -> belief.volume
    [] r.name = "GET_CUR" /\ r.sel = "mute" -> belief.mute
    [] r.name = "GET_STATUS" -> IF r.sel \in belief.halted THEN 1 ELSE 0
    [] OTHER -> Unknown
AnswerLength(r) ==
  CASE r.name = "GET_DESCRIPTOR" -> Descriptors[r.sel].len
    [] r.name = "GET_STATUS" -> 2
    [] r.name \in {"GET_CONFIGURATION", "GET_INTERFACE"} -> 1
    [] r.name = "GET_CUR" -> (CASE r.sel = "sam_freq" -> 4 [] r.sel = "volume" -> 2 [] OTHER -> 1)
    [] r.name = "GET_RANGE" -> r.len
ReadsAnswer ==
  host.stage = "status" /\ host.r.in =>
    /\ host.n = Least(AnswerLength(host.r), host.r.len)
    /\ \A v \in host.vals : Known(Answer(host.r), v)

(* A setting that streams has packets the endpoint's FIFO holds ("max       *)
(* fifo:256 ... so max rate:64k") and the packet size register, in units of *)
(* eight bytes, allows what a frame brings at the current rate.             *)
PacketFits ==
  /\ fn.outOn => /\ fn.cMax <= HwEndpoints.eps[OutEp.num].rx
                 /\ fn.ch * fn.size * DivUp(fn.cRate, 1000) <= MaxpRegister(fn.cMax)
  /\ fn.inOn => fn.pMax <= HwEndpoints.eps[InEp.num].tx /\ fn.pPkt <= MaxpRegister(fn.pMax)

(* A control changes only when the host has sent all of a new value for it  *)
(* and is waiting for the status stage, to that value.                      *)
Sent(sel, val) ==
  host.stage = "status" /\ host.r.name = "SET_CUR" /\ host.r.sel = sel /\ val = host.r.val
VolumeFromHost == [][fn'.volume # fn.volume => Sent("volume", fn'.volume)]_vars
(* ... the rates too, except that selecting a setting may lower one.        *)
RateFromHost ==
  [][/\ fn'.cRate # fn.cRate =>
          \/ Sent("sam_freq", fn'.cRate) /\ host.r.intf = OutClk
          \/ host.r.name \in {"SET_INTERFACE", "SET_CONFIGURATION"} /\ fn'.cRate < fn.cRate
     /\ fn'.pRate # fn.pRate => Sent("sam_freq", fn'.pRate) /\ host.r.intf = InClk]_vars

(* A transfer the host has started ends: answered, stalled or given up.     *)
TransferEnds == host.stage # "idle" ~> host.stage = "idle"
=============================================================================
