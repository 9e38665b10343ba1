--------------------------- MODULE UsbControl_proofs -------------------------
(***************************************************************************)
(* Proofs about UsbControl for every host that makes proper requests, any  *)
(* number of them and of faults.                                           *)
(***************************************************************************)
EXTENDS UsbControl, TLAPS

-----------------------------------------------------------------------------
(* The types.                                                               *)

Stages == {"IDLE", "SETUP", "TX", "RX", "ACKWAIT", "STATUSIN", "STATUSOUT"}
Acks == {"SVDRXPKTRDY", "TXPKTRDY", "DATAEND"}
Fifos == [kind : {"empty", "setup", "out", "in"}, n : 0 .. Ep0Fifo, val : Nat, r : Requests]
Ep0States == [stage : Stages, ackpend : SUBSET Acks, setAddress : BOOLEAN, address : Nat]
ReqStates == [listed : BOOLEAN, len : Nat, actual : Nat, zero : BOOLEAN, buf : Nat,
              status : {"0", "-EINPROGRESS", "-EOVERFLOW"},
              complete : {"setup", "sam_freq", "fu_control"}]
FuControls == {"none", "mute", "volume"}
FnStates == [outAlt : 0 .. 5, inAlt : 0 .. 5, outOn : BOOLEAN, inOn : BOOLEAN,
             halt : SUBSET {"out", "in"}, ch : Nat, size : Nat, cRate : Nat, pRate : Nat,
             cMax : Nat, pMax : Nat, pPkt : Nat, mute : Nat, volume : Nat, codec : Int,
             setCon : FuControls, csId : FuControls, ctlId : Nat]
States == [csr : SUBSET CsrBits, fifo : Fifos, faddr : Nat, ep0 : Ep0States,
           req : ReqStates, config : {0, 1}, fn : FnStates]
Transfers == [stage : {"idle", "data", "status"}, n : Nat, vals : SUBSET Nat, r : Requests]
Beliefs == [addr : Nat, cfg : Int, alt : [{OutIntf, InIntf} -> Nat], cRate : Int,
            pRate : Int, mute : Int, volume : Int, halted : SUBSET {"out", "in"}]

-----------------------------------------------------------------------------
(* The invariant.                                                           *)

(* The audio function at rest: what it offers, endpoints that are enabled   *)
(* exactly in the settings that stream, packets that fit, and a control     *)
(* that is written only when it is the one selected.                        *)
Formats == {<<2, 2>>, <<1, 4>>, <<2, 4>>, <<6, 2>>, <<8, 2>>}
FnOk(f) ==
  /\ f \in FnStates
  /\ <<f.ch, f.size>> \in Formats
  /\ f.cRate \in Elements(CRates) /\ f.pRate \in Elements(PRates)
  /\ f.outOn = (f.outAlt # 0) /\ f.inOn = (f.inAlt # 0)
  /\ f.outOn => /\ f.cMax <= 256
                /\ f.ch * f.size * DivUp(f.cRate, 1000) <= MaxpRegister(f.cMax)
  /\ f.inOn => f.pMax <= 256 /\ f.pPkt <= MaxpRegister(f.pMax)
  /\ f.setCon \in {"none", f.csId}

(* The device is what the host believes it to be.                           *)
Match(f, c, b) ==
  /\ Known(b.cfg, c)
  /\ b.cfg = 1 =>
       /\ b.alt[OutIntf] = f.outAlt /\ b.alt[InIntf] = f.inAlt
       /\ f.outOn => ("out" \in b.halted <=> "out" \in f.halt)
       /\ f.inOn => ("in" \in b.halted <=> "in" \in f.halt)
  /\ Known(b.cRate, f.cRate) /\ Known(b.pRate, f.pRate)
  /\ Known(b.volume, f.volume) /\ Known(b.mute, f.mute)

(* The request of endpoint 0.  One that is left over has moved nothing, so  *)
(* that its completion changes no rate and no volume.                       *)
ReqOk(q) ==
  /\ q \in ReqStates /\ q.actual <= q.len /\ q.len <= 4096
  /\ q.listed => q.complete = "setup" \/ q.actual = 0

(* Its completion would write mute: uac2_fu_control checks no size for it,  *)
(* and one that is left over writes a byte the host has not sent.  The host *)
(* gave that transfer up and knows nothing of mute.                         *)
Pending(s) ==
  /\ s.req.listed /\ s.req.complete = "fu_control"
  /\ s.fn.csId = "mute" /\ s.fn.setCon = "mute"
MuteInDoubt(s) == Pending(s) => belief.mute = Unknown

(* Between interrupts.                                                      *)
Rest(s) ==
  /\ s \in States /\ FnOk(s.fn) /\ ReqOk(s.req)
  /\ s.ep0.ackpend = {} /\ s.ep0.stage # "ACKWAIT"
  /\ s.ep0.stage = "RX" => ~s.ep0.setAddress
  /\ "SENTSTALL" \in s.csr => s.ep0.stage = "IDLE"

(* The address the device has, or will take over with the next interrupt.   *)
Addressed(s, a) ==
  a = IF s.ep0.stage = "STATUSIN" /\ s.ep0.setAddress THEN s.ep0.address ELSE s.faddr

(* Where a transfer is: there is none ...                                   *)
Idle(s, i) ==
  /\ host = NoXfer /\ s.csr \subseteq {"SENTSTALL", "SETUPEND"}
  /\ s.ep0.stage # "RX" /\ (s.ep0.stage = "TX" => "SETUPEND" \in s.csr /\ i)
  /\ s.ep0.stage = "STATUSIN" => i
  /\ Addressed(s, belief.addr) /\ Match(s.fn, s.config, belief) /\ MuteInDoubt(s)

(* ... its SETUP packet is in the FIFO, over whatever was there ...         *)
Asked(s, i) ==
  /\ host = [NoXfer EXCEPT !.stage = IF host.r.len = 0 THEN "status" ELSE "data", !.r = host.r]
  /\ i /\ "RXPKTRDY" \in s.csr /\ s.csr \subseteq {"RXPKTRDY", "SENTSTALL", "SETUPEND"}
  /\ s.fifo.n = 8 /\ s.fifo.r = host.r
  /\ s.ep0.stage \in {"TX", "RX"} => "SETUPEND" \in s.csr
  /\ Addressed(s, belief.addr) /\ Match(s.fn, s.config, belief) /\ MuteInDoubt(s)

(* ... it is refused ...                                                    *)
Stalled(s, i) ==
  /\ host.r.in => host.stage = "data"
  /\ "SENDSTALL" \in s.csr /\ s.csr \subseteq {"SENDSTALL", "DATAEND"} /\ ~i
  /\ s.ep0.stage = "IDLE" /\ s.req.listed = FALSE
  /\ Match(s.fn, s.config, AfterStall(belief, host.r))

(* ... carried out, with the status stage to come ...                       *)
Done(s, i) ==
  /\ ~host.r.in /\ host.stage = "status" /\ s.csr = {"DATAEND"} /\ ~i
  /\ s.ep0.stage = "STATUSIN" /\ Addressed(s, AfterOk(belief, host.r).addr)
  /\ s.req.listed = FALSE /\ Match(s.fn, s.config, AfterOk(belief, host.r))

(* ... the device sends the answer, a full packet that is not the last one  *)
(* is in the FIFO or was taken ...                                          *)
ReadSoFar == \A v \in host.vals : Known(Answer(host.r), v)
ToRead == Least(AnswerLength(host.r), host.r.len)
Sending(s, i) ==
  /\ host.r.in /\ host.stage = "data" /\ s.ep0.stage = "TX"
  /\ s.req.listed /\ s.req.complete = "setup"
  /\ s.req.len = ToRead /\ s.req.zero = (s.req.len < host.r.len)
  /\ s.req.actual = s.req.len => s.req.zero
  /\ \/ s.csr = {} /\ i /\ host.n = s.req.actual
     \/ /\ s.csr = {"TXPKTRDY"} /\ ~i /\ s.fifo.n = Ep0Fifo /\ s.fifo.val = s.req.buf
        /\ host.n + Ep0Fifo = s.req.actual
  /\ Known(Answer(host.r), s.req.buf) /\ ReadSoFar /\ Match(s.fn, s.config, belief)

(* ... or the last one ...                                                  *)
LastSent(s, i) ==
  /\ host.r.in /\ s.ep0.stage = "STATUSOUT" /\ s.req.listed = FALSE
  /\ ReadSoFar /\ Match(s.fn, s.config, belief)
  /\ \/ /\ host.stage = "data" /\ s.csr = {"TXPKTRDY", "DATAEND"} /\ ~i
        /\ host.n + s.fifo.n = ToRead /\ (s.fifo.n < Ep0Fifo \/ ToRead = host.r.len)
        /\ Known(Answer(host.r), s.fifo.val)
     \/ host.stage = "status" /\ s.csr = {"DATAEND"} /\ host.n = ToRead

(* ... or it waits for a new value, or the value is in the FIFO.            *)
Receiving(s, i) ==
  /\ SetRequest(host.r) /\ s.ep0.stage = "RX"
  /\ s.req.listed /\ s.req.actual = 0 /\ s.req.len = host.r.len
  /\ s.req.status = "-EINPROGRESS"
  /\ IF host.r.sel = "sam_freq" THEN s.req.complete = "sam_freq" /\ s.fn.ctlId = host.r.intf
     ELSE s.req.complete = "fu_control" /\ s.fn.csId = host.r.sel /\ s.fn.setCon = host.r.sel
  /\ \/ s.csr = {} /\ ~i /\ host.stage = "data" /\ host.n = 0
     \/ /\ s.csr = {"RXPKTRDY"} /\ i /\ host.stage = "status"
        /\ s.fifo.n = host.r.len /\ s.fifo.val = host.r.val
  /\ Match(s.fn, s.config, belief)

Answered(s, i) ==
  Stalled(s, i) \/ Done(s, i) \/ Sending(s, i) \/ LastSent(s, i) \/ Receiving(s, i)

(* A transfer under way is of a request the host may make, to the address   *)
(* the device has.                                                          *)
Proper(r) == NoDataRequest(r) \/ SetRequest(r) \/ GetRequest(r)
Busy(s) ==
  /\ host.stage \in {"data", "status"} /\ (host.r.len = 0 => host.stage = "status")
  /\ Proper(host.r) /\ MayAsk(host.r) /\ s.faddr = belief.addr

IInv ==
  /\ irq \in BOOLEAN /\ host \in Transfers /\ belief \in Beliefs
  /\ Rest(State)
  /\ Idle(State, irq) \/ (Busy(State) /\ (Asked(State, irq) \/ Answered(State, irq)))

-----------------------------------------------------------------------------
(* Endpoint 0.                                                              *)

LEMMA StateFacts ==
  ASSUME NEW s \in States
  PROVE  /\ s.csr \subseteq CsrBits /\ s.fifo \in Fifos /\ s.faddr \in Nat
         /\ s.ep0 \in Ep0States /\ s.req \in ReqStates /\ s.config \in {0, 1}
         /\ s.fn \in FnStates
BY DEF States

(* A write of CSR0 touches nothing else.                                    *)
LEMMA WriteFacts ==
  ASSUME NEW s \in States, NEW w \in SUBSET {"SVDRXPKTRDY", "SVDSETUPEND", "TXPKTRDY", "DATAEND",
                                             "SENDSTALL"}
  PROVE  /\ WriteCsr(s, w) \in States
         /\ WriteCsr(s, w).csr =
              (s.csr \ ({"SENTSTALL"} \cup (IF "SVDRXPKTRDY" \in w THEN {"RXPKTRDY"} ELSE {})
                                      \cup (IF "SVDSETUPEND" \in w THEN {"SETUPEND"} ELSE {})))
               \cup (w \cap {"TXPKTRDY", "DATAEND", "SENDSTALL"})
         /\ WriteCsr(s, w).fifo = s.fifo /\ WriteCsr(s, w).faddr = s.faddr
         /\ WriteCsr(s, w).ep0 = s.ep0 /\ WriteCsr(s, w).req = s.req
         /\ WriteCsr(s, w).config = s.config /\ WriteCsr(s, w).fn = s.fn
<1> DEFINE c == (s.csr \ ({"SENTSTALL"} \cup (IF "SVDRXPKTRDY" \in w THEN {"RXPKTRDY"} ELSE {})
                                      \cup (IF "SVDSETUPEND" \in w THEN {"SETUPEND"} ELSE {})))
                 \cup (w \cap {"TXPKTRDY", "DATAEND", "SENDSTALL"})
<1>1. c \in SUBSET CsrBits
  BY StateFacts DEF CsrBits
<1>2. WriteCsr(s, w) = [s EXCEPT !.csr = c]
  BY DEF WriteCsr, States
<1> HIDE DEF c
<1>3. /\ WriteCsr(s, w) \in States /\ WriteCsr(s, w).csr = c
      /\ WriteCsr(s, w).fifo = s.fifo /\ WriteCsr(s, w).faddr = s.faddr
      /\ WriteCsr(s, w).ep0 = s.ep0 /\ WriteCsr(s, w).req = s.req
      /\ WriteCsr(s, w).config = s.config /\ WriteCsr(s, w).fn = s.fn
  BY <1>1, <1>2 DEF States
<1>4. QED
  BY <1>3 DEF c
-----------------------------------------------------------------------------
(* The audio function.                                                      *)

LEMMA RateSets ==
  /\ Elements(CRates) = {12000, 16000, 24000, 32000, 48000, 64000}
  /\ Elements(PRates) = {11025, 12000, 16000, 22050, 24000, 32000, 44100, 48000}
<1>1. DOMAIN CRates = {1, 2, 3, 4, 5, 6} /\ DOMAIN PRates = {1, 2, 3, 4, 5, 6, 7, 8}
  BY DEF CRates, PRates
<1>2. Elements(CRates) = {CRates[1], CRates[2], CRates[3], CRates[4], CRates[5], CRates[6]}
  BY <1>1, ZenonT(60) DEF Elements
<1>3. Elements(PRates) = {PRates[1], PRates[2], PRates[3], PRates[4], PRates[5], PRates[6],
                          PRates[7], PRates[8]}
  BY <1>1, ZenonT(60) DEF Elements
<1>4. QED
  BY <1>2, <1>3 DEF CRates, PRates

(* Whatever the setting and the rate, a packet fits the FIFO and the        *)
(* register, when the rate was lowered to what the format has room for.     *)
LEMMA OutFits ==
  ASSUME NEW ch, NEW size, <<ch, size>> \in Formats, NEW rate \in Elements(CRates),
         NEW limit, limit = RateLimit([ch |-> ch, size |-> size, cRate |-> rate])
  PROVE  LET low == Least(rate, limit)
             max == ch * size * DivUp(low, 1000)
         IN  /\ low \in Elements(CRates) /\ low <= rate
             /\ max \in Nat /\ max <= 256 /\ max <= MaxpRegister(max)
<1> DEFINE low == Least(rate, limit)
           max == ch * size * DivUp(low, 1000)
<1>1. limit = IF ch \in {6, 8} THEN 16000 ELSE IF ch = 2 /\ size = 4 THEN 32000 ELSE rate
  BY DEF RateLimit
<1>2. rate \in {12000, 16000, 24000, 32000, 48000, 64000}
  BY RateSets
<1>3. \/ ch = 2 /\ size = 2
      \/ ch = 1 /\ size = 4
      \/ ch = 2 /\ size = 4
      \/ ch = 6 /\ size = 2
      \/ ch = 8 /\ size = 2
  BY DEF Formats
<1>4. low \in {12000, 16000, 24000, 32000, 48000, 64000} /\ low <= rate
  BY <1>1, <1>2, <1>3 DEF Least
<1>5. /\ ch \in {6, 8} => low \in {12000, 16000}
      /\ ch = 2 /\ size = 4 => low \in {12000, 16000, 24000, 32000}
  BY <1>1, <1>2, <1>3 DEF Least
<1>6. DivUp(low, 1000) = IF low = 12000 THEN 12 ELSE IF low = 16000 THEN 16
                         ELSE IF low = 24000 THEN 24 ELSE IF low = 32000 THEN 32
                         ELSE IF low = 48000 THEN 48 ELSE 64
  BY <1>4 DEF DivUp
<1> HIDE DEF low
<1>7. max \in {48, 64, 96, 128, 192, 256, 144, 192, 256, 192}
  BY <1>3, <1>4, <1>5, <1>6
<1>8. max \in Nat /\ max <= 256 /\ max <= MaxpRegister(max)
  BY <1>7 DEF MaxpRegister
<1>9. QED
  BY <1>4, <1>8, RateSets DEF low

LEMMA InFits ==
  ASSUME NEW rate \in Elements(PRates)
  PROVE  LET max == InFrame * DivUp(rate, 1000)
             pkt == Least((rate * InFrame) \div 1000, max)
         IN  /\ max \in Nat /\ pkt \in Nat /\ max <= 256 /\ pkt <= MaxpRegister(max)
<1>1. rate \in {11025, 12000, 16000, 22050, 24000, 32000, 44100, 48000}
  BY RateSets
<1>2. QED
  BY <1>1 DEF InFrame, DivUp, Least, MaxpRegister
(* A new setting changes the interface it is of, and may lower the rate.    *)
SettingOnly(f, g) ==
  /\ g.pRate = f.pRate /\ g.cRate <= f.cRate /\ g.mute = f.mute /\ g.volume = f.volume
  /\ g.codec = f.codec /\ g.setCon = f.setCon /\ g.csId = f.csId /\ g.ctlId = f.ctlId

(* Setting alt of interface intf is selected, and its endpoint enabled.     *)
Taken(f, intf, alt, a) ==
  /\ a.ok = TRUE
  /\ a.f.outAlt = IF intf = OutIntf THEN alt ELSE f.outAlt
  /\ a.f.inAlt = IF intf = InIntf THEN alt ELSE f.inAlt
  /\ a.f.halt = IF alt = 0 THEN f.halt
                ELSE f.halt \ {IF intf = OutIntf THEN "out" ELSE "in"}

LEMMA OutAltFacts ==
  ASSUME NEW f, FnOk(f), NEW alt \in 0 .. 5
  PROVE  /\ FnOk(SetOutAlt(f, alt).f) /\ SettingOnly(f, SetOutAlt(f, alt).f)
         /\ Taken(f, OutIntf, alt, SetOutAlt(f, alt))
<1> DEFINE h == IF alt = 0 THEN f ELSE [f EXCEPT !.ch = OutFormat[alt].ch, !.size = OutFormat[alt].size]
           low == Least(h.cRate, RateLimit(h))
           max == h.ch * h.size * DivUp(low, 1000)
           e == [h EXCEPT !.cRate = low, !.cMax = max]
           g == [e EXCEPT !.outAlt = alt, !.outOn = (alt # 0), !.halt = IF alt # 0 THEN @ \ {"out"} ELSE @]
<1>1. /\ h \in FnStates /\ <<h.ch, h.size>> \in Formats /\ h.cRate = f.cRate
      /\ h.inAlt = f.inAlt /\ h.inOn = f.inOn /\ h.halt = f.halt
      /\ h.pRate = f.pRate /\ h.mute = f.mute /\ h.volume = f.volume /\ h.codec = f.codec
      /\ h.setCon = f.setCon /\ h.csId = f.csId /\ h.ctlId = f.ctlId
      /\ h.pMax = f.pMax /\ h.pPkt = f.pPkt
  <2>1. CASE alt = 0
    BY <2>1 DEF FnOk
  <2>2. CASE alt # 0
    <3>1. alt \in {1, 2, 3, 4, 5}
      BY <2>2
    <3> DEFINE c == OutFormat[alt].ch
               z == OutFormat[alt].size
    <3>2. c \in Nat /\ z \in Nat /\ <<c, z>> \in Formats
      BY <3>1 DEF OutFormat, Formats
    <3> HIDE DEF c, z
    <3>3. h = [f EXCEPT !.ch = c, !.size = z]
      BY <2>2 DEF c, z
    <3> HIDE DEF h
    <3>4. QED
      BY <3>2, <3>3 DEF FnOk, FnStates
  <2>3. QED
    BY <2>1, <2>2
<1> HIDE DEF h
<1>2. RateLimit([ch |-> h.ch, size |-> h.size, cRate |-> h.cRate]) = RateLimit(h)
  BY DEF RateLimit
<1>3. /\ low \in Elements(CRates) /\ low <= h.cRate
      /\ max \in Nat /\ max <= 256 /\ max <= MaxpRegister(max)
  BY <1>1, <1>2, OutFits DEF FnOk
<1>4. low \in Nat
  BY <1>3, RateSets
<1>5. SetOutPacketSize(h) = e
  BY DEF SetOutPacketSize
<1> HIDE DEF low, max
<1>6. /\ e \in FnStates /\ e.cRate = low /\ e.cMax = max /\ e.ch = h.ch /\ e.size = h.size
      /\ e.inAlt = f.inAlt /\ e.inOn = f.inOn /\ e.halt = f.halt
      /\ e.pRate = f.pRate /\ e.mute = f.mute /\ e.volume = f.volume /\ e.codec = f.codec
      /\ e.setCon = f.setCon /\ e.csId = f.csId /\ e.ctlId = f.ctlId
      /\ e.pMax = f.pMax /\ e.pPkt = f.pPkt
  BY <1>1, <1>3, <1>4 DEF FnStates
<1>7. EnableOk(OutEp, e.cMax)
  BY <1>3, <1>6, TablesAssumption DEF EnableOk
<1> HIDE DEF e
<1>8. SetOutAlt(f, alt) = [f |-> g, ok |-> TRUE]
  BY <1>5, <1>7 DEF SetOutAlt, h
<1>9. /\ g \in FnStates /\ g.cRate = low /\ g.cMax = max /\ g.ch = h.ch /\ g.size = h.size
      /\ g.inAlt = f.inAlt /\ g.inOn = f.inOn /\ g.outAlt = alt /\ g.outOn = (alt # 0)
      /\ g.halt = (IF alt # 0 THEN f.halt \ {"out"} ELSE f.halt)
      /\ g.pRate = f.pRate /\ g.mute = f.mute /\ g.volume = f.volume /\ g.codec = f.codec
      /\ g.setCon = f.setCon /\ g.csId = f.csId /\ g.ctlId = f.ctlId
      /\ g.pMax = f.pMax /\ g.pPkt = f.pPkt
  BY <1>6 DEF FnStates
<1>10. max = g.ch * g.size * DivUp(g.cRate, 1000)
  BY <1>9 DEF max
<1> HIDE DEF g
<1>11. FnOk(g)
  BY <1>1, <1>3, <1>9, <1>10 DEF FnOk
<1>12. g.cRate <= f.cRate
  BY <1>1, <1>3, <1>9
<1>13. SettingOnly(f, g)
  BY <1>9, <1>12 DEF SettingOnly
<1>14. SetOutAlt(f, alt).f = g /\ SetOutAlt(f, alt).ok = TRUE
  BY <1>8
<1>15. Taken(f, OutIntf, alt, SetOutAlt(f, alt))
  BY <1>9, <1>14 DEF Taken, OutIntf, InIntf
<1>16. QED
  BY <1>11, <1>13, <1>14, <1>15

LEMMA InAltFacts ==
  ASSUME NEW f, FnOk(f), NEW alt \in 0 .. 5
  PROVE  /\ FnOk(SetInAlt(f, alt).f) /\ SettingOnly(f, SetInAlt(f, alt).f)
         /\ SetInAlt(f, alt).f.cRate = f.cRate
         /\ Taken(f, InIntf, alt, SetInAlt(f, alt))
<1> DEFINE max == InFrame * DivUp(f.pRate, 1000)
           pkt == Least((f.pRate * InFrame) \div 1000, max)
           e == [f EXCEPT !.pMax = max, !.pPkt = pkt]
           g == [e EXCEPT !.inAlt = alt, !.inOn = (alt # 0), !.halt = IF alt # 0 THEN @ \ {"in"} ELSE @]
<1>1. max \in Nat /\ pkt \in Nat /\ max <= 256 /\ pkt <= MaxpRegister(max)
  BY InFits DEF FnOk
<1>2. SetInPacketSize(f) = e
  BY DEF SetInPacketSize
<1> HIDE DEF max, pkt
<1>3. /\ e \in FnStates /\ e.pMax = max /\ e.pPkt = pkt /\ e.ch = f.ch /\ e.size = f.size
      /\ e.outAlt = f.outAlt /\ e.outOn = f.outOn /\ e.halt = f.halt /\ e.cMax = f.cMax
      /\ e.pRate = f.pRate /\ e.mute = f.mute /\ e.volume = f.volume /\ e.codec = f.codec
      /\ e.setCon = f.setCon /\ e.csId = f.csId /\ e.ctlId = f.ctlId /\ e.cRate = f.cRate
  BY <1>1 DEF FnOk, FnStates
<1>4. EnableOk(InEp, e.pMax)
  BY <1>1, <1>3, TablesAssumption DEF EnableOk
<1> HIDE DEF e
<1>5. SetInAlt(f, alt) = [f |-> g, ok |-> TRUE]
  BY <1>2, <1>4 DEF SetInAlt
<1>6. /\ g \in FnStates /\ g.pMax = max /\ g.pPkt = pkt /\ g.ch = f.ch /\ g.size = f.size
      /\ g.outAlt = f.outAlt /\ g.outOn = f.outOn /\ g.inAlt = alt /\ g.inOn = (alt # 0)
      /\ g.halt = (IF alt # 0 THEN f.halt \ {"in"} ELSE f.halt) /\ g.cMax = f.cMax
      /\ g.pRate = f.pRate /\ g.mute = f.mute /\ g.volume = f.volume /\ g.codec = f.codec
      /\ g.setCon = f.setCon /\ g.csId = f.csId /\ g.ctlId = f.ctlId /\ g.cRate = f.cRate
  BY <1>3 DEF FnStates
<1> HIDE DEF g
<1>7. FnOk(g)
  BY <1>1, <1>6 DEF FnOk
<1>8. f.cRate \in Nat
  BY DEF FnOk, FnStates
<1>9. SettingOnly(f, g)
  BY <1>6, <1>8 DEF SettingOnly
<1>10. SetInAlt(f, alt).f = g /\ SetInAlt(f, alt).ok = TRUE
  BY <1>5
<1>11. Taken(f, InIntf, alt, SetInAlt(f, alt))
  BY <1>6, <1>10 DEF Taken, OutIntf, InIntf
<1>12. QED
  BY <1>6, <1>7, <1>9, <1>10, <1>11
LEMMA SettingSame ==
  ASSUME NEW f, FnOk(f) PROVE SettingOnly(f, f)
BY DEF FnOk, FnStates, SettingOnly

(* afunc_set_alt: a setting the function has is taken, another changes      *)
(* nothing.                                                                 *)
AltOk(f, intf, alt, a) ==
  /\ FnOk(a.f) /\ SettingOnly(f, a.f) /\ (intf # OutIntf => a.f.cRate = f.cRate)
  /\ Taken(f, intf, alt, a) \/ (a.ok = FALSE /\ a.f = f /\ alt # 0)

LEMMA SetAltFacts ==
  ASSUME NEW f, FnOk(f), NEW intf \in {AcIntf, OutIntf, InIntf}, NEW alt \in Nat
  PROVE  AltOk(f, intf, alt, SetAlt(f, intf, alt))
<1> DEFINE a == SetAlt(f, intf, alt)
<1>1. CASE alt > 5
  <2>1. a = [f |-> f, ok |-> FALSE]
    BY <1>1 DEF SetAlt
  <2> HIDE DEF a
  <2>2. a.f = f /\ a.ok = FALSE /\ alt # 0
    BY <1>1, <2>1
  <2>3. QED
    BY <2>2, SettingSame DEF AltOk, a
<1>2. CASE ~(alt > 5) /\ intf = AcIntf
  <2>1. CASE alt = 0
    <3>1. a = [f |-> f, ok |-> TRUE]
      <4>1. AcIntf # OutIntf /\ AcIntf # InIntf
        BY DEF AcIntf, OutIntf, InIntf
      <4>2. a = [f |-> f, ok |-> (alt = 0)]
        BY <1>2, <4>1, Zenon DEF SetAlt
      <4>3. (alt = 0) = TRUE
        BY <2>1
      <4>4. QED
        BY <4>2, <4>3, Zenon
    <3> HIDE DEF a
    <3>2. a.f = f /\ a.ok = TRUE
      BY <3>1
    <3>3. Taken(f, intf, alt, a)
      BY <1>2, <2>1, <3>2 DEF Taken, AcIntf, OutIntf, InIntf
    <3>4. QED
      BY <3>2, <3>3, SettingSame DEF AltOk, a
  <2>2. CASE alt # 0
    <3>1. a = [f |-> f, ok |-> FALSE]
      <4>1. AcIntf # OutIntf /\ AcIntf # InIntf
        BY DEF AcIntf, OutIntf, InIntf
      <4>2. a = [f |-> f, ok |-> (alt = 0)]
        BY <1>2, <4>1, Zenon DEF SetAlt
      <4>3. (alt = 0) = FALSE
        BY <2>2
      <4>4. QED
        BY <4>2, <4>3, Zenon
    <3> HIDE DEF a
    <3>2. a.f = f /\ a.ok = FALSE
      BY <3>1
    <3>3. QED
      BY <2>2, <3>2, SettingSame DEF AltOk, a
  <2>3. QED
    BY <2>1, <2>2
<1>3. CASE ~(alt > 5) /\ intf = OutIntf
  <2>1. a = SetOutAlt(f, alt) /\ alt \in 0 .. 5
    BY <1>3 DEF SetAlt, AcIntf, OutIntf, InIntf
  <2>2. QED
    BY <1>3, <2>1, OutAltFacts DEF AltOk
<1>4. CASE ~(alt > 5) /\ intf = InIntf
  <2>1. a = SetInAlt(f, alt) /\ alt \in 0 .. 5
    BY <1>4 DEF SetAlt, AcIntf, OutIntf, InIntf
  <2>2. QED
    BY <1>4, <2>1, InAltFacts DEF AltOk
<1>5. QED
  BY <1>1, <1>2, <1>3, <1>4

LEMMA DisableFacts ==
  ASSUME NEW f, FnOk(f)
  PROVE  /\ FnOk(Disable(f)) /\ SettingOnly(f, Disable(f))
         /\ Disable(f).outAlt = 0 /\ Disable(f).inAlt = 0 /\ Disable(f).cRate = f.cRate
<1> DEFINE g == Disable(f)
<1>1. f \in FnStates
  BY DEF FnOk
<1>2. g = [f EXCEPT !.outAlt = 0, !.inAlt = 0, !.outOn = FALSE, !.inOn = FALSE]
  BY DEF Disable
<1> HIDE DEF g
<1>3. g \in FnStates
  <2> DEFINE zero == 0
             no == FALSE
  <2>1. zero \in 0 .. 5 /\ no \in BOOLEAN
    OBVIOUS
  <2>2. g = [f EXCEPT !.outAlt = zero, !.inAlt = zero, !.outOn = no, !.inOn = no]
    BY <1>2
  <2> HIDE DEF zero, no
  <2>3. QED
    BY <1>1, <2>1, <2>2 DEF FnStates
<1>4. /\ g.ch = f.ch /\ g.size = f.size /\ g.outAlt = 0 /\ g.inAlt = 0
      /\ g.pRate = f.pRate /\ g.mute = f.mute /\ g.volume = f.volume /\ g.codec = f.codec
      /\ g.setCon = f.setCon /\ g.csId = f.csId /\ g.ctlId = f.ctlId /\ g.cRate = f.cRate
  BY <1>1, <1>2 DEF FnStates
<1>5. g.outOn = FALSE /\ g.inOn = FALSE
  BY <1>1, <1>2 DEF FnStates
<1>6. f.cRate \in Nat
  BY <1>1 DEF FnStates
<1>7. g.outOn = (g.outAlt # 0) /\ g.inOn = (g.inAlt # 0)
  BY <1>4, <1>5
<1>8. FnOk(g)
  BY <1>3, <1>4, <1>5, <1>7 DEF FnOk
<1>9. QED
  BY <1>4, <1>6, <1>8 DEF SettingOnly, g

(* set_config: every interface into its setting 0.                          *)
Configured(f) == SetAlt(SetAlt(SetAlt(f, AcIntf, 0).f, OutIntf, 0).f, InIntf, 0).f

LEMMA ConfiguredFacts ==
  ASSUME NEW f, FnOk(f)
  PROVE  /\ FnOk(Configured(f)) /\ SettingOnly(f, Configured(f))
         /\ Configured(f).outAlt = 0 /\ Configured(f).inAlt = 0
<1> DEFINE a == SetAlt(f, AcIntf, 0)
           b == SetAlt(a.f, OutIntf, 0)
           c == SetAlt(b.f, InIntf, 0)
<1>1. AltOk(f, AcIntf, 0, a)
  BY SetAltFacts
<1> HIDE DEF a
<1>2. FnOk(a.f)
  BY <1>1 DEF AltOk
<1>3. AltOk(a.f, OutIntf, 0, b)
  BY <1>2, SetAltFacts
<1> HIDE DEF b
<1>4. FnOk(b.f) /\ b.f.outAlt = 0
  BY <1>3 DEF AltOk, Taken
<1>5. AltOk(b.f, InIntf, 0, c)
  BY <1>4, SetAltFacts
<1> HIDE DEF c
<1>6. FnOk(c.f) /\ c.f.inAlt = 0 /\ c.f.outAlt = b.f.outAlt
  BY <1>5 DEF AltOk, Taken, OutIntf, InIntf
<1>7. f.cRate \in Nat /\ a.f.cRate \in Nat /\ b.f.cRate \in Nat /\ c.f.cRate \in Nat
  BY <1>2, <1>4, <1>6 DEF FnOk, FnStates
<1>8. SettingOnly(f, a.f) /\ SettingOnly(a.f, b.f) /\ SettingOnly(b.f, c.f)
  BY <1>1, <1>3, <1>5 DEF AltOk
<1>9. SettingOnly(f, c.f)
  BY <1>7, <1>8 DEF SettingOnly
<1>10. Configured(f) = c.f
  BY DEF a, b, c, Configured
<1>11. QED
  BY <1>4, <1>6, <1>9, <1>10
-----------------------------------------------------------------------------
(* Giving the request back.                                                 *)

SameDevice(f, g) ==
  /\ g.outAlt = f.outAlt /\ g.inAlt = f.inAlt /\ g.halt = f.halt
  /\ g.cRate = f.cRate /\ g.pRate = f.pRate /\ g.volume = f.volume

LEMMA MatchSame ==
  ASSUME NEW f, NEW g, FnOk(f), FnOk(g), SameDevice(f, g), NEW c, NEW b, Match(f, c, b),
         g.mute = f.mute \/ b.mute = Unknown
  PROVE  Match(g, c, b)
<1>1. f.outOn = (f.outAlt # 0) /\ g.outOn = (g.outAlt # 0)
  BY DEF FnOk
<1>2. f.inOn = (f.inAlt # 0) /\ g.inOn = (g.inAlt # 0)
  BY DEF FnOk
<1>3. g.outOn = f.outOn /\ g.inOn = f.inOn
  BY <1>1, <1>2 DEF SameDevice
<1>4. QED
  BY <1>3 DEF SameDevice, Match, Known

(* What the completion callback works on.                                   *)
Completed(s) ==
  [s EXCEPT !.req.listed = FALSE,
            !.req.status = IF @ = "-EINPROGRESS" THEN "0" ELSE @]

LEMMA CompletedFacts ==
  ASSUME NEW s \in States
  PROVE  LET t == Completed(s)
         IN  /\ t \in States /\ t.csr = s.csr /\ t.fifo = s.fifo /\ t.faddr = s.faddr
             /\ t.ep0 = s.ep0 /\ t.config = s.config /\ t.fn = s.fn
             /\ t.req \in ReqStates /\ t.req.listed = FALSE /\ t.req.len = s.req.len
             /\ t.req.actual = s.req.actual /\ t.req.complete = s.req.complete
             /\ t.req.buf = s.req.buf
             /\ t.req.status = (IF s.req.status = "-EINPROGRESS" THEN "0" ELSE s.req.status)
<1> DEFINE no == FALSE
           st == IF s.req.status = "-EINPROGRESS" THEN "0" ELSE s.req.status
           q == [s.req EXCEPT !.listed = no, !.status = st]
<1>1. s.req \in ReqStates
  BY StateFacts
<1>2. no \in BOOLEAN /\ st \in {"0", "-EINPROGRESS", "-EOVERFLOW"}
  BY <1>1 DEF ReqStates
<1>3. Completed(s) = [s EXCEPT !.req = q]
  BY <1>1 DEF Completed, States, ReqStates
<1> HIDE DEF no, st
<1>4. /\ q \in ReqStates /\ q.listed = no /\ q.len = s.req.len /\ q.actual = s.req.actual
      /\ q.complete = s.req.complete /\ q.buf = s.req.buf /\ q.status = st
  BY <1>1, <1>2 DEF ReqStates
<1> HIDE DEF q
<1>5. /\ Completed(s) \in States /\ Completed(s).req = q
      /\ Completed(s).csr = s.csr /\ Completed(s).fifo = s.fifo
      /\ Completed(s).faddr = s.faddr /\ Completed(s).ep0 = s.ep0
      /\ Completed(s).config = s.config /\ Completed(s).fn = s.fn
  BY <1>3, <1>4 DEF States
<1>6. QED
  BY <1>4, <1>5 DEF no, st

LEMMA GivebackIs ==
  ASSUME NEW s \in States
  PROVE  Giveback(s) = IF s.req.complete = "sam_freq" THEN SamFreqDone(Completed(s))
                       ELSE IF s.req.complete = "fu_control" THEN FuControlDone(Completed(s))
                       ELSE Completed(s)
<1> DEFINE t == Completed(s)
<1>1. s.req.complete \in {"setup", "sam_freq", "fu_control"}
  BY StateFacts DEF ReqStates
<1>2. t.req.complete = s.req.complete
  BY CompletedFacts
<1>3. Giveback(s) = CASE t.req.complete = "sam_freq" -> SamFreqDone(t)
                      [] t.req.complete = "fu_control" -> FuControlDone(t)
                      [] t.req.complete = "setup" -> t
  BY DEF Giveback, Completed, States
<1> HIDE DEF t
<1>4. QED
  BY <1>1, <1>2, <1>3 DEF t

(* A control is written.                                                    *)
LEMMA ControlFacts ==
  ASSUME NEW f, FnOk(f), NEW con \in {"mute", "volume"}, NEW v \in Nat
  PROVE  LET g == SetControl([f EXCEPT !.setCon = "none"], con, v)
         IN  /\ FnOk(g) /\ g.outAlt = f.outAlt /\ g.inAlt = f.inAlt /\ g.halt = f.halt
             /\ g.cRate = f.cRate /\ g.pRate = f.pRate
             /\ g.mute = (IF con = "mute" THEN v ELSE f.mute)
             /\ g.volume = IF con = "mute" THEN f.volume ELSE v
<1> DEFINE e == [f EXCEPT !.setCon = "none"]
           g == SetControl(e, con, v)
           cod == IF con = "mute" THEN IF v = 1 THEN 0 ELSE CodecVolume(f.volume)
                  ELSE CodecVolume(v)
           mut == IF con = "mute" THEN v ELSE f.mute
           vol == IF con = "mute" THEN f.volume ELSE v
           non == "none"
<1>1. f \in FnStates /\ f.mute \in Nat /\ f.volume \in Nat
  BY DEF FnOk, FnStates
<1>2. cod \in Int
  BY <1>1 DEF CodecVolume, VolumeMin, VolumeSteps
<1>3. mut \in Nat /\ vol \in Nat
  BY <1>1
<1>9. non \in FuControls
  BY DEF FuControls
<1>4. g = [f EXCEPT !.setCon = non, !.mute = mut, !.volume = vol, !.codec = cod]
  BY <1>1 DEF SetControl, FnStates
<1> HIDE DEF g, cod, mut, vol, non
<1>5. g \in FnStates
  BY <1>1, <1>2, <1>3, <1>4, <1>9 DEF FnStates
<1>6. /\ g.ch = f.ch /\ g.size = f.size /\ g.cMax = f.cMax /\ g.pMax = f.pMax
      /\ g.pPkt = f.pPkt /\ g.outAlt = f.outAlt /\ g.inAlt = f.inAlt
      /\ g.outOn = f.outOn /\ g.inOn = f.inOn /\ g.halt = f.halt
      /\ g.cRate = f.cRate /\ g.pRate = f.pRate
      /\ g.mute = mut /\ g.volume = vol /\ g.setCon = non /\ g.csId = f.csId
  BY <1>1, <1>2, <1>3, <1>4 DEF FnStates
<1>7. FnOk(g)
  BY <1>5, <1>6 DEF FnOk, non
<1>8. QED
  BY <1>3, <1>6, <1>7 DEF g, vol, mut
(* A request that is left over changes no rate, volume or setting.          *)
MuteKept(s, t) == t.fn.mute = s.fn.mute \/ Pending(s)
Leftover(s, t) ==
  /\ t \in States /\ FnOk(t.fn) /\ SameDevice(s.fn, t.fn) /\ MuteKept(s, t)
  /\ t.csr = s.csr /\ t.fifo = s.fifo /\ t.faddr = s.faddr /\ t.ep0 = s.ep0
  /\ t.config = s.config
  /\ t.req \in ReqStates /\ t.req.listed = FALSE /\ t.req.len = s.req.len
  /\ t.req.actual = s.req.actual /\ t.req.complete = s.req.complete

LEMMA LeftoverFacts ==
  ASSUME NEW s \in States, FnOk(s.fn), s.req.complete = "setup" \/ s.req.actual = 0,
         s.req.listed = TRUE
  PROVE  Leftover(s, Giveback(s))
<1> DEFINE t == Completed(s)
<1>1. /\ t \in States /\ t.csr = s.csr /\ t.fifo = s.fifo /\ t.faddr = s.faddr
      /\ t.ep0 = s.ep0 /\ t.config = s.config /\ t.fn = s.fn
      /\ t.req \in ReqStates /\ t.req.listed = FALSE /\ t.req.len = s.req.len
      /\ t.req.actual = s.req.actual /\ t.req.complete = s.req.complete
      /\ t.req.buf = s.req.buf
  BY CompletedFacts
<1>2. Leftover(s, t)
  BY <1>1 DEF Leftover, SameDevice, MuteKept
<1>3. Giveback(s) = IF s.req.complete = "sam_freq" THEN SamFreqDone(t)
                    ELSE IF s.req.complete = "fu_control" THEN FuControlDone(t) ELSE t
  BY GivebackIs
<1> HIDE DEF t
<1>4. CASE s.req.complete = "sam_freq"
  <2>1. SamFreqDone(t) = t
    BY <1>1, <1>4 DEF SamFreqDone
  <2>2. QED
    BY <1>2, <1>3, <1>4, <2>1
<1>5. CASE s.req.complete = "fu_control"
  <2>1. CASE t.fn.csId = "volume" \/ t.req.status # "0" \/ t.fn.setCon = "none"
    <3>1. FuControlDone(t) = t
      BY <1>1, <1>5, <2>1 DEF FuControlDone
    <3>2. QED
      BY <1>2, <1>3, <1>5, <3>1
  <2>2. CASE ~(t.fn.csId = "volume" \/ t.req.status # "0" \/ t.fn.setCon = "none")
    <3> DEFINE v == t.req.buf % 256
               g == SetControl([t.fn EXCEPT !.setCon = "none"], "mute", v)
    <3>1. t.fn.csId = "mute" /\ t.fn.setCon = "mute"
      BY <1>1, <2>2 DEF FnOk, FnStates, FuControls
    <3>2. FuControlDone(t) = [t EXCEPT !.fn = g]
      BY <2>2, <3>1 DEF FuControlDone, ControlData
    <3>3. v \in Nat
      BY <1>1, StateFacts DEF ReqStates
    <3> HIDE DEF v
    <3>4. /\ FnOk(g) /\ g.outAlt = s.fn.outAlt /\ g.inAlt = s.fn.inAlt /\ g.halt = s.fn.halt
          /\ g.cRate = s.fn.cRate /\ g.pRate = s.fn.pRate /\ g.volume = s.fn.volume
      BY <1>1, <3>3, ControlFacts
    <3> HIDE DEF g
    <3>5. g \in FnStates
      BY <3>4 DEF FnOk
    <3> DEFINE u == [t EXCEPT !.fn = g]
    <3>6. /\ u \in States /\ u.fn = g /\ u.csr = t.csr /\ u.fifo = t.fifo /\ u.faddr = t.faddr
          /\ u.ep0 = t.ep0 /\ u.config = t.config /\ u.req = t.req
      BY <1>1, <3>5 DEF States
    <3> HIDE DEF u
    <3>9. Pending(s)
      BY <1>1, <1>5, <3>1 DEF Pending
    <3>7. Leftover(s, u)
      BY <1>1, <3>4, <3>6, <3>9 DEF Leftover, SameDevice, MuteKept
    <3>8. QED
      BY <1>3, <1>5, <3>2, <3>7 DEF u
  <2>3. QED
    BY <2>1, <2>2
<1>6. CASE s.req.complete \notin {"sam_freq", "fu_control"}
  BY <1>2, <1>3, <1>6
<1>7. QED
  BY <1>4, <1>5, <1>6
-----------------------------------------------------------------------------
(* Data stages.                                                             *)

LEMMA NoRequestFits == NoRequest \in Requests
BY DEF NoRequest, Requests, RequestNames, Selectors

InFifo(n, v) == [EmptyFifo EXCEPT !.kind = "in", !.n = n, !.val = v]
LEMMA InFifoFacts ==
  ASSUME NEW n \in 0 .. Ep0Fifo, NEW v \in Nat
  PROVE  InFifo(n, v) \in Fifos /\ InFifo(n, v).n = n /\ InFifo(n, v).val = v
BY NoRequestFits DEF InFifo, EmptyFifo, Fifos

LEMMA EmptyFifoFits == EmptyFifo \in Fifos
BY NoRequestFits DEF EmptyFifo, Fifos, Ep0Fifo

(* ep0_txstate: the next packet, and the end of the data stage with the     *)
(* last one.                                                                *)
Loaded(s, t) ==
  /\ t \in States /\ t.faddr = s.faddr /\ t.config = s.config /\ t.fn = s.fn
  /\ t.fifo.n = Least(Ep0Fifo, s.req.len - s.req.actual) /\ t.fifo.val = s.req.buf
  /\ t.ep0.ackpend = s.ep0.ackpend /\ t.ep0.setAddress = s.ep0.setAddress
  /\ t.ep0.address = s.ep0.address
  /\ ReqOk(t.req) /\ t.req.len = s.req.len /\ t.req.complete = "setup"
  /\ t.req.actual = s.req.actual + Least(Ep0Fifo, s.req.len - s.req.actual)
  /\ IF TxEnds(s)
     THEN /\ t.ep0.stage = "STATUSOUT" /\ t.req.listed = FALSE
          /\ t.csr = (s.csr \ {"SENTSTALL"}) \cup {"TXPKTRDY", "DATAEND"}
     ELSE /\ t.ep0.stage = s.ep0.stage /\ t.req.listed = TRUE
          /\ t.req.zero = s.req.zero /\ t.req.buf = s.req.buf
          /\ t.csr = (s.csr \ {"SENTSTALL"}) \cup {"TXPKTRDY"}

LEMMA TxStateFacts ==
  ASSUME NEW s \in States, ReqOk(s.req), s.req.listed = TRUE, s.req.complete = "setup"
  PROVE  Loaded(s, TxState(s))
<1> DEFINE n == Least(Ep0Fifo, s.req.len - s.req.actual)
           stage == IF TxEnds(s) THEN "STATUSOUT" ELSE s.ep0.stage
           f == InFifo(n, s.req.buf)
           a == s.req.actual + n
           q == [s.req EXCEPT !.actual = a]
           e == [s.ep0 EXCEPT !.stage = stage]
           u == [s EXCEPT !.fifo = f, !.req = q, !.ep0 = e]
           w == {"TXPKTRDY"} \cup (IF TxEnds(s) THEN {"DATAEND"} ELSE {})
           t == WriteCsr(u, w)
<1>1. s.req \in ReqStates /\ s.ep0 \in Ep0States /\ s.csr \subseteq CsrBits
  BY StateFacts
<1>2. /\ s.req.len \in Nat /\ s.req.actual \in Nat /\ s.req.buf \in Nat
      /\ s.req.actual <= s.req.len /\ s.req.len <= 4096
  BY <1>1 DEF ReqOk, ReqStates
<1>3. n \in 0 .. Ep0Fifo /\ n \in Nat /\ n <= s.req.len - s.req.actual
  BY <1>2 DEF Least, Ep0Fifo
<1> HIDE DEF n
<1>4. a \in Nat /\ a <= s.req.len /\ stage \in Stages
  BY <1>1, <1>2, <1>3 DEF Stages, Ep0States
<1>5. f \in Fifos /\ f.n = n /\ f.val = s.req.buf
  BY <1>2, <1>3, InFifoFacts
<1>6. TxState(s) = IF TxEnds(s) THEN Giveback(t) ELSE t
  BY <1>1 DEF TxState, n, InFifo, States, ReqStates, Ep0States
<1> HIDE DEF a, stage, f
<1>7. /\ q \in ReqStates /\ q.listed = TRUE /\ q.len = s.req.len /\ q.actual = a
      /\ q.complete = "setup" /\ q.buf = s.req.buf /\ q.zero = s.req.zero
  BY <1>1, <1>4 DEF ReqStates
<1>8. /\ e \in Ep0States /\ e.stage = stage /\ e.ackpend = s.ep0.ackpend
      /\ e.setAddress = s.ep0.setAddress /\ e.address = s.ep0.address
  BY <1>1, <1>4 DEF Ep0States
<1> HIDE DEF q, e
<1>9. /\ u \in States /\ u.csr = s.csr /\ u.faddr = s.faddr /\ u.config = s.config
      /\ u.fn = s.fn /\ u.fifo = f /\ u.req = q /\ u.ep0 = e
  BY <1>5, <1>7, <1>8 DEF States
<1> HIDE DEF u
<1>10. w \in SUBSET {"SVDRXPKTRDY", "SVDSETUPEND", "TXPKTRDY", "DATAEND", "SENDSTALL"}
  OBVIOUS
<1>11. w = IF TxEnds(s) THEN {"TXPKTRDY", "DATAEND"} ELSE {"TXPKTRDY"}
  OBVIOUS
<1> HIDE DEF w
<1>12. /\ t \in States /\ t.faddr = s.faddr /\ t.config = s.config /\ t.fn = s.fn
       /\ t.fifo = f /\ t.req = q /\ t.ep0 = e
  BY <1>9, <1>10, WriteFacts
<1>13. t.csr = (s.csr \ {"SENTSTALL"}) \cup w
  BY <1>9, <1>10, <1>11, WriteFacts
<1> HIDE DEF t
<1>14. ReqOk(q)
  BY <1>2, <1>4, <1>7 DEF ReqOk
<1>15. CASE TxEnds(s)
  <2> DEFINE g == Completed(t)
  <2>1. TxState(s) = g
    BY <1>6, <1>7, <1>12, <1>15, GivebackIs
  <2>2. /\ g \in States /\ g.csr = t.csr /\ g.fifo = f /\ g.faddr = s.faddr /\ g.ep0 = e
        /\ g.config = s.config /\ g.fn = s.fn /\ g.req \in ReqStates /\ g.req.listed = FALSE
        /\ g.req.len = q.len /\ g.req.actual = a /\ g.req.complete = "setup"
    BY <1>7, <1>12, CompletedFacts
  <2> HIDE DEF g
  <2>3. ReqOk(g.req)
    BY <1>14, <1>7, <2>2 DEF ReqOk
  <2>4. stage = "STATUSOUT" /\ t.csr = (s.csr \ {"SENTSTALL"}) \cup {"TXPKTRDY", "DATAEND"}
    BY <1>11, <1>13, <1>15 DEF stage
  <2>5. Loaded(s, g)
    BY <1>5, <1>7, <1>8, <1>15, <2>2, <2>3, <2>4 DEF Loaded, a, n
  <2>6. QED
    BY <2>1, <2>5
<1>16. CASE ~TxEnds(s)
  <2>1. TxState(s) = t
    BY <1>6, <1>16
  <2>2. stage = s.ep0.stage /\ t.csr = (s.csr \ {"SENTSTALL"}) \cup {"TXPKTRDY"}
    BY <1>11, <1>13, <1>16 DEF stage
  <2>3. Loaded(s, t)
    BY <1>5, <1>7, <1>8, <1>12, <1>14, <1>16, <2>2 DEF Loaded, a, n
  <2>4. QED
    BY <2>1, <2>3
<1>17. QED
  BY <1>15, <1>16
(* musb_g_ep0_queue lists the request ...                                   *)
Queued(s) ==
  [s EXCEPT !.req.actual = 0, !.req.status = "-EINPROGRESS", !.req.listed = TRUE]

LEMMA QueuedFacts ==
  ASSUME NEW s \in States
  PROVE  /\ Queued(s) \in States /\ Queued(s).csr = s.csr /\ Queued(s).fifo = s.fifo
         /\ Queued(s).faddr = s.faddr /\ Queued(s).ep0 = s.ep0
         /\ Queued(s).config = s.config /\ Queued(s).fn = s.fn
         /\ Queued(s).req \in ReqStates /\ Queued(s).req.listed = TRUE
         /\ Queued(s).req.len = s.req.len /\ Queued(s).req.actual = 0
         /\ Queued(s).req.zero = s.req.zero /\ Queued(s).req.buf = s.req.buf
         /\ Queued(s).req.status = "-EINPROGRESS"
         /\ Queued(s).req.complete = s.req.complete
<1> DEFINE yes == TRUE
           none == 0
           st == "-EINPROGRESS"
           q == [s.req EXCEPT !.actual = none, !.status = st, !.listed = yes]
<1>1. s.req \in ReqStates
  BY StateFacts
<1>2. yes \in BOOLEAN /\ none \in Nat /\ st \in {"0", "-EINPROGRESS", "-EOVERFLOW"}
  OBVIOUS
<1>3. Queued(s) = [s EXCEPT !.req = q]
  BY <1>1 DEF Queued, States, ReqStates
<1> HIDE DEF yes, none, st
<1>4. /\ q \in ReqStates /\ q.listed = yes /\ q.len = s.req.len /\ q.actual = none
      /\ q.zero = s.req.zero /\ q.complete = s.req.complete /\ q.buf = s.req.buf
      /\ q.status = st
  BY <1>1, <1>2 DEF ReqStates
<1> HIDE DEF q
<1>5. /\ Queued(s) \in States /\ Queued(s).req = q
      /\ Queued(s).csr = s.csr /\ Queued(s).fifo = s.fifo
      /\ Queued(s).faddr = s.faddr /\ Queued(s).ep0 = s.ep0
      /\ Queued(s).config = s.config /\ Queued(s).fn = s.fn
  BY <1>3, <1>4 DEF States
<1>6. QED
  BY <1>4, <1>5 DEF yes, none, st

LEMMA QueueIs ==
  ASSUME NEW s \in States, s.req.listed = FALSE
  PROVE  /\ s.ep0.stage = "TX" => Ep0Queue(s) = [s |-> TxState(Queued(s)), ok |-> TRUE]
         /\ s.ep0.stage = "RX" =>
              Ep0Queue(s) = [s |-> [WriteCsr(Queued(s), s.ep0.ackpend) EXCEPT !.ep0.ackpend = {}],
                             ok |-> TRUE]
         /\ s.ep0.stage = "ACKWAIT" /\ s.req.len = 0 =>
              Ep0Queue(s) = [s |-> Giveback([WriteCsr(Queued(s), s.ep0.ackpend \cup {"DATAEND"})
                                              EXCEPT !.ep0.ackpend = {}, !.ep0.stage = "STATUSIN"]),
                             ok |-> TRUE]
<1> DEFINE t == [s EXCEPT !.req.actual = 0, !.req.status = "-EINPROGRESS"]
           l == [t EXCEPT !.req.listed = TRUE]
<1>1. l = Queued(s) /\ l.ep0 = s.ep0
  BY StateFacts DEF Queued, States, ReqStates
<1>2. CASE s.ep0.stage = "TX"
  <2>1. Ep0Queue(s) = [s |-> TxState(l), ok |-> TRUE]
    BY <1>2 DEF Ep0Queue
  <2> HIDE DEF l
  <2>2. QED
    BY <1>1, <1>2, <2>1
<1>3. CASE s.ep0.stage = "RX"
  <2>1. Ep0Queue(s) = [s |-> [WriteCsr(l, l.ep0.ackpend) EXCEPT !.ep0.ackpend = {}], ok |-> TRUE]
    BY <1>3 DEF Ep0Queue
  <2> HIDE DEF l
  <2>2. QED
    BY <1>1, <1>3, <2>1
<1>4. CASE s.ep0.stage = "ACKWAIT" /\ s.req.len = 0
  <2>1. Ep0Queue(s) = [s |-> Giveback([WriteCsr(l, l.ep0.ackpend \cup {"DATAEND"})
                                        EXCEPT !.ep0.ackpend = {}, !.ep0.stage = "STATUSIN"]),
                       ok |-> TRUE]
    BY <1>4 DEF Ep0Queue
  <2> HIDE DEF l
  <2>2. QED
    BY <1>1, <1>4, <2>1
<1>5. QED
  BY <1>2, <1>3, <1>4
(* The callers set up the request.                                          *)
WithReq(s, n, z, b, c) ==
  [s EXCEPT !.req.len = n, !.req.zero = z, !.req.buf = b, !.req.complete = c]

LEMMA WithReqFacts ==
  ASSUME NEW s \in States, NEW n \in Nat, NEW z \in BOOLEAN, NEW b \in Nat,
         NEW c \in {"setup", "sam_freq", "fu_control"}
  PROVE  LET t == WithReq(s, n, z, b, c)
         IN  /\ t \in States /\ t.csr = s.csr /\ t.fifo = s.fifo /\ t.faddr = s.faddr
             /\ t.ep0 = s.ep0 /\ t.config = s.config /\ t.fn = s.fn
             /\ t.req \in ReqStates /\ t.req.listed = s.req.listed /\ t.req.len = n
             /\ t.req.zero = z /\ t.req.buf = b /\ t.req.complete = c
             /\ t.req.actual = s.req.actual /\ t.req.status = s.req.status
<1> DEFINE q == [s.req EXCEPT !.len = n, !.zero = z, !.buf = b, !.complete = c]
<1>1. s.req \in ReqStates
  BY StateFacts
<1>2. WithReq(s, n, z, b, c) = [s EXCEPT !.req = q]
  BY <1>1 DEF WithReq, States, ReqStates
<1>3. /\ q \in ReqStates /\ q.listed = s.req.listed /\ q.len = n /\ q.zero = z
      /\ q.complete = c /\ q.buf = b /\ q.actual = s.req.actual /\ q.status = s.req.status
  BY <1>1 DEF ReqStates
<1> HIDE DEF q
<1>4. /\ WithReq(s, n, z, b, c) \in States /\ WithReq(s, n, z, b, c).req = q
      /\ WithReq(s, n, z, b, c).csr = s.csr /\ WithReq(s, n, z, b, c).fifo = s.fifo
      /\ WithReq(s, n, z, b, c).faddr = s.faddr /\ WithReq(s, n, z, b, c).ep0 = s.ep0
      /\ WithReq(s, n, z, b, c).config = s.config /\ WithReq(s, n, z, b, c).fn = s.fn
  BY <1>2, <1>3 DEF States
<1>5. QED
  BY <1>3, <1>4 DEF q

(* The answer of n bytes that start with b is on its way: the first of its  *)
(* packets, or the only one.                                                *)
Sends(s, r, n, b, t) ==
  /\ t \in States /\ t.faddr = s.faddr /\ t.config = s.config /\ t.fn = s.fn
  /\ t.ep0.ackpend = {} /\ t.ep0.setAddress = s.ep0.setAddress
  /\ ReqOk(t.req) /\ t.fifo.val = b
  /\ \/ /\ t.ep0.stage = "TX" /\ t.req.listed = TRUE /\ t.req.complete = "setup"
        /\ t.csr = {"TXPKTRDY"} /\ t.fifo.n = Ep0Fifo /\ t.req.buf = b
        /\ t.req.len = Least(n, r.len) /\ t.req.actual = Ep0Fifo
        /\ t.req.zero = (t.req.len < r.len)
        /\ t.req.actual = t.req.len => t.req.zero
     \/ /\ t.ep0.stage = "STATUSOUT" /\ t.req.listed = FALSE
        /\ t.csr = {"TXPKTRDY", "DATAEND"} /\ t.fifo.n = Least(n, r.len)
        /\ t.fifo.n < Ep0Fifo \/ t.fifo.n = r.len

(* The state in which composite_setup answers.                              *)
Answers(s) ==
  /\ s.req.listed = FALSE /\ s.ep0.stage = "TX" /\ s.ep0.ackpend = {}
  /\ s.req.complete = "setup" /\ s.csr = {}

(* The request is "setup" already: composite_setup writes it again.         *)
Filled(s, n, z, b) == [s EXCEPT !.req.len = n, !.req.zero = z, !.req.buf = b]
LEMMA AnswerIs ==
  ASSUME NEW s \in States, s.req.complete = "setup",
         NEW n \in Nat, NEW z \in BOOLEAN, NEW b \in Nat
  PROVE  Filled(s, n, z, b) = WithReq(s, n, z, b, "setup")
<1> DEFINE q == [s.req EXCEPT !.len = n, !.zero = z, !.buf = b]
           p == [s.req EXCEPT !.len = n, !.zero = z, !.buf = b, !.complete = "setup"]
<1>1. s.req \in ReqStates
  BY StateFacts
<1>2. q = p
  <2>1. q \in ReqStates /\ p \in ReqStates
    BY <1>1 DEF ReqStates
  <2>2. /\ q.listed = p.listed /\ q.len = p.len /\ q.actual = p.actual /\ q.zero = p.zero
        /\ q.buf = p.buf /\ q.status = p.status /\ q.complete = p.complete
    BY <1>1 DEF ReqStates
  <2> HIDE DEF q, p
  <2>3. QED
    BY <2>1, <2>2 DEF ReqStates
<1>3. Filled(s, n, z, b) = [s EXCEPT !.req = q]
  BY <1>1 DEF Filled, States, ReqStates
<1>4. WithReq(s, n, z, b, "setup") = [s EXCEPT !.req = p]
  BY <1>1 DEF WithReq, States, ReqStates
<1> HIDE DEF q, p
<1>5. QED
  BY <1>2, <1>3, <1>4

(* A length that fits the buffer.                                           *)
Short(n) == n \in Nat /\ n <= 4096

LEMMA AnswerQueued ==
  ASSUME NEW s \in States, Answers(s), NEW n, Short(n), NEW z \in BOOLEAN, NEW b \in Nat
  PROVE  LET l == Queued(WithReq(s, n, z, b, "setup"))
         IN  /\ Ep0Queue(WithReq(s, n, z, b, "setup")) = [s |-> TxState(l), ok |-> TRUE]
             /\ Loaded(l, TxState(l))
             /\ l.csr = {} /\ l.ep0 = s.ep0 /\ l.faddr = s.faddr /\ l.config = s.config
             /\ l.fn = s.fn /\ l.req.len = n /\ l.req.actual = 0 /\ l.req.zero = z
             /\ l.req.buf = b
<1> DEFINE a == WithReq(s, n, z, b, "setup")
           l == Queued(a)
<1>1. n \in Nat
  BY DEF Short
<1>2. /\ s.req.listed = FALSE /\ s.ep0.stage = "TX" /\ s.csr = {}
  BY DEF Answers
<1>3. /\ a \in States /\ a.csr = s.csr /\ a.ep0 = s.ep0 /\ a.faddr = s.faddr
      /\ a.config = s.config /\ a.fn = s.fn /\ a.req.zero = z /\ a.req.buf = b
      /\ a.req.listed = s.req.listed /\ a.req.len = n /\ a.req.complete = "setup"
  BY <1>1, WithReqFacts, SMTT(60)
<1> HIDE DEF a
<1>4. Ep0Queue(a) = [s |-> TxState(l), ok |-> TRUE]
  BY <1>2, <1>3, QueueIs
<1>5. /\ l \in States /\ l.csr = {} /\ l.ep0 = s.ep0 /\ l.faddr = s.faddr
      /\ l.config = s.config /\ l.fn = s.fn /\ l.req \in ReqStates /\ l.req.listed = TRUE
      /\ l.req.len = n /\ l.req.actual = 0 /\ l.req.zero = z /\ l.req.buf = b
      /\ l.req.complete = "setup"
  BY <1>2, <1>3, QueuedFacts
<1> HIDE DEF l
<1>6. ReqOk(l.req)
  BY <1>5 DEF ReqOk, Short
<1>7. Loaded(l, TxState(l))
  BY <1>5, <1>6, TxStateFacts
<1>8. QED
  BY <1>4, <1>5, <1>7 DEF l, a

LEMMA ShortLeast ==
  ASSUME NEW n, Short(n), NEW m \in Nat
  PROVE  Short(Least(n, m)) /\ Least(n, m) <= m
BY DEF Short, Least

LEMMA RespondFacts ==
  ASSUME NEW s \in States, Answers(s), NEW r \in Requests, NEW n, Short(n), NEW b \in Nat
  PROVE  Respond(s, r, n, b).ok = TRUE /\ Sends(s, r, n, b, Respond(s, r, n, b).s)
<1> DEFINE len == Least(n, r.len)
           zero == len < r.len
           l == Queued(WithReq(s, len, zero, b, "setup"))
           t == TxState(l)
<1>1. r.len \in Nat
  BY DEF Requests
<1>2. Short(len) /\ len <= r.len
  BY <1>1, ShortLeast
<1>3. zero \in BOOLEAN
  OBVIOUS
<1>4. Respond(s, r, n, b) = Ep0Queue(Filled(s, len, zero, b))
  BY DEF Respond, Filled
<1> HIDE DEF len
<1>5. len \in Nat /\ len <= 4096
  BY <1>2 DEF Short
<1>6. zero <=> len < r.len
  OBVIOUS
<1> HIDE DEF zero
<1>7. Filled(s, len, zero, b) = WithReq(s, len, zero, b, "setup")
  BY <1>3, <1>5, AnswerIs DEF Answers
<1>8. /\ Ep0Queue(WithReq(s, len, zero, b, "setup")) = [s |-> t, ok |-> TRUE]
      /\ Loaded(l, t)
      /\ l.csr = {} /\ l.ep0 = s.ep0 /\ l.faddr = s.faddr /\ l.config = s.config
      /\ l.fn = s.fn /\ l.req.len = len /\ l.req.actual = 0 /\ l.req.zero = zero
      /\ l.req.buf = b
  BY <1>2, <1>3, AnswerQueued
<1> HIDE DEF t, l
<1>9. Respond(s, r, n, b) = [s |-> t, ok |-> TRUE]
  BY <1>4, <1>7, <1>8
<1>10. Respond(s, r, n, b).ok = TRUE /\ Respond(s, r, n, b).s = t
  BY <1>9
<1>11. TxEnds(l) <=> len < Ep0Fifo \/ (len = Ep0Fifo /\ ~zero)
  BY <1>5, <1>8 DEF TxEnds, Ep0Fifo
<1>12. CASE TxEnds(l)
  <2>1. Least(Ep0Fifo, len - 0) = len /\ (len < Ep0Fifo \/ len = r.len)
    BY <1>1, <1>2, <1>5, <1>6, <1>11, <1>12 DEF Least, Ep0Fifo
  <2>2. t.fifo.n = len /\ t.csr = {"TXPKTRDY", "DATAEND"}
    BY <1>8, <1>12, <2>1 DEF Loaded
  <2>3. Sends(s, r, n, b, t)
    BY <1>8, <1>12, <2>1, <2>2 DEF Loaded, Sends, Answers, len
  <2>4. QED
    BY <1>10, <2>3
<1>13. CASE ~TxEnds(l)
  <2>1. Least(Ep0Fifo, len - 0) = Ep0Fifo /\ (len = Ep0Fifo => zero)
    BY <1>5, <1>11, <1>13 DEF Least, Ep0Fifo
  <2>2. /\ t.fifo.n = Ep0Fifo /\ t.csr = {"TXPKTRDY"} /\ t.req.actual = Ep0Fifo
        /\ t.req.len = len /\ t.req.zero = zero
    BY <1>8, <1>13, <2>1 DEF Loaded, Ep0Fifo
  <2>3. t.req.zero = (t.req.len < r.len)
    BY <2>2 DEF zero
  <2>4. t.req.actual = t.req.len => t.req.zero
    BY <2>1, <2>2
  <2>5. Sends(s, r, n, b, t)
    BY <1>8, <1>13, <2>2, <2>3, <2>4 DEF Loaded, Sends, Answers, len
  <2>6. QED
    BY <1>10, <2>5
<1>14. QED
  BY <1>12, <1>13
-----------------------------------------------------------------------------
(* Ends of the SETUP stage.                                                 *)

Writes == {"SVDRXPKTRDY", "SVDSETUPEND", "TXPKTRDY", "DATAEND", "SENDSTALL"}

(* The handler writes CSR0 with what is pending and moves on.               *)
Written(s, w, stage) == [WriteCsr(s, w) EXCEPT !.ep0.stage = stage, !.ep0.ackpend = {}]
Moved(s, w, stage, t) ==
  /\ t \in States /\ t.fifo = s.fifo /\ t.faddr = s.faddr /\ t.req = s.req
  /\ t.config = s.config /\ t.fn = s.fn
  /\ t.csr = (s.csr \ ({"SENTSTALL"} \cup (IF "SVDRXPKTRDY" \in w THEN {"RXPKTRDY"} ELSE {})
                         \cup (IF "SVDSETUPEND" \in w THEN {"SETUPEND"} ELSE {})))
              \cup (w \cap {"TXPKTRDY", "DATAEND", "SENDSTALL"})
  /\ t.ep0.stage = stage /\ t.ep0.ackpend = {} /\ t.ep0.setAddress = s.ep0.setAddress
  /\ t.ep0.address = s.ep0.address

LEMMA WrittenFacts ==
  ASSUME NEW s \in States, NEW w \in SUBSET Writes, NEW stage \in Stages
  PROVE  Moved(s, w, stage, Written(s, w, stage))
<1> DEFINE u == WriteCsr(s, w)
           none == {}
           e == [s.ep0 EXCEPT !.stage = stage, !.ackpend = none]
           t == Written(s, w, stage)
<1>1. /\ u \in States /\ u.fifo = s.fifo /\ u.faddr = s.faddr /\ u.ep0 = s.ep0
      /\ u.req = s.req /\ u.config = s.config /\ u.fn = s.fn
  BY WriteFacts DEF Writes
<1>2. u.csr = (s.csr \ ({"SENTSTALL"} \cup (IF "SVDRXPKTRDY" \in w THEN {"RXPKTRDY"} ELSE {})
                         \cup (IF "SVDSETUPEND" \in w THEN {"SETUPEND"} ELSE {})))
              \cup (w \cap {"TXPKTRDY", "DATAEND", "SENDSTALL"})
  BY WriteFacts DEF Writes
<1>3. s.ep0 \in Ep0States
  BY StateFacts
<1> HIDE DEF u
<1>4. t = [u EXCEPT !.ep0 = e]
  BY <1>1, <1>3 DEF Written, States, Ep0States, u
<1>5. none \in SUBSET Acks
  OBVIOUS
<1> HIDE DEF t, none
<1>6. /\ e \in Ep0States /\ e.stage = stage /\ e.ackpend = none
      /\ e.setAddress = s.ep0.setAddress /\ e.address = s.ep0.address
  BY <1>3, <1>5 DEF Ep0States
<1> HIDE DEF e
<1>7. /\ t \in States /\ t.fifo = u.fifo /\ t.faddr = u.faddr /\ t.req = u.req
      /\ t.config = u.config /\ t.fn = u.fn /\ t.csr = u.csr /\ t.ep0 = e
  BY <1>1, <1>4, <1>6 DEF States
<1>8. Moved(s, w, stage, t)
  BY <1>1, <1>2, <1>6, <1>7 DEF Moved, none
<1>9. QED
  BY <1>8 DEF t

LEMMA StallIs ==
  ASSUME NEW s PROVE Stall(s) = Written(s, s.ep0.ackpend \cup {"SENDSTALL"}, "IDLE")
BY DEF Stall, Written

LEMMA FinishIs ==
  ASSUME NEW s \in States PROVE Finish(s) = Written(s, s.ep0.ackpend, s.ep0.stage)
<1> DEFINE u == WriteCsr(s, s.ep0.ackpend)
<1>1. s.ep0 \in Ep0States
  BY StateFacts
<1>2. u \in States /\ u.ep0 = s.ep0
  <2>1. s.ep0.ackpend \in SUBSET {"SVDRXPKTRDY", "SVDSETUPEND", "TXPKTRDY", "DATAEND", "SENDSTALL"}
    BY <1>1 DEF Ep0States, Acks
  <2>2. QED
    BY <2>1, WriteFacts
<1>3. Finish(s) = [u EXCEPT !.ep0.ackpend = {}]
  BY DEF Finish
<1>4. Written(s, s.ep0.ackpend, s.ep0.stage) = [u EXCEPT !.ep0.stage = s.ep0.stage, !.ep0.ackpend = {}]
  BY DEF Written
<1> HIDE DEF u
<1> DEFINE none == {}
           e == [s.ep0 EXCEPT !.ackpend = none]
           g == [s.ep0 EXCEPT !.stage = s.ep0.stage, !.ackpend = none]
<1>5. e = g
  <2>1. none \in SUBSET Acks
    OBVIOUS
  <2> HIDE DEF none
  <2>2. e \in Ep0States /\ g \in Ep0States
    BY <1>1, <2>1 DEF Ep0States
  <2>3. /\ e.stage = g.stage /\ e.ackpend = g.ackpend /\ e.setAddress = g.setAddress
        /\ e.address = g.address
    BY <1>1 DEF Ep0States
  <2> HIDE DEF e, g
  <2>4. QED
    BY <2>2, <2>3 DEF Ep0States
<1>6. Finish(s) = [u EXCEPT !.ep0 = e]
  BY <1>1, <1>2, <1>3 DEF States, Ep0States
<1>7. Written(s, s.ep0.ackpend, s.ep0.stage) = [u EXCEPT !.ep0 = g]
  BY <1>1, <1>2, <1>4 DEF States, Ep0States
<1> HIDE DEF e, g
<1>8. QED
  BY <1>5, <1>6, <1>7
(* A request without data is acknowledged, and given back at once.          *)
Acked(s, w) == [WriteCsr(s, w) EXCEPT !.ep0.ackpend = {}, !.ep0.stage = "STATUSIN"]

LEMMA AckedIs ==
  ASSUME NEW s \in States, NEW w \in SUBSET Writes
  PROVE  Acked(s, w) = Written(s, w, "STATUSIN")
<1> DEFINE u == WriteCsr(s, w)
           none == {}
           st == "STATUSIN"
           e == [s.ep0 EXCEPT !.ackpend = none, !.stage = st]
           g == [s.ep0 EXCEPT !.stage = st, !.ackpend = none]
<1>1. s.ep0 \in Ep0States
  BY StateFacts
<1>2. u \in States /\ u.ep0 = s.ep0
  BY WriteFacts DEF Writes
<1> HIDE DEF u
<1>3. e = g
  <2>1. none \in SUBSET Acks /\ st \in Stages
    BY DEF Stages
  <2> HIDE DEF none, st
  <2>2. e \in Ep0States /\ g \in Ep0States
    BY <1>1, <2>1 DEF Ep0States
  <2>3. /\ e.stage = g.stage /\ e.ackpend = g.ackpend /\ e.setAddress = g.setAddress
        /\ e.address = g.address
    BY <1>1 DEF Ep0States
  <2> HIDE DEF e, g
  <2>4. QED
    BY <2>2, <2>3 DEF Ep0States
<1>4. Acked(s, w) = [u EXCEPT !.ep0 = e]
  BY <1>1, <1>2 DEF States, Ep0States, Acked, u
<1>5. Written(s, w, "STATUSIN") = [u EXCEPT !.ep0 = g]
  BY <1>1, <1>2 DEF States, Ep0States, Written, u
<1> HIDE DEF e, g
<1>6. QED
  BY <1>3, <1>4, <1>5

LEMMA QueueRxIs ==
  ASSUME NEW s \in States, s.req.listed = FALSE, s.ep0.stage = "RX"
  PROVE  Ep0Queue(s) = [s |-> Finish(Queued(s)), ok |-> TRUE]
<1>1. Queued(s).ep0 = s.ep0
  BY QueuedFacts
<1>2. Ep0Queue(s) = [s |-> [WriteCsr(Queued(s), s.ep0.ackpend) EXCEPT !.ep0.ackpend = {}],
                     ok |-> TRUE]
  BY QueueIs
<1>3. QED
  BY <1>1, <1>2 DEF Finish

LEMMA QueueAckIs ==
  ASSUME NEW s \in States, s.req.listed = FALSE, s.ep0.stage = "ACKWAIT", s.req.len = 0
  PROVE  Ep0Queue(s) = [s |-> Giveback(Acked(Queued(s), s.ep0.ackpend \cup {"DATAEND"})),
                        ok |-> TRUE]
BY QueueIs DEF Acked

(* Acknowledge: the status stage is allowed, and nothing else changes.      *)
Acknowledged(s, t) ==
  /\ t \in States /\ t.csr = {"DATAEND"} /\ t.faddr = s.faddr /\ t.config = s.config
  /\ t.fn = s.fn /\ ReqOk(t.req) /\ t.req.listed = FALSE
  /\ t.ep0.stage = "STATUSIN" /\ t.ep0.ackpend = {}
  /\ t.ep0.setAddress = s.ep0.setAddress /\ t.ep0.address = s.ep0.address

Waits(s) ==
  /\ s.req.listed = FALSE /\ s.req.complete = "setup" /\ s.ep0.stage = "ACKWAIT"
  /\ s.ep0.ackpend = {"SVDRXPKTRDY", "DATAEND"} /\ s.csr = {"RXPKTRDY"}

Emptied(s) == [s EXCEPT !.req.len = 0, !.req.zero = FALSE]
LEMMA EmptiedFacts ==
  ASSUME NEW s \in States
  PROVE  /\ Emptied(s) \in States /\ Emptied(s).csr = s.csr /\ Emptied(s).fifo = s.fifo
         /\ Emptied(s).faddr = s.faddr /\ Emptied(s).ep0 = s.ep0
         /\ Emptied(s).config = s.config /\ Emptied(s).fn = s.fn
         /\ Emptied(s).req.listed = s.req.listed /\ Emptied(s).req.len = 0
         /\ Emptied(s).req.complete = s.req.complete
<1> DEFINE none == 0
           no == FALSE
           q == [s.req EXCEPT !.len = none, !.zero = no]
<1>1. s.req \in ReqStates
  BY StateFacts
<1>2. no \in BOOLEAN /\ none \in Nat
  OBVIOUS
<1>3. Emptied(s) = [s EXCEPT !.req = q]
  BY <1>1 DEF Emptied, States, ReqStates
<1> HIDE DEF no, none
<1>4. /\ q \in ReqStates /\ q.listed = s.req.listed /\ q.len = none
      /\ q.complete = s.req.complete
  BY <1>1, <1>2 DEF ReqStates
<1> HIDE DEF q
<1>5. /\ Emptied(s) \in States /\ Emptied(s).req = q
      /\ Emptied(s).csr = s.csr /\ Emptied(s).fifo = s.fifo
      /\ Emptied(s).faddr = s.faddr /\ Emptied(s).ep0 = s.ep0
      /\ Emptied(s).config = s.config /\ Emptied(s).fn = s.fn
  BY <1>3, <1>4 DEF States
<1>6. QED
  BY <1>4, <1>5 DEF none

LEMMA AcknowledgeFacts ==
  ASSUME NEW s \in States, Waits(s), FnOk(s.fn)
  PROVE  Acknowledge(s).ok = TRUE /\ Acknowledged(s, Acknowledge(s).s)
<1> DEFINE e == Emptied(s)
           l == Queued(e)
           w == e.ep0.ackpend \cup {"DATAEND"}
           a == Acked(l, w)
           t == Completed(a)
<1>1. Acknowledge(s) = Ep0Queue(e)
  BY DEF Acknowledge, Emptied
<1>2. /\ e \in States /\ e.csr = s.csr /\ e.faddr = s.faddr /\ e.ep0 = s.ep0
      /\ e.config = s.config /\ e.fn = s.fn /\ e.req.listed = s.req.listed /\ e.req.len = 0
      /\ e.req.complete = s.req.complete
  BY EmptiedFacts
<1> HIDE DEF e
<1>3. Ep0Queue(e) = [s |-> Giveback(a), ok |-> TRUE]
  BY <1>2, QueueAckIs DEF Waits
<1>4. /\ l \in States /\ l.csr = e.csr /\ l.faddr = e.faddr /\ l.ep0 = e.ep0
      /\ l.config = e.config /\ l.fn = e.fn /\ l.req.len = e.req.len /\ l.req.actual = 0
      /\ l.req.complete = e.req.complete
  BY <1>2, QueuedFacts
<1> HIDE DEF l
<1>5. w = {"SVDRXPKTRDY", "DATAEND"}
  BY <1>2 DEF Waits
<1>6. w \in SUBSET Writes
  BY <1>5 DEF Writes
<1> HIDE DEF w
<1>7. "STATUSIN" \in Stages
  BY DEF Stages
<1>8. Moved(l, w, "STATUSIN", a)
  BY <1>4, <1>6, <1>7, WrittenFacts, AckedIs
<1> HIDE DEF a
<1>9. a \in States /\ a.req.complete = "setup"
  BY <1>2, <1>4, <1>8 DEF Moved, Waits
<1>10. a.csr = {"DATAEND"}
  BY <1>2, <1>4, <1>5, <1>8 DEF Moved, Waits
<1>11. Giveback(a) = t
  BY <1>9, GivebackIs
<1>12. /\ t \in States /\ t.csr = a.csr /\ t.faddr = a.faddr /\ t.ep0 = a.ep0
       /\ t.config = a.config /\ t.fn = a.fn /\ t.req \in ReqStates /\ t.req.listed = FALSE
       /\ t.req.len = a.req.len /\ t.req.actual = a.req.actual
  BY <1>9, CompletedFacts
<1> HIDE DEF t
<1>13. t.req.len = 0 /\ t.req.actual = 0
  BY <1>2, <1>4, <1>8, <1>12 DEF Moved
<1>14. ReqOk(t.req)
  BY <1>12, <1>13 DEF ReqOk
<1>15. Acknowledged(s, t)
  BY <1>2, <1>4, <1>8, <1>10, <1>12, <1>14 DEF Moved, Acknowledged
<1>16. QED
  BY <1>1, <1>3, <1>11, <1>15
-----------------------------------------------------------------------------
(* The SETUP stage.                                                         *)

(* The SETUP packet of r is in the FIFO and nothing else is pending.        *)
Fresh(s) ==
  /\ s \in States /\ FnOk(s.fn) /\ ReqOk(s.req) /\ s.csr = {"RXPKTRDY"}

(* musb_read_setup.                                                         *)
HasRead(s, r, t) ==
  /\ t \in States /\ FnOk(t.fn) /\ SameDevice(s.fn, t.fn) /\ MuteKept(s, t)
  /\ t.faddr = s.faddr /\ t.config = s.config /\ ReqOk(t.req) /\ t.req.listed = FALSE
  /\ t.ep0.setAddress = FALSE
  /\ IF r.len = 0
     THEN /\ t.ep0.stage = "ACKWAIT" /\ t.ep0.ackpend = {"SVDRXPKTRDY"}
          /\ t.csr = {"RXPKTRDY"}
     ELSE IF r.in THEN t.ep0.stage = "TX" /\ t.ep0.ackpend = {} /\ t.csr = {}
     ELSE /\ t.ep0.stage = "RX" /\ t.ep0.ackpend = {"SVDRXPKTRDY"}
          /\ t.csr = {"RXPKTRDY"}

Staged(s, stage) == [s EXCEPT !.ep0.stage = stage]
LEMMA StagedFacts ==
  ASSUME NEW s \in States, NEW stage \in Stages
  PROVE  LET t == Staged(s, stage)
         IN  /\ t \in States /\ t.csr = s.csr /\ t.fifo = s.fifo /\ t.faddr = s.faddr
             /\ t.req = s.req /\ t.config = s.config /\ t.fn = s.fn
             /\ t.ep0.stage = stage /\ t.ep0.ackpend = s.ep0.ackpend
             /\ t.ep0.setAddress = s.ep0.setAddress /\ t.ep0.address = s.ep0.address
<1> DEFINE e == [s.ep0 EXCEPT !.stage = stage]
           t == Staged(s, stage)
<1>1. s.ep0 \in Ep0States
  BY StateFacts
<1>2. t = [s EXCEPT !.ep0 = e]
  BY <1>1 DEF Staged, States, Ep0States
<1> HIDE DEF t
<1>3. /\ e \in Ep0States /\ e.stage = stage /\ e.ackpend = s.ep0.ackpend
      /\ e.setAddress = s.ep0.setAddress /\ e.address = s.ep0.address
  BY <1>1 DEF Ep0States
<1> HIDE DEF e
<1>4. /\ t \in States /\ t.csr = s.csr /\ t.fifo = s.fifo /\ t.faddr = s.faddr
      /\ t.req = s.req /\ t.config = s.config /\ t.fn = s.fn /\ t.ep0 = e
  BY <1>2, <1>3 DEF States
<1>5. QED
  BY <1>3, <1>4 DEF t

Taking(g) == [g EXCEPT !.fifo = EmptyFifo, !.ep0.setAddress = FALSE,
                       !.ep0.ackpend = {"SVDRXPKTRDY"}]
LEMMA TakingFacts ==
  ASSUME NEW g \in States
  PROVE  LET t == Taking(g)
         IN  /\ t \in States /\ t.csr = g.csr /\ t.faddr = g.faddr /\ t.req = g.req
             /\ t.config = g.config /\ t.fn = g.fn
             /\ t.ep0.ackpend = {"SVDRXPKTRDY"} /\ t.ep0.setAddress = FALSE
<1> DEFINE no == FALSE
           f == EmptyFifo
           acks == {"SVDRXPKTRDY"}
           e == [g.ep0 EXCEPT !.setAddress = no, !.ackpend = acks]
           t == Taking(g)
<1>1. g.ep0 \in Ep0States
  BY StateFacts
<1>2. no \in BOOLEAN /\ f \in Fifos /\ acks \in SUBSET Acks
  BY EmptyFifoFits DEF Acks
<1>3. t = [g EXCEPT !.fifo = f, !.ep0 = e]
  BY <1>1 DEF Taking, States, Ep0States
<1> HIDE DEF no, f, t, acks
<1>4. /\ e \in Ep0States /\ e.ackpend = acks /\ e.setAddress = no
  BY <1>1, <1>2 DEF Ep0States
<1> HIDE DEF e
<1>5. /\ t \in States /\ t.csr = g.csr /\ t.faddr = g.faddr /\ t.req = g.req
      /\ t.config = g.config /\ t.fn = g.fn /\ t.ep0 = e
  BY <1>2, <1>3, <1>4 DEF States
<1>6. QED
  BY <1>4, <1>5 DEF t, no, acks

(* The left-over request is given back.                                     *)
Rid(s) == IF s.req.listed THEN Giveback(s) ELSE s
LEMMA RidFacts ==
  ASSUME NEW s \in States, FnOk(s.fn), ReqOk(s.req)
  PROVE  /\ Rid(s) \in States /\ FnOk(Rid(s).fn) /\ SameDevice(s.fn, Rid(s).fn)
         /\ MuteKept(s, Rid(s))
         /\ Rid(s).csr = s.csr /\ Rid(s).fifo = s.fifo /\ Rid(s).faddr = s.faddr
         /\ Rid(s).ep0 = s.ep0 /\ Rid(s).config = s.config /\ ReqOk(Rid(s).req)
         /\ Rid(s).req.listed = FALSE
<1>1. s.req.listed \in BOOLEAN
  BY StateFacts DEF ReqStates
<1>2. CASE s.req.listed = TRUE
  <2>1. Rid(s) = Giveback(s)
    BY <1>2 DEF Rid
  <2>5. s.req.complete = "setup" \/ s.req.actual = 0
    BY <1>2 DEF ReqOk
  <2>2. Leftover(s, Rid(s))
    BY <1>2, <2>1, <2>5, LeftoverFacts
  <2>3. ReqOk(Rid(s).req)
    BY <2>2 DEF Leftover, ReqOk
  <2>4. QED
    BY <2>2, <2>3 DEF Leftover
<1>3. CASE s.req.listed = FALSE
  <2>1. Rid(s) = s
    BY <1>3 DEF Rid
  <2>2. SameDevice(s.fn, s.fn) /\ MuteKept(s, s)
    BY DEF SameDevice, MuteKept
  <2>3. QED
    BY <1>3, <2>1, <2>2
<1>4. QED
  BY <1>1, <1>2, <1>3

LEMMA ReadSetupFacts ==
  ASSUME NEW s, Fresh(s), NEW r \in Requests
  PROVE  HasRead(s, r, ReadSetup(s, r))
<1> DEFINE g == Rid(s)
           t == Taking(g)
           u == ReadSetup(s, r)
<1>1. s \in States /\ s.csr = {"RXPKTRDY"}
  BY DEF Fresh
<1>2. /\ g \in States /\ FnOk(g.fn) /\ SameDevice(s.fn, g.fn) /\ MuteKept(s, g)
      /\ g.csr = s.csr /\ g.faddr = s.faddr
      /\ g.config = s.config /\ ReqOk(g.req) /\ g.req.listed = FALSE
  BY RidFacts DEF Fresh
<1>3. u = CASE r.len = 0 -> Staged(t, "ACKWAIT")
            [] r.len # 0 /\ r.in -> Written(t, {"SVDRXPKTRDY"}, "TX")
            [] r.len # 0 /\ ~r.in -> Staged(t, "RX")
  BY DEF ReadSetup, Rid, Taking, Staged, Written
<1> HIDE DEF g, u
<1>4. /\ t \in States /\ t.csr = g.csr /\ t.faddr = g.faddr /\ t.req = g.req
      /\ t.config = g.config /\ t.fn = g.fn
      /\ t.ep0.ackpend = {"SVDRXPKTRDY"} /\ t.ep0.setAddress = FALSE
  BY <1>2, TakingFacts
<1> HIDE DEF t
<1>5. r.len \in Nat /\ r.in \in BOOLEAN
  BY DEF Requests
<1>6. "ACKWAIT" \in Stages /\ "RX" \in Stages /\ "TX" \in Stages
  BY DEF Stages
<1>7. CASE r.len = 0
  <2>1. u = Staged(t, "ACKWAIT")
    BY <1>3, <1>7
  <2>2. /\ u \in States /\ u.csr = t.csr /\ u.faddr = t.faddr /\ u.req = t.req
        /\ u.config = t.config /\ u.fn = t.fn /\ u.ep0.stage = "ACKWAIT"
        /\ u.ep0.ackpend = t.ep0.ackpend /\ u.ep0.setAddress = t.ep0.setAddress
    BY <1>4, <1>6, <2>1, StagedFacts
  <2>3. HasRead(s, r, u)
    BY <1>1, <1>2, <1>4, <1>7, <2>2 DEF HasRead, MuteKept
  <2>4. QED
    BY <2>3 DEF u
<1>8. CASE r.len # 0 /\ r.in
  <2>1. u = Written(t, {"SVDRXPKTRDY"}, "TX")
    BY <1>3, <1>8
  <2>2. Moved(t, {"SVDRXPKTRDY"}, "TX", u)
    BY <1>4, <1>6, <2>1, WrittenFacts DEF Writes
  <2>3. u.csr = {}
    BY <1>1, <1>2, <1>4, <2>2 DEF Moved
  <2>4. HasRead(s, r, u)
    BY <1>1, <1>2, <1>4, <1>8, <2>2, <2>3 DEF HasRead, Moved, MuteKept
  <2>5. QED
    BY <2>4 DEF u
<1>9. CASE r.len # 0 /\ ~r.in
  <2>1. u = Staged(t, "RX")
    BY <1>3, <1>9
  <2>2. /\ u \in States /\ u.csr = t.csr /\ u.faddr = t.faddr /\ u.req = t.req
        /\ u.config = t.config /\ u.fn = t.fn /\ u.ep0.stage = "RX"
        /\ u.ep0.ackpend = t.ep0.ackpend /\ u.ep0.setAddress = t.ep0.setAddress
    BY <1>4, <1>6, <2>1, StagedFacts
  <2>3. HasRead(s, r, u)
    BY <1>1, <1>2, <1>4, <1>9, <2>2 DEF HasRead, MuteKept
  <2>4. QED
    BY <2>3 DEF u
<1>10. QED
  BY <1>7, <1>8, <1>9
-----------------------------------------------------------------------------
(* What a SETUP packet comes to.                                            *)

(* What the handler may do to the rates and the volume.                     *)
Allowed(f) ==
  /\ f.volume # fn.volume => Sent("volume", f.volume)
  /\ f.cRate # fn.cRate =>
       \/ Sent("sam_freq", f.cRate) /\ host.r.intf = OutClk
       \/ host.r.name \in {"SET_INTERFACE", "SET_CONFIGURATION"} /\ f.cRate < fn.cRate
  /\ f.pRate # fn.pRate => Sent("sam_freq", f.pRate) /\ host.r.intf = InClk

LEMMA AllowedSame ==
  ASSUME NEW f, Allowed(f), NEW g, g.cRate = f.cRate, g.pRate = f.pRate, g.volume = f.volume
  PROVE  Allowed(g)
BY DEF Allowed

(* Selecting a setting lowers a rate if anything.                           *)
LEMMA AllowedLower ==
  ASSUME NEW f, FnOk(f), Allowed(f), fn \in FnStates, NEW g, FnOk(g), SettingOnly(f, g),
         host.r.name \in {"SET_INTERFACE", "SET_CONFIGURATION"}
  PROVE  Allowed(g)
<1>1. f.cRate \in Nat /\ g.cRate \in Nat /\ fn.cRate \in Nat
  BY DEF FnOk, FnStates
<1>2. g.pRate = f.pRate /\ g.volume = f.volume /\ g.cRate <= f.cRate
  BY DEF SettingOnly
<1>3. ~Sent("sam_freq", f.cRate)
  BY DEF Sent
<1>4. f.cRate # fn.cRate => f.cRate < fn.cRate
  BY <1>3 DEF Allowed
<1>5. g.cRate # fn.cRate => g.cRate < fn.cRate
  BY <1>1, <1>2, <1>4
<1>6. QED
  BY <1>2, <1>5 DEF Allowed

(* The host has sent a SETUP packet.                                        *)
Started ==
  /\ fn \in FnStates
  /\ host \in Transfers /\ belief \in Beliefs /\ host.n = 0 /\ host.vals = {}
  /\ host.stage = (IF host.r.len = 0 THEN "status" ELSE "data")
  /\ Proper(host.r) /\ MayAsk(host.r)

(* The handler has read the SETUP packet.                                   *)
Serving(s) ==
  /\ s \in States /\ FnOk(s.fn) /\ ReqOk(s.req) /\ s.req.listed = FALSE
  /\ s.ep0.setAddress = FALSE
  /\ IF host.r.len = 0
     THEN /\ s.ep0.stage = "ACKWAIT" /\ s.ep0.ackpend = {"SVDRXPKTRDY", "DATAEND"}
          /\ s.csr = {"RXPKTRDY"}
     ELSE IF host.r.in THEN s.ep0.stage = "TX" /\ s.ep0.ackpend = {} /\ s.csr = {}
     ELSE /\ s.ep0.stage = "RX" /\ s.ep0.ackpend = {"SVDRXPKTRDY"}
          /\ s.csr = {"RXPKTRDY"}
  /\ s.faddr = belief.addr /\ Allowed(s.fn)

Outcome(t) == Rest(t) /\ Answered(t, FALSE) /\ t.faddr = belief.addr /\ Allowed(t.fn)

LEMMA HostFacts ==
  ASSUME Started
  PROVE  /\ host.r \in Requests /\ host.r.len \in Nat /\ host.r.in \in BOOLEAN
         /\ host.r.name \in RequestNames /\ host.r.intf \in Nat /\ host.r.val \in Nat
         /\ host.r.sel \in Selectors
         /\ host.r.in = TRUE => host.r.len # 0
<1>1. host.r \in Requests
  BY DEF Started, Transfers
<1>2. /\ host.r.len \in Nat /\ host.r.in \in BOOLEAN
      /\ host.r.name \in RequestNames /\ host.r.intf \in Nat /\ host.r.val \in Nat
      /\ host.r.sel \in Selectors
  BY <1>1 DEF Requests
<1>3. ASSUME host.r.in = TRUE PROVE host.r.len # 0
  <2>1. NoDataRequest(host.r) => ~host.r.in
    BY DEF NoDataRequest
  <2>2. SetRequest(host.r) => ~host.r.in
    BY DEF SetRequest
  <2>3. GetRequest(host.r)
    BY <1>3, <2>1, <2>2 DEF Started, Proper
  <2>4. QED
    BY <1>2, <2>3 DEF GetRequest
<1>4. QED
  BY <1>1, <1>2, <1>3

LEMMA StallOutcome ==
  ASSUME Started, NEW s, Serving(s), Match(s.fn, s.config, AfterStall(belief, host.r))
  PROVE  Outcome(Stall(s))
<1> DEFINE w == s.ep0.ackpend \cup {"SENDSTALL"}
           t == Stall(s)
<1>1. s \in States /\ s.ep0.ackpend \in {{}, {"SVDRXPKTRDY"}, {"SVDRXPKTRDY", "DATAEND"}}
  BY DEF Serving
<1>2. w \in SUBSET Writes
  BY <1>1 DEF Writes
<1>3. "IDLE" \in Stages
  BY DEF Stages
<1>4. Moved(s, w, "IDLE", t)
  BY <1>1, <1>2, <1>3, WrittenFacts, StallIs
<1>5. t.csr \subseteq {"SENDSTALL", "DATAEND"} /\ "SENDSTALL" \in t.csr
  BY <1>4 DEF Serving, Moved
<1> HIDE DEF t, w
<1>6. /\ t \in States /\ t.ep0.ackpend = {} /\ t.ep0.stage = "IDLE" /\ t.req = s.req
      /\ t.fn = s.fn /\ t.config = s.config /\ t.faddr = s.faddr
  BY <1>4 DEF Moved
<1>7. Rest(t)
  BY <1>5, <1>6 DEF Rest, Serving
<1>8. host.r.in => host.stage = "data"
  BY HostFacts DEF Started
<1>9. Stalled(t, FALSE)
  BY <1>5, <1>6, <1>8 DEF Stalled, Serving
<1>10. QED
  BY <1>6, <1>7, <1>9 DEF Outcome, Answered, Serving, t

LEMMA DoneOutcome ==
  ASSUME Started, NEW s, Serving(s), NEW t, Acknowledged(s, t), FnOk(s.fn), host.r.len = 0,
         host.r.in = FALSE, Match(s.fn, s.config, AfterOk(belief, host.r)),
         AfterOk(belief, host.r).addr = belief.addr
  PROVE  Outcome(t)
<1>1. Rest(t)
  BY DEF Rest, Acknowledged
<1>2. Addressed(t, AfterOk(belief, host.r).addr)
  BY DEF Addressed, Acknowledged, Serving
<1>3. Done(t, FALSE)
  BY <1>2 DEF Done, Started, Acknowledged
<1>4. QED
  BY <1>1, <1>3 DEF Outcome, Answered, Acknowledged, Serving

LEMMA SendsOutcome ==
  ASSUME Started, NEW s, Serving(s), Match(s.fn, s.config, belief), host.r.in = TRUE,
         NEW n \in Nat, Least(n, host.r.len) = ToRead, NEW b, Known(Answer(host.r), b),
         NEW t, Sends(s, host.r, n, b, t)
  PROVE  Outcome(t)
<1>1. host.r.len # 0 /\ host.stage = "data" /\ host.n = 0
  BY HostFacts DEF Started
<1>2. ReadSoFar
  BY DEF ReadSoFar, Started
<1>3. /\ t \in States /\ t.faddr = s.faddr /\ t.config = s.config /\ t.fn = s.fn
      /\ t.ep0.ackpend = {} /\ t.ep0.setAddress = FALSE
      /\ ReqOk(t.req) /\ t.fifo.val = b
  BY DEF Sends, Serving
<1>4. CASE /\ t.ep0.stage = "TX" /\ t.req.listed = TRUE /\ t.req.complete = "setup"
           /\ t.csr = {"TXPKTRDY"} /\ t.fifo.n = Ep0Fifo /\ t.req.buf = b
           /\ t.req.len = Least(n, host.r.len) /\ t.req.actual = Ep0Fifo
           /\ t.req.zero = (t.req.len < host.r.len)
           /\ t.req.actual = t.req.len => t.req.zero
  <2>1. Rest(t)
    BY <1>3, <1>4 DEF Rest, Serving
  <2>2. host.n + Ep0Fifo = t.req.actual
    BY <1>1, <1>4 DEF Ep0Fifo
  <2>3. Sending(t, FALSE)
    BY <1>1, <1>2, <1>3, <1>4, <2>2 DEF Sending
  <2>4. QED
    BY <1>3, <2>1, <2>3 DEF Outcome, Answered, Serving
<1>5. CASE /\ t.ep0.stage = "STATUSOUT" /\ t.req.listed = FALSE
           /\ t.csr = {"TXPKTRDY", "DATAEND"} /\ t.fifo.n = Least(n, host.r.len)
           /\ t.fifo.n < Ep0Fifo \/ t.fifo.n = host.r.len
  <2>1. Rest(t)
    BY <1>3, <1>5 DEF Rest, Serving
  <2>2. host.n + t.fifo.n = ToRead
    <3>1. t.fifo.n \in Nat
      BY <1>5, HostFacts DEF Least
    <3>2. QED
      BY <1>1, <1>5, <3>1
  <2>3. LastSent(t, FALSE)
    BY <1>1, <1>2, <1>3, <1>5, <2>2 DEF LastSent
  <2>4. QED
    BY <1>3, <2>1, <2>3 DEF Outcome, Answered, Serving
<1>6. QED
  BY <1>4, <1>5 DEF Sends
(* composite_setup's value decides.                                         *)
End(a) == IF a.ok THEN a.s ELSE Stall(a.s)

LEMMA RespondOutcome ==
  ASSUME Started, NEW s, Serving(s), s.req.complete = "setup", Match(s.fn, s.config, belief),
         host.r.in = TRUE, NEW n, Short(n), Least(n, host.r.len) = ToRead,
         NEW b \in Nat, Known(Answer(host.r), b)
  PROVE  Outcome(End(Respond(s, host.r, n, b)))
<1> DEFINE a == Respond(s, host.r, n, b)
<1>1. s \in States /\ Answers(s)
  BY HostFacts DEF Serving, Answers
<1>2. a.ok = TRUE /\ Sends(s, host.r, n, b, a.s)
  BY <1>1, HostFacts, RespondFacts
<1> HIDE DEF a
<1>3. End(a) = a.s
  BY <1>2 DEF End
<1>4. n \in Nat
  BY DEF Short
<1>5. Outcome(a.s)
  BY <1>2, <1>4, SendsOutcome
<1>6. QED
  BY <1>3, <1>5 DEF a

LEMMA RefuseOutcome ==
  ASSUME Started, NEW s, Serving(s), Match(s.fn, s.config, AfterStall(belief, host.r))
  PROVE  Outcome(End(Refuse(s)))
<1>1. End(Refuse(s)) = Stall(s)
  BY DEF End, Refuse
<1>2. QED
  BY <1>1, StallOutcome

LEMMA AcknowledgeOutcome ==
  ASSUME Started, NEW s, Serving(s), s.req.complete = "setup", host.r.len = 0,
         host.r.in = FALSE, Match(s.fn, s.config, AfterOk(belief, host.r)),
         AfterOk(belief, host.r).addr = belief.addr
  PROVE  Outcome(End(Acknowledge(s)))
<1> DEFINE a == Acknowledge(s)
<1>1. s \in States /\ Waits(s) /\ FnOk(s.fn)
  BY DEF Serving, Waits
<1>2. a.ok = TRUE /\ Acknowledged(s, a.s)
  BY <1>1, AcknowledgeFacts
<1> HIDE DEF a
<1>3. End(a) = a.s
  BY <1>2 DEF End
<1>4. Outcome(a.s)
  BY <1>1, <1>2, DoneOutcome
<1>5. QED
  BY <1>3, <1>4 DEF a

LEMMA AfterStallSame ==
  ASSUME NEW f, NEW c, NEW b \in Beliefs, NEW r, Match(f, c, b)
  PROVE  Match(f, c, AfterStall(b, r))
<1>1. CASE r.name = "SET_CONFIGURATION"
  <2> DEFINE d == [b EXCEPT !.cfg = Unknown]
  <2>1. /\ d.cfg = Unknown /\ d.cRate = b.cRate /\ d.pRate = b.pRate
        /\ d.volume = b.volume /\ d.mute = b.mute
    BY DEF Beliefs
  <2> HIDE DEF d
  <2>2. Match(f, c, d)
    BY <2>1 DEF Match, Known, Unknown
  <2>3. AfterStall(b, r) = d
    BY <1>1 DEF AfterStall, d
  <2>4. QED
    BY <2>2, <2>3
<1>2. CASE r.name # "SET_CONFIGURATION"
  BY <1>2 DEF AfterStall
<1>3. QED
  BY <1>1, <1>2

(* What is being answered when the request is refused as it stands.         *)
LEMMA Refused ==
  ASSUME Started, NEW s, Serving(s), Match(s.fn, s.config, belief)
  PROVE  Outcome(End(Refuse(s))) /\ Outcome(Stall(s))
<1>1. Match(s.fn, s.config, AfterStall(belief, host.r))
  BY AfterStallSame DEF Started
<1>2. QED
  BY <1>1, RefuseOutcome, StallOutcome

(* composite_setup starts with the defaults of the request.                 *)
Defaults(s) == [s EXCEPT !.req.zero = FALSE, !.req.complete = "setup", !.req.len = 4096]

SetUp(s, z, c, n) == [s EXCEPT !.req.zero = z, !.req.complete = c, !.req.len = n]
LEMMA SetUpFacts ==
  ASSUME NEW s \in States, NEW z \in BOOLEAN, NEW c \in {"setup", "sam_freq", "fu_control"},
         NEW n \in Nat
  PROVE  LET t == SetUp(s, z, c, n)
         IN  /\ t \in States /\ t.csr = s.csr /\ t.fifo = s.fifo /\ t.faddr = s.faddr
             /\ t.ep0 = s.ep0 /\ t.config = s.config /\ t.fn = s.fn
             /\ t.req \in ReqStates /\ t.req.listed = s.req.listed /\ t.req.len = n
             /\ t.req.complete = c /\ t.req.actual = s.req.actual
<1> DEFINE q == [s.req EXCEPT !.zero = z, !.complete = c, !.len = n]
<1>1. s.req \in ReqStates
  BY StateFacts
<1>2. SetUp(s, z, c, n) = [s EXCEPT !.req = q]
  BY <1>1 DEF SetUp, States, ReqStates
<1>3. /\ q \in ReqStates /\ q.listed = s.req.listed /\ q.len = n
      /\ q.complete = c /\ q.actual = s.req.actual
  BY <1>1 DEF ReqStates
<1> HIDE DEF q
<1>4. /\ SetUp(s, z, c, n) \in States /\ SetUp(s, z, c, n).req = q
      /\ SetUp(s, z, c, n).csr = s.csr /\ SetUp(s, z, c, n).fifo = s.fifo
      /\ SetUp(s, z, c, n).faddr = s.faddr /\ SetUp(s, z, c, n).ep0 = s.ep0
      /\ SetUp(s, z, c, n).config = s.config /\ SetUp(s, z, c, n).fn = s.fn
  BY <1>2, <1>3 DEF States
<1>5. QED
  BY <1>3, <1>4

LEMMA DefaultsFacts ==
  ASSUME NEW s, Serving(s)
  PROVE  LET t == Defaults(s)
         IN  /\ Serving(t) /\ t.req.complete = "setup" /\ t.fn = s.fn /\ t.config = s.config
             /\ t.ep0 = s.ep0
<1> DEFINE t == Defaults(s)
<1>1. s \in States /\ s.req \in ReqStates /\ s.req.listed = FALSE
  BY StateFacts DEF Serving
<1>2. /\ t \in States /\ t.csr = s.csr /\ t.faddr = s.faddr /\ t.ep0 = s.ep0
      /\ t.config = s.config /\ t.fn = s.fn /\ t.req \in ReqStates
      /\ t.req.listed = s.req.listed /\ t.req.len = 4096 /\ t.req.complete = "setup"
      /\ t.req.actual = s.req.actual
  <2> DEFINE no == FALSE
             st == "setup"
             big == 4096
  <2>1. t = SetUp(s, no, st, big)
    BY DEF Defaults, SetUp
  <2>2. no \in BOOLEAN /\ st \in {"setup", "sam_freq", "fu_control"} /\ big \in Nat
    OBVIOUS
  <2> HIDE DEF t, no, st, big
  <2>3. /\ t \in States /\ t.csr = s.csr /\ t.faddr = s.faddr /\ t.ep0 = s.ep0
        /\ t.config = s.config /\ t.fn = s.fn /\ t.req \in ReqStates
        /\ t.req.listed = s.req.listed /\ t.req.len = big /\ t.req.complete = st
        /\ t.req.actual = s.req.actual
    BY <1>1, <2>1, <2>2, SetUpFacts
  <2>4. QED
    BY <2>3 DEF st, big
<1> HIDE DEF t
<1>3. s.req.actual \in Nat /\ s.req.actual <= 4096
  <2>1. s.req.actual \in Nat /\ s.req.len \in Nat
    BY <1>1 DEF ReqStates
  <2>2. QED
    BY <2>1 DEF Serving, ReqOk
<1>4. ReqOk(t.req)
  BY <1>1, <1>2, <1>3 DEF ReqOk
<1>5. Serving(t)
  BY <1>1, <1>2, <1>4 DEF Serving
<1>6. QED
  BY <1>2, <1>5 DEF t
(* Which request has which direction.                                       *)
NoDataNames == {"SET_ADDRESS", "SET_CONFIGURATION", "SET_INTERFACE", "SET_HALT", "CLEAR_HALT"}
GetNames == {"GET_DESCRIPTOR", "GET_CONFIGURATION", "GET_CUR", "GET_INTERFACE", "GET_STATUS",
             "GET_RANGE"}

LEMMA Directions ==
  ASSUME NEW r, Proper(r), r.in \in BOOLEAN
  PROVE  /\ r.name \in NoDataNames => NoDataRequest(r) /\ r.in = FALSE /\ r.len = 0
         /\ r.name = "SET_CUR" => SetRequest(r) /\ r.in = FALSE /\ r.len # 0
         /\ r.name \in GetNames => GetRequest(r) /\ r.in = TRUE
         /\ r.name \in NoDataNames \cup GetNames \cup {"SET_CUR"}
<1>1. NoDataRequest(r) => r.name \in NoDataNames /\ r.in = FALSE /\ r.len = 0
  BY DEF NoDataRequest, NoDataNames
<1>2. SetRequest(r) => r.name = "SET_CUR" /\ r.in = FALSE /\ r.len # 0
  BY DEF SetRequest
<1>3. GetRequest(r) => r.name \in GetNames /\ r.in = TRUE
  BY DEF GetRequest, GetNames
<1>4. NoDataNames \cap GetNames = {} /\ "SET_CUR" \notin NoDataNames \cup GetNames
  BY DEF NoDataNames, GetNames
<1>5. QED
  BY <1>1, <1>2, <1>3, <1>4 DEF Proper

Composite(s, r) ==
  CASE r.name = "GET_DESCRIPTOR" ->
         IF r.sel \in DOMAIN Descriptors
         THEN Respond(s, r, Descriptors[r.sel].len, Descriptors[r.sel].b)
         ELSE Refuse(s)
    [] r.name = "SET_CONFIGURATION" -> SetConfig(s, r.val)
    [] r.name = "GET_CONFIGURATION" -> Respond(s, r, 1, s.config)
    [] r.name = "SET_INTERFACE" ->
         IF s.config = 0 THEN Refuse(s)
         ELSE LET a == SetAlt(s.fn, r.intf, r.val)
                  t == [s EXCEPT !.fn = a.f]
              IN IF a.ok THEN Acknowledge(t) ELSE Refuse(t)
    [] r.name = "GET_INTERFACE" ->
         IF s.config = 0 THEN Refuse(s) ELSE Respond(s, r, 1, GetAlt(s.fn, r.intf))
    [] r.name \in {"GET_CUR", "GET_RANGE"} -> ClassIn(s, r)
    [] r.name = "SET_CUR" -> ClassOut(s, r)
    [] OTHER -> Refuse(s)

LEMMA ForwardIs ==
  ASSUME NEW s, NEW r
  PROVE  Forward(s, r) = End(Composite(Defaults(s), r))
<1>1. Forward(s, r) = End(CompositeSetup(s, r))
  BY DEF Forward, End
<1>2. CompositeSetup(s, r) = Composite(Defaults(s), r)
  BY DEF CompositeSetup, Composite, Defaults
<1>3. QED
  BY <1>1, <1>2

LEMMA DescriptorFacts ==
  ASSUME NEW d \in DOMAIN Descriptors
  PROVE  Short(Descriptors[d].len) /\ Descriptors[d].b \in Nat
<1>1. d \in {"device", "config", "string"}
  BY DEF Descriptors
<1>2. CASE d = "device"
  BY <1>2 DEF Descriptors, Short
<1>3. CASE d = "config"
  <2> DEFINE n == ConfigLength
  <2>1. n \in 1 .. 4096
    BY TablesAssumption
  <2>2. Descriptors[d].len = n /\ Descriptors[d].b = 9
    BY <1>3 DEF Descriptors
  <2> HIDE DEF n
  <2>3. Short(n)
    BY <2>1 DEF Short
  <2>4. QED
    BY <2>2, <2>3
<1>4. CASE d = "string"
  BY <1>4 DEF Descriptors, Short
<1>5. QED
  BY <1>1, <1>2, <1>3, <1>4

(* The state the framework answers from.                                    *)
Prepared(d) ==
  /\ Started /\ Serving(d) /\ d.req.complete = "setup" /\ Match(d.fn, d.config, belief)

LEMMA DescriptorOutcome ==
  ASSUME NEW d, Prepared(d), host.r.name = "GET_DESCRIPTOR"
  PROVE  Outcome(End(Composite(d, host.r)))
<1>1. host.r.in = TRUE
  BY HostFacts, Directions DEF Prepared, Started, GetNames
<1>2. CASE host.r.sel \in DOMAIN Descriptors
  <2> DEFINE n == Descriptors[host.r.sel].len
             b == Descriptors[host.r.sel].b
  <2>1. Short(n) /\ b \in Nat
    BY <1>2, DescriptorFacts
  <2>2. Composite(d, host.r) = Respond(d, host.r, n, b)
    BY <1>2 DEF Composite
  <2>3. ToRead = Least(n, host.r.len)
    BY DEF ToRead, AnswerLength
  <2>4. Answer(host.r) = b
    BY DEF Answer
  <2> HIDE DEF n, b
  <2>5. Known(Answer(host.r), b)
    BY <2>4 DEF Known
  <2>6. QED
    BY <1>1, <2>1, <2>2, <2>3, <2>5, RespondOutcome DEF Prepared
<1>3. CASE host.r.sel \notin DOMAIN Descriptors
  <2>1. Composite(d, host.r) = Refuse(d)
    BY <1>3 DEF Composite
  <2>2. QED
    BY <2>1, Refused DEF Prepared
<1>4. QED
  BY <1>2, <1>3
LEMMA PreparedFacts ==
  ASSUME NEW d, Prepared(d)
  PROVE  /\ d \in States /\ d.config \in {0, 1} /\ FnOk(d.fn)
         /\ d.fn.cRate \in Nat /\ d.fn.pRate \in Nat /\ d.fn.mute \in Nat /\ d.fn.volume \in Nat
         /\ d.fn.outAlt \in Nat /\ d.fn.inAlt \in Nat
         /\ Known(belief.cfg, d.config) /\ Known(belief.cRate, d.fn.cRate)
         /\ Known(belief.pRate, d.fn.pRate) /\ Known(belief.volume, d.fn.volume)
         /\ Known(belief.mute, d.fn.mute)
<1>1. d \in States /\ FnOk(d.fn)
  BY DEF Prepared, Serving
<1>2. d.config \in {0, 1}
  BY <1>1, StateFacts
<1>3. /\ d.fn.cRate \in Nat /\ d.fn.pRate \in Nat /\ d.fn.mute \in Nat
      /\ d.fn.volume \in Nat /\ d.fn.outAlt \in Nat /\ d.fn.inAlt \in Nat
  BY <1>1 DEF FnOk, FnStates
<1>4. /\ Known(belief.cfg, d.config) /\ Known(belief.cRate, d.fn.cRate)
      /\ Known(belief.pRate, d.fn.pRate) /\ Known(belief.volume, d.fn.volume)
      /\ Known(belief.mute, d.fn.mute)
  BY DEF Prepared, Match
<1>5. QED
  BY <1>1, <1>2, <1>3, <1>4

(* An answer of n bytes that start with b is the one the host is to read.   *)
LEMMA AnswerOutcome ==
  ASSUME NEW d, Prepared(d), host.r.name \in GetNames, NEW n, Short(n), NEW b \in Nat,
         AnswerLength(host.r) = n, Known(Answer(host.r), b)
  PROVE  Outcome(End(Respond(d, host.r, n, b)))
<1>1. host.r.in = TRUE
  BY HostFacts, Directions DEF Prepared, Started
<1>2. ToRead = Least(n, host.r.len)
  BY DEF ToRead
<1>3. QED
  BY <1>1, <1>2, RespondOutcome DEF Prepared

LEMMA ConfigurationReadOutcome ==
  ASSUME NEW d, Prepared(d), host.r.name = "GET_CONFIGURATION"
  PROVE  Outcome(End(Composite(d, host.r)))
<1>1. d.config \in Nat /\ Known(belief.cfg, d.config)
  BY PreparedFacts
<1>2. Short(1)
  BY DEF Short
<1>3. Composite(d, host.r) = Respond(d, host.r, 1, d.config)
  BY DEF Composite
<1>4. AnswerLength(host.r) = 1 /\ Answer(host.r) = belief.cfg
  BY DEF AnswerLength, Answer
<1>5. host.r.name \in GetNames
  BY DEF GetNames
<1>6. QED
  BY <1>1, <1>2, <1>3, <1>4, <1>5, AnswerOutcome

LEMMA InterfaceReadOutcome ==
  ASSUME NEW d, Prepared(d), host.r.name = "GET_INTERFACE"
  PROVE  Outcome(End(Composite(d, host.r)))
<1> DEFINE b == GetAlt(d.fn, host.r.intf)
<1>1. belief.cfg = 1
  BY DEF Prepared, Started, MayAsk
<1>2. host.r.intf \in {OutIntf, InIntf}
  <2>1. host.r.name \in GetNames
    BY DEF GetNames
  <2>2. GetRequest(host.r)
    BY <2>1, HostFacts, Directions DEF Prepared, Started
  <2>3. QED
    BY <2>2 DEF GetRequest
<1>3. d.config # 0
  BY <1>1, PreparedFacts DEF Known, Unknown
<1>4. belief.alt[OutIntf] = d.fn.outAlt /\ belief.alt[InIntf] = d.fn.inAlt
  BY <1>1 DEF Prepared, Match
<1>5. b \in Nat /\ b = belief.alt[host.r.intf]
  BY <1>2, <1>4, PreparedFacts DEF GetAlt, AcIntf, OutIntf, InIntf
<1>6. Composite(d, host.r) = Respond(d, host.r, 1, b)
  BY <1>3 DEF Composite
<1> HIDE DEF b
<1>7. AnswerLength(host.r) = 1 /\ Answer(host.r) = b
  BY <1>5 DEF AnswerLength, Answer
<1>8. Known(Answer(host.r), b)
  BY <1>7 DEF Known
<1>9. Short(1) /\ host.r.name \in GetNames
  BY DEF Short, GetNames
<1>10. QED
  BY <1>5, <1>6, <1>7, <1>8, <1>9, AnswerOutcome

LEMMA CurrentReadOutcome ==
  ASSUME NEW d, Prepared(d), host.r.name = "GET_CUR"
  PROVE  Outcome(End(Composite(d, host.r)))
<1> DEFINE r == host.r
<1>1. Composite(d, r) = ClassIn(d, r)
  BY DEF Composite
<1>2. Short(1) /\ Short(2) /\ Short(4) /\ r.name \in GetNames
  BY DEF Short, GetNames
<1>3. CASE r.sel = "sam_freq"
  <2> DEFINE b == IF r.intf = InClk THEN d.fn.pRate ELSE d.fn.cRate
  <2>1. ClassIn(d, r) = Respond(d, r, 4, b)
    BY <1>3 DEF ClassIn
  <2>2. AnswerLength(r) = 4
    BY <1>3 DEF AnswerLength
  <2>3. Answer(r) = IF r.intf = InClk THEN belief.pRate ELSE belief.cRate
    BY <1>3 DEF Answer
  <2>4. b \in Nat /\ Known(Answer(r), b)
    BY <2>3, PreparedFacts DEF Known
  <2> HIDE DEF b
  <2>5. QED
    BY <1>1, <1>2, <2>1, <2>2, <2>4, AnswerOutcome
<1>4. CASE r.sel = "clock_valid" \/ r.sel = "mute"
  <2> DEFINE b == IF r.sel = "mute" THEN d.fn.mute ELSE 1
  <2>1. ClassIn(d, r) = Respond(d, r, 1, b)
    BY <1>4 DEF ClassIn
  <2>2. AnswerLength(r) = 1
    BY <1>4 DEF AnswerLength
  <2>6. Answer(r) = IF r.sel = "mute" THEN belief.mute ELSE Unknown
    BY <1>4 DEF Answer
  <2>3. Known(Answer(r), b)
    BY <2>6, PreparedFacts DEF Known
  <2>4. b \in Nat
    BY PreparedFacts
  <2> HIDE DEF b
  <2>5. QED
    BY <1>1, <1>2, <2>1, <2>2, <2>3, <2>4, AnswerOutcome
<1>5. CASE r.sel = "volume"
  <2> DEFINE b == d.fn.volume
  <2>1. ClassIn(d, r) = Respond(d, r, 2, b)
    BY <1>5 DEF ClassIn
  <2>2. AnswerLength(r) = 2 /\ Answer(r) = belief.volume
    BY <1>5 DEF AnswerLength, Answer
  <2>3. b \in Nat /\ Known(Answer(r), b)
    BY <2>2, PreparedFacts
  <2> HIDE DEF b
  <2>4. QED
    BY <1>1, <1>2, <2>1, <2>2, <2>3, AnswerOutcome
<1>6. CASE r.sel \notin {"sam_freq", "clock_valid", "mute", "volume"}
  <2>1. ClassIn(d, r) = Refuse(d)
    BY <1>6 DEF ClassIn
  <2>2. QED
    BY <1>1, <2>1, Refused DEF Prepared
<1>7. QED
  BY <1>3, <1>4, <1>5, <1>6
LEMMA RangeSizes ==
  /\ RangesSize(Len(CRates), 12) = 734 /\ RangesSize(Len(PRates), 12) = 978
  /\ RangesSize(1, 6) = 64 /\ Len(CRates) = 6 /\ Len(PRates) = 8
<1>1. Len(CRates) = 6 /\ Len(PRates) = 8
  BY DEF CRates, PRates
<1>2. QED
  BY <1>1 DEF RangesSize, MaxItems

LEMMA RangeReadOutcome ==
  ASSUME NEW d, Prepared(d), host.r.name = "GET_RANGE"
  PROVE  Outcome(End(Composite(d, host.r)))
<1> DEFINE r == host.r
<1>1. Composite(d, r) = ClassIn(d, r)
  BY DEF Composite
<1>2. r.name \in GetNames /\ Proper(r) /\ r.in \in BOOLEAN
  BY HostFacts DEF GetNames, Prepared, Started
<1>3. GetRequest(r) /\ r.in = TRUE
  BY <1>2, Directions
<1>4. r.len \in Nat
  BY HostFacts DEF Prepared
<1>5. r.len <= RangeBytes(r.sel)
  BY <1>3 DEF GetRequest
<1>6. ToRead = r.len
  <2>1. AnswerLength(r) = r.len
    BY DEF AnswerLength
  <2>2. QED
    BY <1>4, <2>1 DEF ToRead, Least
<1>7. Answer(r) = Unknown
  BY DEF Answer
<1>8. ASSUME NEW n \in Nat, n <= 4096, r.len <= n, NEW b \in Nat,
             ClassIn(d, r) = Respond(d, r, n, b)
      PROVE  Outcome(End(Composite(d, r)))
  <2>1. Short(n)
    BY <1>8 DEF Short
  <2>2. Least(n, r.len) = ToRead
    BY <1>4, <1>6, <1>8 DEF Least
  <2>3. Known(Answer(r), b)
    BY <1>7 DEF Known
  <2>4. /\ Started /\ Serving(d) /\ d.req.complete = "setup"
        /\ Match(d.fn, d.config, belief) /\ host.r.in = TRUE
    BY <1>3 DEF Prepared
  <2>5. Outcome(End(Respond(d, host.r, n, b)))
    BY <2>1, <2>2, <2>3, <2>4, RespondOutcome
  <2>6. QED
    BY <1>1, <1>8, <2>5
<1>9. CASE r.sel = "sam_freq"
  <2> DEFINE b == IF r.intf = InClk THEN Len(PRates) ELSE Len(CRates)
             n == RangesSize(b, 12)
  <2>1. ClassIn(d, r) = Respond(d, r, n, b)
    BY <1>9 DEF ClassIn
  <2>2. b \in Nat /\ n \in Nat /\ n <= 4096 /\ 734 <= n
    <3>1. CASE r.intf = InClk
      BY <3>1, RangeSizes
    <3>2. CASE r.intf # InClk
      BY <3>2, RangeSizes
    <3>3. QED
      BY <3>1, <3>2
  <2>3. r.len <= 734
    BY <1>5, <1>9, RangeSizes DEF RangeBytes
  <2> HIDE DEF b, n
  <2>4. r.len <= n
    BY <1>4, <2>2, <2>3
  <2>5. QED
    BY <1>8, <2>1, <2>2, <2>4
<1>10. CASE r.sel = "volume"
  <2> DEFINE n == RangesSize(1, 6)
  <2>1. ClassIn(d, r) = Respond(d, r, n, 1)
    BY <1>10 DEF ClassIn
  <2>2. r.len <= n
    BY <1>5, <1>10 DEF RangeBytes
  <2>3. n \in Nat /\ n <= 4096
    BY RangeSizes
  <2> HIDE DEF n
  <2>4. QED
    BY <1>8, <2>1, <2>2, <2>3
<1>11. CASE r.sel \notin {"sam_freq", "volume"}
  <2>1. ClassIn(d, r) = Refuse(d)
    BY <1>11 DEF ClassIn
  <2>2. QED
    BY <1>1, <2>1, Refused DEF Prepared
<1>12. QED
  BY <1>9, <1>10, <1>11
(* A request changes the configuration or the function.                     *)
Replaced(s, c, f) == [s EXCEPT !.config = c, !.fn = f]

LEMMA ReplacedFacts ==
  ASSUME NEW s, Serving(s), NEW c \in {0, 1}, NEW f, FnOk(f), Allowed(f)
  PROVE  LET t == Replaced(s, c, f)
         IN  Serving(t) /\ t.req = s.req /\ t.config = c /\ t.fn = f /\ t.ep0 = s.ep0
<1> DEFINE t == Replaced(s, c, f)
<1>1. s \in States
  BY DEF Serving
<1>2. f \in FnStates
  BY DEF FnOk
<1>3. /\ t \in States /\ t.req = s.req /\ t.csr = s.csr /\ t.faddr = s.faddr /\ t.ep0 = s.ep0
      /\ t.config = c /\ t.fn = f
  BY <1>1, <1>2 DEF Replaced, States
<1> HIDE DEF t
<1>4. Serving(t)
  BY <1>3 DEF Serving
<1>5. QED
  BY <1>3, <1>4 DEF t

LEMMA ResetIs ==
  ASSUME NEW s \in States
  PROVE  ResetConfig(s) = IF s.config = 0 THEN s ELSE Replaced(s, 0, Disable(s.fn))
<1> DEFINE zero == 0
           f == Disable(s.fn)
<1>1. ResetConfig(s) = IF s.config = 0 THEN s ELSE [s EXCEPT !.fn = f, !.config = zero]
  BY DEF ResetConfig, States
<1> HIDE DEF f, zero
<1>2. [s EXCEPT !.fn = f, !.config = zero] = [s EXCEPT !.config = zero, !.fn = f]
  BY DEF States
<1>3. QED
  BY <1>1, <1>2 DEF Replaced, f, zero

LEMMA ResetFacts ==
  ASSUME NEW s, Serving(s)
  PROVE  LET t == ResetConfig(s)
         IN  /\ Serving(t) /\ t.req = s.req /\ t.config = 0
             /\ t.fn.cRate = s.fn.cRate /\ t.fn.pRate = s.fn.pRate
             /\ t.fn.volume = s.fn.volume /\ t.fn.mute = s.fn.mute
<1> DEFINE t == ResetConfig(s)
           f == Disable(s.fn)
<1>1. s \in States /\ FnOk(s.fn)
  BY DEF Serving
<1>2. t = IF s.config = 0 THEN s ELSE Replaced(s, 0, f)
  BY <1>1, ResetIs
<1>3. /\ FnOk(f) /\ f.cRate = s.fn.cRate /\ f.pRate = s.fn.pRate
      /\ f.volume = s.fn.volume /\ f.mute = s.fn.mute
  BY <1>1, DisableFacts DEF SettingOnly
<1> HIDE DEF t, f
<1>6. Allowed(f)
  BY <1>3, AllowedSame DEF Serving
<1>4. CASE s.config = 0
  BY <1>2, <1>4 DEF t
<1>5. CASE s.config # 0
  <2>1. t = Replaced(s, 0, f)
    BY <1>2, <1>5
  <2>2. Serving(t) /\ t.req = s.req /\ t.config = 0 /\ t.fn = f
    BY <1>3, <1>6, <2>1, ReplacedFacts
  <2>3. QED
    BY <1>3, <2>2 DEF t
<1>7. QED
  BY <1>4, <1>5

LEMMA SetConfigIs ==
  ASSUME NEW s, NEW n, ResetConfig(s) \in States
  PROVE  LET t == ResetConfig(s)
         IN  SetConfig(s, n) = IF n = 0 THEN Acknowledge(t)
                               ELSE IF n # 1 THEN Refuse(t)
                               ELSE Acknowledge(Replaced(t, 1, Configured(t.fn)))
<1> DEFINE t == ResetConfig(s)
<1>1. SetConfig(s, n) = IF n = 0 THEN Acknowledge(t)
                        ELSE IF n # 1 THEN Refuse(t)
                        ELSE Acknowledge([t EXCEPT !.config = 1,
                               !.fn = SetAlt(SetAlt(SetAlt(@, AcIntf, 0).f, OutIntf, 0).f, InIntf, 0).f])
  BY DEF SetConfig
<1> HIDE DEF t
<1>2. [t EXCEPT !.config = 1, !.fn = SetAlt(SetAlt(SetAlt(@, AcIntf, 0).f, OutIntf, 0).f, InIntf, 0).f]
      = Replaced(t, 1, Configured(t.fn))
  BY DEF Replaced, Configured, States, t
<1>3. QED
  BY <1>1, <1>2 DEF t

LEMMA AfterConfiguration ==
  ASSUME NEW b \in Beliefs, NEW r, r.name = "SET_CONFIGURATION"
  PROVE  LET d == AfterOk(b, r)
         IN  /\ d.addr = b.addr /\ d.cfg = r.val /\ d.halted = {} /\ d.alt[OutIntf] = 0
             /\ d.alt[InIntf] = 0 /\ d.cRate = Unknown /\ d.pRate = b.pRate
             /\ d.volume = b.volume /\ d.mute = b.mute
<1> DEFINE none == {}
           alt == [i \in {OutIntf, InIntf} |-> 0]
           d == [b EXCEPT !.cfg = r.val, !.halted = none, !.alt = alt, !.cRate = Unknown]
<1>1. AfterOk(b, r) = d
  BY DEF AfterOk
<1>2. alt[OutIntf] = 0 /\ alt[InIntf] = 0
  BY DEF OutIntf, InIntf
<1> HIDE DEF none, alt
<1>3. /\ d.addr = b.addr /\ d.cfg = r.val /\ d.halted = none /\ d.alt = alt
      /\ d.cRate = Unknown /\ d.pRate = b.pRate /\ d.volume = b.volume /\ d.mute = b.mute
  BY DEF Beliefs
<1> HIDE DEF d
<1>4. QED
  BY <1>1, <1>2, <1>3 DEF none
(* SET_CONFIGURATION: the old configuration is reset first; what the host   *)
(* knows of the rates survives, but for the one a setting may have lowered. *)
LEMMA ConfigurationOutcome ==
  ASSUME NEW s, Prepared(s), host.r.name = "SET_CONFIGURATION"
  PROVE  Outcome(End(Composite(s, host.r)))
<1> DEFINE r == host.r
           t == ResetConfig(s)
           f == Configured(t.fn)
           u == Replaced(t, 1, f)
           after == AfterOk(belief, r)
<1>1. /\ Started /\ Serving(s) /\ s.req.complete = "setup" /\ Match(s.fn, s.config, belief)
      /\ belief \in Beliefs
  BY DEF Prepared, Started
<1>2. r.len = 0 /\ r.in = FALSE
  <2>1. r.name \in NoDataNames
    BY DEF NoDataNames
  <2>2. QED
    BY <1>1, <2>1, HostFacts, Directions DEF Started
<1>3. /\ Serving(t) /\ t.req = s.req /\ t.config = 0
      /\ t.fn.cRate = s.fn.cRate /\ t.fn.pRate = s.fn.pRate
      /\ t.fn.volume = s.fn.volume /\ t.fn.mute = s.fn.mute
  BY <1>1, ResetFacts
<1>4. t \in States /\ FnOk(t.fn)
  BY <1>3 DEF Serving
<1>5. Composite(s, r) = SetConfig(s, r.val)
  BY DEF Composite
<1>6. SetConfig(s, r.val) = IF r.val = 0 THEN Acknowledge(t)
                            ELSE IF r.val # 1 THEN Refuse(t) ELSE Acknowledge(u)
  BY <1>4, SetConfigIs
<1>7. /\ after.addr = belief.addr /\ after.cfg = r.val /\ after.halted = {}
      /\ after.alt[OutIntf] = 0 /\ after.alt[InIntf] = 0 /\ after.cRate = Unknown
      /\ after.pRate = belief.pRate /\ after.volume = belief.volume /\ after.mute = belief.mute
  BY <1>1, AfterConfiguration
<1>8. /\ Known(belief.pRate, s.fn.pRate) /\ Known(belief.volume, s.fn.volume)
      /\ Known(belief.mute, s.fn.mute)
  BY PreparedFacts
<1>9. FnOk(f) /\ SettingOnly(t.fn, f) /\ f.outAlt = 0 /\ f.inAlt = 0
  BY <1>4, ConfiguredFacts
<1> HIDE DEF t, f
<1>10. Serving(u) /\ u.req = t.req /\ u.config = 1 /\ u.fn = f
  <2>1. Allowed(t.fn)
    BY <1>3 DEF Serving
  <2>2. Allowed(f)
    BY <1>1, <1>4, <1>9, <2>1, AllowedLower DEF Started
  <2>3. QED
    BY <1>3, <1>9, <2>2, ReplacedFacts
<1> HIDE DEF u, after
<1>11. CASE r.val = 0
  <2>1. Match(t.fn, t.config, after)
    BY <1>3, <1>7, <1>8, <1>11 DEF Match, Known
  <2>2. Composite(s, r) = Acknowledge(t)
    BY <1>5, <1>6, <1>11
  <2>3. t.req.complete = "setup"
    BY <1>1, <1>3
  <2>4. QED
    BY <1>1, <1>2, <1>3, <1>7, <2>1, <2>2, <2>3, AcknowledgeOutcome DEF after
<1>12. CASE r.val = 1
  <2>1. f.outOn = FALSE /\ f.inOn = FALSE
    BY <1>9 DEF FnOk
  <2>2. f.pRate = s.fn.pRate /\ f.volume = s.fn.volume /\ f.mute = s.fn.mute
    BY <1>3, <1>9 DEF SettingOnly
  <2>3. Match(f, 1, after)
    <3>1. Known(after.cfg, 1) /\ Known(after.cRate, f.cRate)
      BY <1>7, <1>12 DEF Known
    <3>2. /\ Known(after.pRate, f.pRate) /\ Known(after.volume, f.volume)
          /\ Known(after.mute, f.mute)
      BY <1>7, <1>8, <2>2
    <3>3. after.alt[OutIntf] = f.outAlt /\ after.alt[InIntf] = f.inAlt
      BY <1>7, <1>9
    <3>4. QED
      BY <2>1, <3>1, <3>2, <3>3 DEF Match
  <2>4. Composite(s, r) = Acknowledge(u)
    BY <1>5, <1>6, <1>12
  <2>5. u.req.complete = "setup" /\ Match(u.fn, u.config, after)
    BY <1>1, <1>3, <1>10, <2>3
  <2>6. QED
    BY <1>1, <1>2, <1>7, <1>10, <2>4, <2>5, AcknowledgeOutcome DEF after
<1>13. CASE r.val # 0 /\ r.val # 1
  <2> DEFINE stalled == AfterStall(belief, r)
  <2>1. /\ stalled.cfg = Unknown /\ stalled.cRate = belief.cRate
        /\ stalled.pRate = belief.pRate /\ stalled.volume = belief.volume
        /\ stalled.mute = belief.mute
    BY <1>1 DEF AfterStall, Beliefs
  <2> HIDE DEF stalled
  <2>2. Known(belief.cRate, s.fn.cRate)
    BY PreparedFacts
  <2>3. Match(t.fn, t.config, stalled)
    BY <1>3, <1>8, <2>1, <2>2 DEF Match, Known, Unknown
  <2>4. Composite(s, r) = Refuse(t)
    BY <1>5, <1>6, <1>13
  <2>5. QED
    BY <1>1, <1>3, <2>3, <2>4, RefuseOutcome DEF stalled
<1>14. QED
  BY <1>11, <1>12, <1>13

LEMMA AfterInterface ==
  ASSUME NEW b \in Beliefs, NEW r, r.name = "SET_INTERFACE"
  PROVE  LET d == AfterOk(b, r)
         IN  /\ d.addr = b.addr /\ d.cfg = b.cfg
             /\ d.halted = IF r.val = 0 THEN b.halted
                           ELSE b.halted \ {IF r.intf = OutIntf THEN "out" ELSE "in"}
             /\ d.alt[OutIntf] = (IF r.intf = OutIntf THEN r.val ELSE b.alt[OutIntf])
             /\ d.alt[InIntf] = (IF r.intf = InIntf THEN r.val ELSE b.alt[InIntf])
             /\ d.cRate = IF r.intf = OutIntf THEN Unknown ELSE b.cRate
             /\ d.pRate = b.pRate /\ d.volume = b.volume /\ d.mute = b.mute
<1> DEFINE halted == IF r.val = 0 THEN b.halted
                     ELSE b.halted \ {IF r.intf = OutIntf THEN "out" ELSE "in"}
           alt == [i \in {OutIntf, InIntf} |-> IF i = r.intf THEN r.val ELSE b.alt[i]]
           rate == IF r.intf = OutIntf THEN Unknown ELSE b.cRate
           d == [b EXCEPT !.alt = alt, !.halted = halted, !.cRate = rate]
<1>1. AfterOk(b, r) = d
  BY DEF AfterOk, Beliefs
<1>2. /\ alt[OutIntf] = (IF r.intf = OutIntf THEN r.val ELSE b.alt[OutIntf])
      /\ alt[InIntf] = (IF r.intf = InIntf THEN r.val ELSE b.alt[InIntf])
  BY DEF OutIntf, InIntf
<1> HIDE DEF halted, alt, rate
<1>3. /\ d.addr = b.addr /\ d.cfg = b.cfg /\ d.halted = halted /\ d.alt = alt
      /\ d.cRate = rate /\ d.pRate = b.pRate /\ d.volume = b.volume /\ d.mute = b.mute
  BY DEF Beliefs
<1> HIDE DEF d
<1>4. QED
  BY <1>1, <1>2, <1>3 DEF halted, rate
LEMMA InterfaceMatch ==
  ASSUME NEW f, FnOk(f), NEW c, NEW b \in Beliefs, Match(f, c, b), b.cfg = 1,
         NEW r, r.name = "SET_INTERFACE", r.intf \in {AcIntf, OutIntf, InIntf},
         NEW a, AltOk(f, r.intf, r.val, a), Taken(f, r.intf, r.val, a)
  PROVE  Match(a.f, c, AfterOk(b, r))
<1> DEFINE d == AfterOk(b, r)
           g == a.f
<1>1. /\ d.cfg = b.cfg
      /\ d.halted = IF r.val = 0 THEN b.halted
                    ELSE b.halted \ {IF r.intf = OutIntf THEN "out" ELSE "in"}
      /\ d.alt[OutIntf] = (IF r.intf = OutIntf THEN r.val ELSE b.alt[OutIntf])
      /\ d.alt[InIntf] = (IF r.intf = InIntf THEN r.val ELSE b.alt[InIntf])
      /\ d.cRate = IF r.intf = OutIntf THEN Unknown ELSE b.cRate
      /\ d.pRate = b.pRate /\ d.volume = b.volume /\ d.mute = b.mute
  BY AfterInterface
<1>2. /\ FnOk(g) /\ g.pRate = f.pRate /\ g.volume = f.volume /\ g.mute = f.mute
      /\ (r.intf # OutIntf => g.cRate = f.cRate)
  BY DEF AltOk, SettingOnly
<1>3. /\ g.outAlt = (IF r.intf = OutIntf THEN r.val ELSE f.outAlt)
      /\ g.inAlt = (IF r.intf = InIntf THEN r.val ELSE f.inAlt)
      /\ g.halt = (IF r.val = 0 THEN f.halt
                   ELSE f.halt \ {IF r.intf = OutIntf THEN "out" ELSE "in"})
  BY DEF Taken
<1> HIDE DEF d, g
<1>4. b.alt[OutIntf] = f.outAlt /\ b.alt[InIntf] = f.inAlt
  BY DEF Match
<1>5. d.alt[OutIntf] = g.outAlt /\ d.alt[InIntf] = g.inAlt
  BY <1>1, <1>3, <1>4
<1>6. /\ f.outOn = (f.outAlt # 0) /\ f.inOn = (f.inAlt # 0)
      /\ g.outOn = (g.outAlt # 0) /\ g.inOn = (g.inAlt # 0)
  BY <1>2 DEF FnOk
<1>7. /\ f.outOn => ("out" \in b.halted <=> "out" \in f.halt)
      /\ f.inOn => ("in" \in b.halted <=> "in" \in f.halt)
  BY DEF Match
<1>8. OutIntf # InIntf
  BY DEF OutIntf, InIntf
<1>9. g.outOn => ("out" \in d.halted <=> "out" \in g.halt)
  <2>1. CASE r.intf = OutIntf
    BY <1>1, <1>3, <1>6, <2>1
  <2>2. CASE r.intf # OutIntf
    <3>1. g.outOn => f.outOn
      BY <1>3, <1>6, <2>2
    <3>2. ("out" \in d.halted <=> "out" \in b.halted) /\ ("out" \in g.halt <=> "out" \in f.halt)
      BY <1>1, <1>3, <2>2
    <3>3. QED
      BY <1>7, <3>1, <3>2
  <2>3. QED
    BY <2>1, <2>2
<1>10. g.inOn => ("in" \in d.halted <=> "in" \in g.halt)
  <2>1. CASE r.val = 0
    <3>1. g.inOn => f.inOn
      BY <1>3, <1>6, <2>1
    <3>2. QED
      BY <1>1, <1>3, <1>7, <2>1, <3>1
  <2>2. CASE r.val # 0 /\ r.intf = OutIntf
    <3>1. g.inOn => f.inOn
      BY <1>3, <1>6, <1>8, <2>2
    <3>2. ("in" \in d.halted <=> "in" \in b.halted) /\ ("in" \in g.halt <=> "in" \in f.halt)
      BY <1>1, <1>3, <2>2
    <3>3. QED
      BY <1>7, <3>1, <3>2
  <2>3. CASE r.val # 0 /\ r.intf # OutIntf
    BY <1>1, <1>3, <2>3
  <2>4. QED
    BY <2>1, <2>2, <2>3
<1>11. Known(d.cfg, c) /\ Known(d.cRate, g.cRate)
  BY <1>1, <1>2 DEF Match, Known
<1>12. Known(d.pRate, g.pRate) /\ Known(d.volume, g.volume) /\ Known(d.mute, g.mute)
  BY <1>1, <1>2 DEF Match
<1>13. Match(g, c, d)
  BY <1>5, <1>9, <1>10, <1>11, <1>12 DEF Match
<1>14. QED
  BY <1>13 DEF g, d

LEMMA InterfaceOutcome ==
  ASSUME NEW s, Prepared(s), host.r.name = "SET_INTERFACE"
  PROVE  Outcome(End(Composite(s, host.r)))
<1> DEFINE r == host.r
           a == SetAlt(s.fn, r.intf, r.val)
           t == Replaced(s, s.config, a.f)
<1>1. /\ Started /\ Serving(s) /\ s.req.complete = "setup" /\ Match(s.fn, s.config, belief)
      /\ belief \in Beliefs /\ s \in States /\ FnOk(s.fn) /\ s.config \in {0, 1}
  BY PreparedFacts DEF Prepared, Started
<1>2. r.len = 0 /\ r.in = FALSE /\ r.intf \in {AcIntf, OutIntf, InIntf} /\ r.val \in Nat
  <2>1. r.name \in NoDataNames
    BY DEF NoDataNames
  <2>2. NoDataRequest(r) /\ r.len = 0 /\ r.in = FALSE
    BY <1>1, <2>1, HostFacts, Directions DEF Started
  <2>3. r.intf \in {AcIntf, OutIntf, InIntf}
    BY <2>2 DEF NoDataRequest
  <2>4. QED
    BY <1>1, <2>2, <2>3, HostFacts
<1>3. belief.cfg = 1
  BY <1>1 DEF Started, MayAsk
<1>4. s.config # 0
  BY <1>3, PreparedFacts DEF Known, Unknown
<1>5. AltOk(s.fn, r.intf, r.val, a)
  BY <1>1, <1>2, SetAltFacts
<1>6. Composite(s, r) = IF a.ok THEN Acknowledge(t) ELSE Refuse(t)
  <2>1. Composite(s, r) = IF a.ok THEN Acknowledge([s EXCEPT !.fn = a.f])
                          ELSE Refuse([s EXCEPT !.fn = a.f])
    BY <1>4 DEF Composite
  <2> HIDE DEF a
  <2>2. [s EXCEPT !.fn = a.f] = t
    BY <1>1 DEF States, Replaced
  <2>3. QED
    BY <2>1, <2>2
<1> HIDE DEF a
<1>7. FnOk(a.f)
  BY <1>5 DEF AltOk
<1>8. Serving(t) /\ t.req = s.req /\ t.config = s.config /\ t.fn = a.f
  <2>1. Serving(s) /\ s.config \in {0, 1}
    BY <1>1
  <2>2. SettingOnly(s.fn, a.f) /\ Allowed(s.fn)
    BY <1>1, <1>5 DEF AltOk, Serving
  <2>3. Allowed(a.f)
    BY <1>1, <1>7, <2>2, AllowedLower DEF Started
  <2>4. QED
    BY <1>7, <2>1, <2>3, ReplacedFacts
<1> HIDE DEF t
<1>9. CASE Taken(s.fn, r.intf, r.val, a)
  <2>1. Composite(s, r) = Acknowledge(t)
    BY <1>6, <1>9 DEF Taken
  <2>2. Match(t.fn, t.config, AfterOk(belief, r))
    BY <1>1, <1>2, <1>3, <1>5, <1>8, <1>9, InterfaceMatch
  <2>3. AfterOk(belief, r).addr = belief.addr
    BY <1>1, AfterInterface
  <2>4. t.req.complete = "setup"
    BY <1>1, <1>8
  <2>5. QED
    BY <1>1, <1>2, <1>8, <2>1, <2>2, <2>3, <2>4, AcknowledgeOutcome
<1>10. CASE a.ok = FALSE /\ a.f = s.fn
  <2>1. Composite(s, r) = Refuse(t)
    BY <1>6, <1>10
  <2>2. Match(t.fn, t.config, belief)
    BY <1>1, <1>8, <1>10
  <2>3. QED
    BY <1>1, <1>8, <2>1, <2>2, Refused
<1>11. QED
  BY <1>5, <1>9, <1>10 DEF AltOk
(* A class request with data to come is queued, and the SETUP packet        *)
(* acknowledged.                                                            *)
Expects(u, v) ==
  /\ v \in States /\ v.csr = {} /\ v.ep0.ackpend = {} /\ v.ep0.stage = "RX"
  /\ v.ep0.setAddress = u.ep0.setAddress /\ v.faddr = u.faddr /\ v.config = u.config
  /\ v.fn = u.fn /\ v.req \in ReqStates /\ v.req.listed = TRUE /\ v.req.len = u.req.len
  /\ v.req.actual = 0 /\ v.req.status = "-EINPROGRESS" /\ v.req.complete = u.req.complete

LEMMA ExpectsFacts ==
  ASSUME NEW u \in States, u.req.listed = FALSE, u.ep0.stage = "RX",
         u.ep0.ackpend = {"SVDRXPKTRDY"}, u.csr = {"RXPKTRDY"}
  PROVE  Ep0Queue(u).ok = TRUE /\ Expects(u, Ep0Queue(u).s)
<1> DEFINE l == Queued(u)
           v == Finish(l)
<1>1. Ep0Queue(u) = [s |-> v, ok |-> TRUE]
  BY QueueRxIs
<1>2. /\ l \in States /\ l.csr = u.csr /\ l.faddr = u.faddr /\ l.ep0 = u.ep0
      /\ l.config = u.config /\ l.fn = u.fn /\ l.req \in ReqStates /\ l.req.listed = TRUE
      /\ l.req.len = u.req.len /\ l.req.actual = 0
      /\ l.req.status = "-EINPROGRESS" /\ l.req.complete = u.req.complete
  BY QueuedFacts
<1> HIDE DEF l
<1>3. v = Written(l, {"SVDRXPKTRDY"}, "RX")
  BY <1>2, FinishIs, ZenonT(60)
<1>4. {"SVDRXPKTRDY"} \in SUBSET Writes /\ "RX" \in Stages
  BY DEF Writes, Stages
<1> HIDE DEF v
<1>5. Moved(l, {"SVDRXPKTRDY"}, "RX", v)
  BY <1>2, <1>3, <1>4, WrittenFacts
<1>6. v.csr = {}
  BY <1>2, <1>5 DEF Moved
<1>7. Expects(u, v)
  BY <1>2, <1>5, <1>6 DEF Expects, Moved
<1>8. QED
  BY <1>1, <1>7

(* out_rq_cur sets up the request and remembers what it is about.           *)
Sized(s, n) == [s EXCEPT !.req.len = n, !.req.zero = FALSE]
LEMMA SizedFacts ==
  ASSUME NEW s \in States, NEW n \in Nat
  PROVE  LET t == Sized(s, n)
         IN  /\ t \in States /\ t.csr = s.csr /\ t.faddr = s.faddr /\ t.ep0 = s.ep0
             /\ t.config = s.config /\ t.fn = s.fn /\ t.req \in ReqStates
             /\ t.req.listed = s.req.listed /\ t.req.len = n
<1> DEFINE no == FALSE
           q == [s.req EXCEPT !.len = n, !.zero = no]
<1>1. s.req \in ReqStates
  BY StateFacts
<1>2. no \in BOOLEAN
  OBVIOUS
<1>3. Sized(s, n) = [s EXCEPT !.req = q]
  BY <1>1 DEF Sized, States, ReqStates
<1> HIDE DEF no
<1>4. q \in ReqStates /\ q.listed = s.req.listed /\ q.len = n
  BY <1>1, <1>2 DEF ReqStates
<1> HIDE DEF q
<1>5. /\ Sized(s, n) \in States /\ Sized(s, n).req = q
      /\ Sized(s, n).csr = s.csr /\ Sized(s, n).faddr = s.faddr
      /\ Sized(s, n).ep0 = s.ep0 /\ Sized(s, n).config = s.config /\ Sized(s, n).fn = s.fn
  BY <1>3, <1>4 DEF States
<1>6. QED
  BY <1>4, <1>5

AboutClock(t, i, c) == [t EXCEPT !.fn.ctlId = i, !.req.complete = c]
AboutControl(t, x, e, c) == [t EXCEPT !.fn.setCon = x, !.fn.csId = e, !.req.complete = c]
(* ... which leaves the function as it was.                                 *)
About(t, c, u) ==
  /\ u \in States /\ u.csr = t.csr /\ u.faddr = t.faddr /\ u.ep0 = t.ep0
  /\ u.config = t.config /\ FnOk(u.fn) /\ SameDevice(t.fn, u.fn) /\ u.fn.mute = t.fn.mute
  /\ u.req \in ReqStates /\ u.req.listed = t.req.listed /\ u.req.len = t.req.len
  /\ u.req.complete = c

LEMMA ClockFacts ==
  ASSUME NEW t \in States, FnOk(t.fn), NEW i \in Nat
  PROVE  About(t, "sam_freq", AboutClock(t, i, "sam_freq"))
         /\ AboutClock(t, i, "sam_freq").fn.ctlId = i
<1> DEFINE c == "sam_freq"
           q == [t.req EXCEPT !.complete = c]
           g == [t.fn EXCEPT !.ctlId = i]
           u == AboutClock(t, i, c)
<1>1. t.req \in ReqStates /\ t.fn \in FnStates /\ c \in {"setup", "sam_freq", "fu_control"}
  BY StateFacts
<1>2. u = [t EXCEPT !.fn = g, !.req = q]
  BY DEF AboutClock, States
<1> HIDE DEF c, u
<1>3. /\ q \in ReqStates /\ q.listed = t.req.listed /\ q.len = t.req.len
      /\ q.complete = c
  BY <1>1 DEF ReqStates
<1>4. /\ g \in FnStates /\ g.ctlId = i /\ g.outAlt = t.fn.outAlt /\ g.inAlt = t.fn.inAlt
      /\ g.outOn = t.fn.outOn /\ g.inOn = t.fn.inOn
      /\ g.halt = t.fn.halt /\ g.ch = t.fn.ch /\ g.size = t.fn.size
      /\ g.cRate = t.fn.cRate /\ g.pRate = t.fn.pRate /\ g.cMax = t.fn.cMax
      /\ g.pMax = t.fn.pMax /\ g.pPkt = t.fn.pPkt /\ g.volume = t.fn.volume /\ g.mute = t.fn.mute
      /\ g.setCon = t.fn.setCon /\ g.csId = t.fn.csId
  BY <1>1 DEF FnStates
<1> HIDE DEF q, g
<1>5. FnOk(g) /\ SameDevice(t.fn, g)
  BY <1>4 DEF FnOk, SameDevice
<1>6. /\ u \in States /\ u.csr = t.csr /\ u.faddr = t.faddr /\ u.ep0 = t.ep0
      /\ u.config = t.config /\ u.fn = g /\ u.req = q
  BY <1>2, <1>3, <1>4 DEF States
<1>7. About(t, c, u) /\ u.fn.ctlId = i
  BY <1>3, <1>4, <1>5, <1>6 DEF About
<1>8. QED
  BY <1>7 DEF c, u

LEMMA ControlIdFacts ==
  ASSUME NEW t \in States, FnOk(t.fn), NEW e \in {"mute", "volume"}
  PROVE  LET u == AboutControl(t, e, e, "fu_control")
         IN  About(t, "fu_control", u) /\ u.fn.setCon = e /\ u.fn.csId = e
<1> DEFINE c == "fu_control"
           q == [t.req EXCEPT !.complete = c]
           g == [t.fn EXCEPT !.setCon = e, !.csId = e]
           u == AboutControl(t, e, e, c)
<1>1. t.req \in ReqStates /\ t.fn \in FnStates /\ c \in {"setup", "sam_freq", "fu_control"}
      /\ e \in FuControls
  BY StateFacts DEF FuControls
<1>2. u = [t EXCEPT !.fn = g, !.req = q]
  BY <1>1 DEF AboutControl, States, FnStates
<1> HIDE DEF c, u
<1>3. /\ q \in ReqStates /\ q.listed = t.req.listed /\ q.len = t.req.len
      /\ q.complete = c
  BY <1>1 DEF ReqStates
<1>4. /\ g \in FnStates /\ g.outAlt = t.fn.outAlt /\ g.inAlt = t.fn.inAlt
      /\ g.outOn = t.fn.outOn /\ g.inOn = t.fn.inOn
      /\ g.halt = t.fn.halt /\ g.ch = t.fn.ch /\ g.size = t.fn.size
      /\ g.cRate = t.fn.cRate /\ g.pRate = t.fn.pRate /\ g.cMax = t.fn.cMax
      /\ g.pMax = t.fn.pMax /\ g.pPkt = t.fn.pPkt /\ g.volume = t.fn.volume /\ g.mute = t.fn.mute
      /\ g.setCon = e /\ g.csId = e
  BY <1>1 DEF FnStates
<1> HIDE DEF q, g
<1>5. FnOk(g) /\ SameDevice(t.fn, g)
  BY <1>4 DEF FnOk, SameDevice
<1>6. /\ u \in States /\ u.csr = t.csr /\ u.faddr = t.faddr /\ u.ep0 = t.ep0
      /\ u.config = t.config /\ u.fn = g /\ u.req = q
  BY <1>2, <1>3, <1>4 DEF States
<1>7. About(t, c, u) /\ u.fn.setCon = e /\ u.fn.csId = e
  BY <1>3, <1>4, <1>5, <1>6 DEF About
<1>8. QED
  BY <1>7 DEF c, u
LEMMA ExpectsOutcome ==
  ASSUME NEW s, Prepared(s), SetRequest(host.r), NEW t, t = Sized(s, host.r.len),
         NEW c, NEW u, About(t, c, u),
         IF host.r.sel = "sam_freq" THEN c = "sam_freq" /\ u.fn.ctlId = host.r.intf
         ELSE c = "fu_control" /\ u.fn.csId = host.r.sel /\ u.fn.setCon = host.r.sel
  PROVE  Outcome(End(Ep0Queue(u)))
<1> DEFINE v == Ep0Queue(u).s
<1>1. /\ Started /\ Serving(s) /\ s \in States /\ FnOk(s.fn)
      /\ Match(s.fn, s.config, belief)
  BY DEF Prepared, Serving
<1>2. host.r.len \in {1, 2, 4} /\ host.r.in = FALSE /\ host.r.len \in Nat
  <2>1. host.r.in \in BOOLEAN
    BY <1>1, HostFacts
  <2>2. QED
    BY <2>1 DEF SetRequest
<1>3. host.stage = "data" /\ host.n = 0
  BY <1>1, <1>2 DEF Started
<1>4. /\ t \in States /\ t.csr = s.csr /\ t.faddr = s.faddr /\ t.ep0 = s.ep0
      /\ t.config = s.config /\ t.fn = s.fn /\ t.req \in ReqStates
      /\ t.req.listed = s.req.listed /\ t.req.len = host.r.len
  BY <1>1, <1>2, SizedFacts
<1>5. /\ s.ep0.stage = "RX" /\ s.ep0.ackpend = {"SVDRXPKTRDY"} /\ s.csr = {"RXPKTRDY"}
      /\ s.req.listed = FALSE /\ s.ep0.setAddress = FALSE /\ s.faddr = belief.addr
  BY <1>1, <1>2 DEF Serving
<1>6. /\ u \in States /\ u.csr = t.csr /\ u.faddr = t.faddr /\ u.ep0 = t.ep0
      /\ u.config = t.config /\ FnOk(u.fn) /\ SameDevice(t.fn, u.fn) /\ u.fn.mute = t.fn.mute
      /\ u.req \in ReqStates /\ u.req.listed = t.req.listed /\ u.req.len = t.req.len
      /\ u.req.complete = c
  BY DEF About
<1>7. Ep0Queue(u).ok = TRUE /\ Expects(u, v)
  BY <1>4, <1>5, <1>6, ExpectsFacts, ZenonT(60)
<1>8. End(Ep0Queue(u)) = v
  BY <1>7 DEF End
<1> HIDE DEF v
<1>9. /\ v \in States /\ v.csr = {} /\ v.ep0.ackpend = {} /\ v.ep0.stage = "RX"
      /\ v.ep0.setAddress = FALSE /\ v.faddr = belief.addr /\ v.config = s.config
      /\ v.fn = u.fn /\ v.req \in ReqStates /\ v.req.listed = TRUE
      /\ v.req.len = host.r.len /\ v.req.actual = 0 /\ v.req.status = "-EINPROGRESS"
      /\ v.req.complete = c
  BY <1>4, <1>5, <1>6, <1>7 DEF Expects
<1>10. ReqOk(v.req)
  BY <1>2, <1>9 DEF ReqOk
<1>11. Rest(v)
  BY <1>6, <1>9, <1>10 DEF Rest
<1>12. Match(v.fn, v.config, belief)
  BY <1>1, <1>4, <1>6, <1>9, MatchSame
<1>13. Receiving(v, FALSE)
  BY <1>3, <1>9, <1>12 DEF Receiving
<1>14. Allowed(v.fn)
  <2>1. Allowed(t.fn)
    BY <1>1, <1>4 DEF Serving
  <2>2. QED
    BY <1>6, <1>9, <2>1, AllowedSame DEF SameDevice
<1>15. QED
  BY <1>8, <1>9, <1>11, <1>13, <1>14 DEF Outcome, Answered

LEMMA SetCurOutcome ==
  ASSUME NEW s, Prepared(s), host.r.name = "SET_CUR"
  PROVE  Outcome(End(Composite(s, host.r)))
<1> DEFINE r == host.r
           t == Sized(s, r.len)
<1>1. Started /\ s \in States /\ FnOk(s.fn)
  BY DEF Prepared, Serving
<1>2. SetRequest(r)
  BY <1>1, HostFacts, Directions DEF Started
<1>3. r.intf \in Nat /\ r.len \in Nat
  BY <1>1, HostFacts
<1>4. t \in States /\ t.fn = s.fn
  BY <1>1, <1>3, SizedFacts
<1>5. Composite(s, r) = ClassOut(s, r)
  BY DEF Composite
<1>6. CASE r.sel = "sam_freq"
  <2> DEFINE u == AboutClock(t, r.intf, "sam_freq")
  <2>1. r.intf \in {OutClk, InClk}
    BY <1>2, <1>6 DEF SetRequest
  <2>2. ClassOut(s, r) = Ep0Queue(u)
    <3>1. ClassOut(s, r) = Ep0Queue(AboutClock(t, r.intf, "sam_freq"))
      BY <1>4, <1>6, <2>1 DEF ClassOut, AboutClock, Sized, OutFu, OutClk, InClk, States
    <3>2. QED
      BY <3>1
  <2> HIDE DEF t
  <2>3. About(t, "sam_freq", u) /\ u.fn.ctlId = r.intf
    BY <1>1, <1>3, <1>4, ClockFacts
  <2> HIDE DEF u
  <2>4. Outcome(End(Ep0Queue(u)))
    BY <1>2, <1>6, <2>3, ExpectsOutcome DEF t
  <2>5. QED
    BY <1>5, <2>2, <2>4
<1>7. CASE r.sel # "sam_freq"
  <2> DEFINE u == AboutControl(t, r.sel, r.sel, "fu_control")
  <2>1. r.intf = OutFu /\ r.sel \in {"mute", "volume"}
    BY <1>2, <1>7 DEF SetRequest
  <2>2. ClassOut(s, r) = Ep0Queue(u)
    <3> DEFINE x == IF r.sel \in {"mute", "volume"} THEN r.sel ELSE t.fn.setCon
    <3>1. ClassOut(s, r) = Ep0Queue(AboutControl(t, x, r.sel, "fu_control"))
      BY <1>4, <1>7, <2>1 DEF ClassOut, AboutControl, Sized, OutFu, OutClk, InClk, States
    <3>2. x = r.sel
      BY <2>1
    <3> HIDE DEF x
    <3>3. QED
      BY <3>1, <3>2
  <2> HIDE DEF t
  <2>3. About(t, "fu_control", u) /\ u.fn.setCon = r.sel /\ u.fn.csId = r.sel
    BY <1>1, <1>4, <2>1, ControlIdFacts
  <2> HIDE DEF u
  <2>4. Outcome(End(Ep0Queue(u)))
    BY <1>2, <1>7, <2>3, ExpectsOutcome DEF t
  <2>5. QED
    BY <1>5, <2>2, <2>4
<1>8. QED
  BY <1>6, <1>7
(* Whatever the framework is asked.                                         *)
LEMMA ForwardOutcome ==
  ASSUME Started, NEW s, Serving(s), Match(s.fn, s.config, belief)
  PROVE  Outcome(Forward(s, host.r))
<1> DEFINE d == Defaults(s)
           r == host.r
<1>1. /\ Serving(d) /\ d.req.complete = "setup" /\ d.fn = s.fn /\ d.config = s.config
  BY DefaultsFacts
<1>2. Forward(s, r) = End(Composite(d, r))
  BY ForwardIs
<1> HIDE DEF d
<1>3. Prepared(d)
  BY <1>1 DEF Prepared
<1>4. Outcome(End(Composite(d, r)))
  <2>1. CASE r.name = "GET_DESCRIPTOR"
    BY <1>3, <2>1, DescriptorOutcome
  <2>2. CASE r.name = "SET_CONFIGURATION"
    BY <1>3, <2>2, ConfigurationOutcome
  <2>3. CASE r.name = "GET_CONFIGURATION"
    BY <1>3, <2>3, ConfigurationReadOutcome
  <2>4. CASE r.name = "SET_INTERFACE"
    BY <1>3, <2>4, InterfaceOutcome
  <2>5. CASE r.name = "GET_INTERFACE"
    BY <1>3, <2>5, InterfaceReadOutcome
  <2>6. CASE r.name = "GET_CUR"
    BY <1>3, <2>6, CurrentReadOutcome
  <2>7. CASE r.name = "GET_RANGE"
    BY <1>3, <2>7, RangeReadOutcome
  <2>8. CASE r.name = "SET_CUR"
    BY <1>3, <2>8, SetCurOutcome
  <2>9. CASE r.name \notin {"GET_DESCRIPTOR", "SET_CONFIGURATION", "GET_CONFIGURATION",
                            "SET_INTERFACE", "GET_INTERFACE", "GET_CUR", "GET_RANGE", "SET_CUR"}
    <3>1. Composite(d, r) = Refuse(d)
      BY <2>9 DEF Composite
    <3>2. QED
      BY <1>1, <3>1, Refused
  <2>10. QED
    BY <2>1, <2>2, <2>3, <2>4, <2>5, <2>6, <2>7, <2>8, <2>9
<1>5. QED
  BY <1>2, <1>4

-----------------------------------------------------------------------------
(* The driver's own requests.                                               *)

WithAcks(s, w) == [s EXCEPT !.ep0.ackpend = w]
LEMMA WithAcksFacts ==
  ASSUME NEW s \in States, NEW w \in SUBSET Acks
  PROVE  LET t == WithAcks(s, w)
         IN  /\ t \in States /\ t.csr = s.csr /\ t.fifo = s.fifo /\ t.faddr = s.faddr
             /\ t.req = s.req /\ t.config = s.config /\ t.fn = s.fn
             /\ t.ep0.stage = s.ep0.stage /\ t.ep0.ackpend = w
             /\ t.ep0.setAddress = s.ep0.setAddress /\ t.ep0.address = s.ep0.address
<1> DEFINE e == [s.ep0 EXCEPT !.ackpend = w]
           t == [s EXCEPT !.ep0 = e]
<1>1. WithAcks(s, w) = t
  BY DEF WithAcks, States
<1>2. /\ e \in Ep0States /\ e.stage = s.ep0.stage /\ e.ackpend = w
      /\ e.setAddress = s.ep0.setAddress /\ e.address = s.ep0.address
  BY StateFacts DEF Ep0States
<1> HIDE DEF e
<1>3. /\ t \in States /\ t.csr = s.csr /\ t.fifo = s.fifo /\ t.faddr = s.faddr
      /\ t.req = s.req /\ t.config = s.config /\ t.fn = s.fn /\ t.ep0 = e
  BY <1>2 DEF States
<1> HIDE DEF t
<1>4. QED
  BY <1>1, <1>2, <1>3

WithAddress(s, a) == [s EXCEPT !.ep0.setAddress = TRUE, !.ep0.address = a]
LEMMA WithAddressFacts ==
  ASSUME NEW s \in States, NEW a \in Nat
  PROVE  LET t == WithAddress(s, a)
         IN  /\ t \in States /\ t.csr = s.csr /\ t.fifo = s.fifo /\ t.faddr = s.faddr
             /\ t.req = s.req /\ t.config = s.config /\ t.fn = s.fn
             /\ t.ep0.stage = s.ep0.stage /\ t.ep0.ackpend = s.ep0.ackpend
             /\ t.ep0.setAddress = TRUE /\ t.ep0.address = a
<1> DEFINE yes == TRUE
           e == [s.ep0 EXCEPT !.setAddress = yes, !.address = a]
           t == [s EXCEPT !.ep0 = e]
<1>0. yes \in BOOLEAN
  OBVIOUS
<1>1. WithAddress(s, a) = t
  BY DEF WithAddress, States
<1> HIDE DEF yes
<1>2. /\ e \in Ep0States /\ e.stage = s.ep0.stage /\ e.ackpend = s.ep0.ackpend
      /\ e.setAddress = yes /\ e.address = a
  BY <1>0, StateFacts DEF Ep0States
<1> HIDE DEF e
<1>3. /\ t \in States /\ t.csr = s.csr /\ t.fifo = s.fifo /\ t.faddr = s.faddr
      /\ t.req = s.req /\ t.config = s.config /\ t.fn = s.fn /\ t.ep0 = e
  BY <1>2 DEF States
<1> HIDE DEF t
<1>4. QED
  BY <1>1, <1>2, <1>3 DEF yes

WithHalt(s, h) == [s EXCEPT !.fn.halt = h]
LEMMA WithHaltFacts ==
  ASSUME NEW s \in States, FnOk(s.fn), NEW h \in SUBSET {"out", "in"}
  PROVE  LET t == WithHalt(s, h)
         IN  /\ t \in States /\ t.csr = s.csr /\ t.fifo = s.fifo /\ t.faddr = s.faddr
             /\ t.req = s.req /\ t.config = s.config /\ t.ep0 = s.ep0
             /\ FnOk(t.fn) /\ t.fn.halt = h /\ t.fn.outAlt = s.fn.outAlt
             /\ t.fn.inAlt = s.fn.inAlt /\ t.fn.outOn = s.fn.outOn /\ t.fn.inOn = s.fn.inOn
             /\ t.fn.cRate = s.fn.cRate /\ t.fn.pRate = s.fn.pRate
             /\ t.fn.volume = s.fn.volume /\ t.fn.mute = s.fn.mute
<1> DEFINE f == [s.fn EXCEPT !.halt = h]
           t == [s EXCEPT !.fn = f]
<1>1. WithHalt(s, h) = t
  BY DEF WithHalt, States
<1>2. /\ f \in FnStates /\ f.halt = h /\ f.outAlt = s.fn.outAlt
      /\ f.inAlt = s.fn.inAlt /\ f.outOn = s.fn.outOn /\ f.inOn = s.fn.inOn
      /\ f.cRate = s.fn.cRate /\ f.pRate = s.fn.pRate /\ f.volume = s.fn.volume
      /\ f.mute = s.fn.mute
      /\ f.ch = s.fn.ch /\ f.size = s.fn.size /\ f.cMax = s.fn.cMax /\ f.pMax = s.fn.pMax
      /\ f.pPkt = s.fn.pPkt /\ f.setCon = s.fn.setCon /\ f.csId = s.fn.csId
  BY StateFacts DEF FnStates
<1> HIDE DEF f
<1>3. FnOk(f)
  BY <1>2 DEF FnOk
<1>4. /\ t \in States /\ t.csr = s.csr /\ t.fifo = s.fifo /\ t.faddr = s.faddr
      /\ t.req = s.req /\ t.config = s.config /\ t.ep0 = s.ep0 /\ t.fn = f
  BY <1>2 DEF States
<1> HIDE DEF t
<1>5. QED
  BY <1>1, <1>2, <1>3, <1>4
(* A request without data that musb_read_setup has read, possibly carried   *)
(* out.                                                                     *)
Accepted(q) ==
  /\ q \in States /\ FnOk(q.fn) /\ ReqOk(q.req) /\ q.req.listed = FALSE
  /\ q.csr = {"RXPKTRDY"} /\ q.ep0.stage = "ACKWAIT" /\ q.ep0.ackpend = {"SVDRXPKTRDY"}
  /\ q.faddr = belief.addr /\ Allowed(q.fn)

WithEnd(q) == WithAcks(q, {"SVDRXPKTRDY", "DATAEND"})
LEMMA WithEndFacts ==
  ASSUME NEW q, Accepted(q)
  PROVE  LET t == WithEnd(q)
         IN  /\ t \in States /\ t.csr = {"RXPKTRDY"} /\ t.faddr = belief.addr /\ t.req = q.req
             /\ t.config = q.config /\ t.fn = q.fn /\ t.ep0.stage = "ACKWAIT"
             /\ t.ep0.ackpend = {"SVDRXPKTRDY", "DATAEND"}
             /\ t.ep0.setAddress = q.ep0.setAddress /\ t.ep0.address = q.ep0.address
<1>1. {"SVDRXPKTRDY", "DATAEND"} \in SUBSET Acks
  BY DEF Acks
<1>2. QED
  BY <1>1, WithAcksFacts DEF Accepted, WithEnd

LEMMA FinishOutcome ==
  ASSUME Started, NEW q, Accepted(q), host.r.len = 0, host.r.in = FALSE,
         Match(q.fn, q.config, AfterOk(belief, host.r)),
         AfterOk(belief, host.r).addr = IF q.ep0.setAddress THEN q.ep0.address ELSE belief.addr
  PROVE  Outcome(Finish(Staged(WithEnd(q), "STATUSIN")))
<1> DEFINE e == WithEnd(q)
           p == Staged(e, "STATUSIN")
           t == Finish(p)
           after == AfterOk(belief, host.r)
<1>1. /\ e \in States /\ e.csr = {"RXPKTRDY"} /\ e.faddr = belief.addr /\ e.req = q.req
      /\ e.config = q.config /\ e.fn = q.fn
      /\ e.ep0.ackpend = {"SVDRXPKTRDY", "DATAEND"}
      /\ e.ep0.setAddress = q.ep0.setAddress /\ e.ep0.address = q.ep0.address
  BY WithEndFacts
<1>2. "STATUSIN" \in Stages
  BY DEF Stages
<1> HIDE DEF e
<1>3. /\ p \in States /\ p.csr = e.csr /\ p.faddr = e.faddr /\ p.req = e.req
      /\ p.config = e.config /\ p.fn = e.fn /\ p.ep0.stage = "STATUSIN"
      /\ p.ep0.ackpend = e.ep0.ackpend /\ p.ep0.setAddress = e.ep0.setAddress
      /\ p.ep0.address = e.ep0.address
  BY <1>1, <1>2, StagedFacts
<1> HIDE DEF p
<1>4. p.ep0.ackpend \in SUBSET Writes
  BY <1>1, <1>3 DEF Writes
<1>5. Moved(p, p.ep0.ackpend, "STATUSIN", t)
  <2>1. t = Written(p, p.ep0.ackpend, "STATUSIN")
    BY <1>3, FinishIs
  <2>2. QED
    BY <1>2, <1>3, <1>4, <2>1, WrittenFacts
<1> HIDE DEF t, after
<1>6. t.csr = {"DATAEND"}
  BY <1>1, <1>3, <1>5 DEF Moved
<1>7. /\ t \in States /\ t.faddr = belief.addr /\ t.req = q.req /\ t.config = q.config
      /\ t.fn = q.fn /\ t.ep0.stage = "STATUSIN" /\ t.ep0.ackpend = {}
      /\ t.ep0.setAddress = q.ep0.setAddress /\ t.ep0.address = q.ep0.address
  BY <1>1, <1>3, <1>5 DEF Moved
<1>8. Rest(t)
  BY <1>6, <1>7 DEF Rest, Accepted
<1>9. Match(t.fn, t.config, after) /\ Addressed(t, after.addr)
  BY <1>7 DEF Addressed, after
<1>10. host.stage = "status"
  BY DEF Started
<1>11. Done(t, FALSE)
  BY <1>6, <1>7, <1>9, <1>10 DEF Done, after, Accepted
<1>12. Allowed(t.fn)
  BY <1>7 DEF Accepted
<1>13. QED
  BY <1>7, <1>8, <1>11, <1>12 DEF Outcome, Answered, t, p, e

LEMMA AfterAddress ==
  ASSUME NEW b \in Beliefs, NEW r, r.name = "SET_ADDRESS", NEW f, NEW c, Match(f, c, b)
  PROVE  AfterOk(b, r).addr = r.val /\ Match(f, c, AfterOk(b, r))
<1> DEFINE v == r.val
           d == [b EXCEPT !.addr = v]
<1>1. AfterOk(b, r) = d
  BY DEF AfterOk
<1> HIDE DEF v
<1>2. /\ d.addr = v /\ d.cfg = b.cfg /\ d.alt = b.alt /\ d.halted = b.halted
      /\ d.cRate = b.cRate /\ d.pRate = b.pRate /\ d.volume = b.volume /\ d.mute = b.mute
  BY DEF Beliefs
<1> HIDE DEF d
<1>3. Match(f, c, d)
  BY <1>2 DEF Match
<1>4. QED
  BY <1>1, <1>2, <1>3 DEF v

(* SET_FEATURE and CLEAR_FEATURE of the halt of endpoint r.sel.             *)
Halted(h, r) == IF r.name = "SET_HALT" THEN h \cup {r.sel} ELSE h \ {r.sel}
LEMMA AfterHalt ==
  ASSUME NEW b \in Beliefs, NEW r, r.name \in {"SET_HALT", "CLEAR_HALT"}
  PROVE  LET d == AfterOk(b, r)
         IN  /\ d.addr = b.addr /\ d.cfg = b.cfg /\ d.alt = b.alt
             /\ d.halted = Halted(b.halted, r)
             /\ d.cRate = b.cRate /\ d.pRate = b.pRate /\ d.volume = b.volume /\ d.mute = b.mute
<1> DEFINE h == Halted(b.halted, r)
           d == [b EXCEPT !.halted = h]
<1>1. AfterOk(b, r) = d
  BY DEF AfterOk, Halted
<1> HIDE DEF h
<1>2. /\ d.addr = b.addr /\ d.cfg = b.cfg /\ d.alt = b.alt /\ d.halted = h
      /\ d.cRate = b.cRate /\ d.pRate = b.pRate /\ d.volume = b.volume /\ d.mute = b.mute
  BY DEF Beliefs
<1> HIDE DEF d
<1>3. QED
  BY <1>1, <1>2 DEF h
(* DoSetup, with its updates named.                                         *)
AddEnd(q) == [q EXCEPT !.ep0.ackpend = @ \cup {"DATAEND"}]
InLast(q) == [q EXCEPT !.ep0.stage = "STATUSOUT", !.ep0.ackpend = {"TXPKTRDY", "DATAEND"}]
ServeNoData(z, r) ==
  CASE z.v = "handled" -> Finish(Staged(AddEnd(z.s), "STATUSIN"))
    [] z.v = "stall" -> Stall(AddEnd(z.s))
    [] z.v = "delegate" -> Forward(AddEnd(z.s), r)
ServeIn(i, r) ==
  CASE i.v = "handled" -> Finish(InLast(i.s))
    [] i.v = "stall" -> Stall(i.s)
    [] i.v = "delegate" -> Forward(i.s, r)
Serve(s, r) ==
  CASE s.ep0.stage = "ACKWAIT" -> ServeNoData(ServiceZeroData(s, r), r)
    [] s.ep0.stage = "TX" -> ServeIn(ServiceIn(s, r), r)
    [] s.ep0.stage = "RX" -> Forward(s, r)

LEMMA DoSetupIs ==
  ASSUME NEW s PROVE DoSetup(s) = Serve(ReadSetup(s, s.fifo.r), s.fifo.r)
BY Zenon DEF DoSetup, Serve, ServeNoData, ServeIn, Staged, AddEnd, InLast

LEMMA AddEndIs ==
  ASSUME NEW q, Accepted(q) PROVE AddEnd(q) = WithEnd(q)
<1> DEFINE w == q.ep0.ackpend \cup {"DATAEND"}
<1>1. w = {"SVDRXPKTRDY", "DATAEND"}
  BY DEF Accepted
<1>2. AddEnd(q) = WithAcks(q, w)
  BY DEF AddEnd, WithAcks, Accepted, States
<1> HIDE DEF w
<1>3. QED
  BY <1>1, <1>2 DEF WithEnd

LEMMA AddEndServing ==
  ASSUME NEW q, Accepted(q), q.req.listed = FALSE, q.ep0.setAddress = FALSE, host.r.len = 0
  PROVE  Serving(AddEnd(q)) /\ AddEnd(q).fn = q.fn /\ AddEnd(q).config = q.config
<1> DEFINE t == WithEnd(q)
<1>1. /\ t \in States /\ t.csr = {"RXPKTRDY"} /\ t.faddr = belief.addr /\ t.req = q.req
      /\ t.config = q.config /\ t.fn = q.fn /\ t.ep0.stage = "ACKWAIT"
      /\ t.ep0.ackpend = {"SVDRXPKTRDY", "DATAEND"}
      /\ t.ep0.setAddress = q.ep0.setAddress
  BY WithEndFacts
<1>2. AddEnd(q) = t
  BY AddEndIs
<1> HIDE DEF t
<1>3. Serving(t)
  BY <1>1 DEF Serving, Accepted
<1>4. QED
  BY <1>1, <1>2, <1>3

LEMMA AddressOutcome ==
  ASSUME Started, NEW s, Accepted(s), Match(s.fn, s.config, belief), host.r.len = 0,
         host.r.in = FALSE, host.r.name = "SET_ADDRESS"
  PROVE  Outcome(ServeNoData(ServiceZeroData(s, host.r), host.r))
<1> DEFINE r == host.r
           q == WithAddress(s, r.val)
           z == ServiceZeroData(s, r)
<1>1. z.s = q /\ z.v = "handled"
  BY DEF ServiceZeroData, WithAddress
<1>2. s \in States /\ r.val \in Nat /\ belief \in Beliefs
  BY HostFacts DEF Accepted, Started
<1>3. /\ q \in States /\ q.csr = s.csr /\ q.faddr = s.faddr
      /\ q.req = s.req /\ q.config = s.config /\ q.fn = s.fn
      /\ q.ep0.stage = s.ep0.stage /\ q.ep0.ackpend = s.ep0.ackpend
      /\ q.ep0.setAddress = TRUE /\ q.ep0.address = r.val
  BY <1>2, WithAddressFacts
<1> HIDE DEF q, z
<1>4. Accepted(q)
  BY <1>3 DEF Accepted
<1>5. AfterOk(belief, r).addr = r.val /\ Match(q.fn, q.config, AfterOk(belief, r))
  BY <1>2, <1>3, AfterAddress
<1>6. Outcome(Finish(Staged(WithEnd(q), "STATUSIN")))
  BY <1>3, <1>4, <1>5, FinishOutcome
<1>7. ServeNoData(z, r) = Finish(Staged(WithEnd(q), "STATUSIN"))
  BY <1>1, <1>4, AddEndIs DEF ServeNoData
<1>8. QED
  BY <1>6, <1>7 DEF z

(* An endpoint is enabled as the host's belief has it.                      *)
LEMMA HaltMatch ==
  ASSUME NEW b \in Beliefs, NEW f, FnOk(f), NEW c, Match(f, c, b), b.cfg = 1,
         NEW r, r.name \in {"SET_HALT", "CLEAR_HALT"}, r.sel \in {"out", "in"},
         NEW g, g.halt = Halted(f.halt, r), g.outAlt = f.outAlt, g.inAlt = f.inAlt,
         g.outOn = f.outOn, g.inOn = f.inOn, g.cRate = f.cRate, g.pRate = f.pRate,
         g.volume = f.volume /\ g.mute = f.mute
  PROVE  Match(g, c, AfterOk(b, r))
<1> DEFINE d == AfterOk(b, r)
<1>1. /\ d.cfg = b.cfg /\ d.alt = b.alt /\ d.halted = Halted(b.halted, r)
      /\ d.cRate = b.cRate /\ d.pRate = b.pRate /\ d.volume = b.volume /\ d.mute = b.mute
  BY AfterHalt
<1> HIDE DEF d
<1>2. /\ f.outOn => ("out" \in b.halted <=> "out" \in f.halt)
      /\ f.inOn => ("in" \in b.halted <=> "in" \in f.halt)
  BY DEF Match
<1>3. /\ f.outOn => ("out" \in d.halted <=> "out" \in g.halt)
      /\ f.inOn => ("in" \in d.halted <=> "in" \in g.halt)
  BY <1>1, <1>2 DEF Halted
<1>4. QED
  BY <1>1, <1>3 DEF Match, d

LEMMA HaltOutcome ==
  ASSUME Started, NEW s, Accepted(s), Match(s.fn, s.config, belief), host.r.len = 0,
         host.r.in = FALSE, host.r.name \in {"SET_HALT", "CLEAR_HALT"},
         s.req.listed = FALSE, s.ep0.setAddress = FALSE
  PROVE  Outcome(ServeNoData(ServiceZeroData(s, host.r), host.r))
<1> DEFINE r == host.r
           h == Halted(s.fn.halt, r)
           q == WithHalt(s, h)
           z == ServiceZeroData(s, r)
<1>1. s \in States /\ FnOk(s.fn) /\ belief \in Beliefs /\ belief.cfg = 1
  BY DEF Accepted, Started, MayAsk
<1>2. r.sel \in {"out", "in"}
  <2>1. r.name \in NoDataNames
    BY DEF NoDataNames
  <2>2. NoDataRequest(r)
    BY <2>1, HostFacts, Directions DEF Started
  <2>3. QED
    BY <2>2 DEF NoDataRequest
<1>3. h \in SUBSET {"out", "in"}
  BY <1>1, <1>2 DEF Halted, FnOk, FnStates
<1>4. CASE EpEnabled(s, r.sel)
  <2>1. z.s = q /\ z.v = "handled"
    BY <1>4 DEF ServiceZeroData, WithHalt, Halted
  <2> HIDE DEF h, z
  <2>2. /\ q \in States /\ q.csr = s.csr /\ q.faddr = s.faddr
        /\ q.req = s.req /\ q.config = s.config /\ q.ep0 = s.ep0
        /\ FnOk(q.fn) /\ q.fn.halt = h /\ q.fn.outAlt = s.fn.outAlt
        /\ q.fn.inAlt = s.fn.inAlt /\ q.fn.outOn = s.fn.outOn /\ q.fn.inOn = s.fn.inOn
        /\ q.fn.cRate = s.fn.cRate /\ q.fn.pRate = s.fn.pRate
        /\ q.fn.volume = s.fn.volume /\ q.fn.mute = s.fn.mute
    BY <1>1, <1>3, WithHaltFacts
  <2> HIDE DEF q
  <2>3. Accepted(q) /\ q.ep0.setAddress = FALSE
    <3>1. Allowed(q.fn)
      BY <2>2, AllowedSame DEF Accepted
    <3>2. QED
      BY <2>2, <3>1 DEF Accepted
  <2>4. Match(q.fn, q.config, AfterOk(belief, r))
    <3>1. q.fn.halt = Halted(s.fn.halt, r)
      BY <2>2 DEF h
    <3>2. QED
      BY <1>1, <1>2, <2>2, <3>1, HaltMatch
  <2>5. AfterOk(belief, r).addr = belief.addr
    BY <1>1, AfterHalt
  <2>6. Outcome(Finish(Staged(WithEnd(q), "STATUSIN")))
    BY <2>3, <2>4, <2>5, FinishOutcome
  <2>7. ServeNoData(z, r) = Finish(Staged(WithEnd(q), "STATUSIN"))
    BY <2>1, <2>3, AddEndIs DEF ServeNoData
  <2>8. QED
    BY <2>6, <2>7 DEF z
<1>5. CASE ~EpEnabled(s, r.sel)
  <2>1. z.s = s /\ z.v = "stall"
    BY <1>5 DEF ServiceZeroData
  <2> HIDE DEF z
  <2>2. Serving(AddEnd(s)) /\ Match(AddEnd(s).fn, AddEnd(s).config, belief)
    BY AddEndServing
  <2>3. ServeNoData(z, r) = Stall(AddEnd(s))
    BY <2>1 DEF ServeNoData
  <2>4. QED
    BY <2>2, <2>3, Refused DEF z
<1>6. QED
  BY <1>4, <1>5

LEMMA NoDataOutcome ==
  ASSUME Started, NEW s, Accepted(s), Match(s.fn, s.config, belief), host.r.len = 0,
         s.req.listed = FALSE, s.ep0.setAddress = FALSE
  PROVE  Outcome(ServeNoData(ServiceZeroData(s, host.r), host.r))
<1> DEFINE r == host.r
           z == ServiceZeroData(s, r)
<1>1. r.in = FALSE
  BY HostFacts
<1>2. CASE r.name = "SET_ADDRESS"
  BY <1>1, <1>2, AddressOutcome
<1>3. CASE r.name \in {"SET_HALT", "CLEAR_HALT"}
  BY <1>1, <1>3, HaltOutcome
<1>4. CASE r.name \notin {"SET_ADDRESS", "SET_HALT", "CLEAR_HALT"}
  <2>1. z.s = s /\ z.v = "delegate"
    BY <1>4 DEF ServiceZeroData
  <2> HIDE DEF z
  <2>2. Serving(AddEnd(s)) /\ Match(AddEnd(s).fn, AddEnd(s).config, belief)
    BY AddEndServing
  <2>3. ServeNoData(z, r) = Forward(AddEnd(s), r)
    BY <2>1 DEF ServeNoData
  <2>4. QED
    BY <2>2, <2>3, ForwardOutcome DEF z
<1>5. QED
  BY <1>2, <1>3, <1>4
(* GET_STATUS of an endpoint is answered into the FIFO.                     *)
WithFifo(s, f) == [s EXCEPT !.fifo = f]
LEMMA WithFifoFacts ==
  ASSUME NEW s \in States, NEW f \in Fifos
  PROVE  LET t == WithFifo(s, f)
         IN  /\ t \in States /\ t.csr = s.csr /\ t.fifo = f /\ t.faddr = s.faddr
             /\ t.ep0 = s.ep0 /\ t.req = s.req /\ t.config = s.config /\ t.fn = s.fn
BY DEF States, WithFifo

InAcks(s, stage, w) == [s EXCEPT !.ep0.stage = stage, !.ep0.ackpend = w]
LEMMA InAcksFacts ==
  ASSUME NEW s \in States, NEW stage \in Stages, NEW w \in SUBSET Acks
  PROVE  LET t == InAcks(s, stage, w)
         IN  /\ t \in States /\ t.csr = s.csr /\ t.fifo = s.fifo /\ t.faddr = s.faddr
             /\ t.req = s.req /\ t.config = s.config /\ t.fn = s.fn
             /\ t.ep0.stage = stage /\ t.ep0.ackpend = w
             /\ t.ep0.setAddress = s.ep0.setAddress /\ t.ep0.address = s.ep0.address
<1> DEFINE e == [s.ep0 EXCEPT !.stage = stage, !.ackpend = w]
           t == [s EXCEPT !.ep0 = e]
<1>1. InAcks(s, stage, w) = t
  BY DEF InAcks, States
<1>2. /\ e \in Ep0States /\ e.stage = stage /\ e.ackpend = w
      /\ e.setAddress = s.ep0.setAddress /\ e.address = s.ep0.address
  BY StateFacts DEF Ep0States
<1> HIDE DEF e
<1>3. /\ t \in States /\ t.csr = s.csr /\ t.fifo = s.fifo /\ t.faddr = s.faddr
      /\ t.req = s.req /\ t.config = s.config /\ t.fn = s.fn /\ t.ep0 = e
  BY <1>2 DEF States
<1> HIDE DEF t
<1>4. QED
  BY <1>1, <1>2, <1>3

LEMMA InLastFacts ==
  ASSUME NEW q \in States
  PROVE  LET t == Finish(InLast(q))
         IN  /\ t \in States /\ t.csr = (q.csr \ {"SENTSTALL"}) \cup {"TXPKTRDY", "DATAEND"}
             /\ t.fifo = q.fifo /\ t.faddr = q.faddr /\ t.req = q.req
             /\ t.config = q.config /\ t.fn = q.fn /\ t.ep0.stage = "STATUSOUT"
             /\ t.ep0.ackpend = {} /\ t.ep0.setAddress = q.ep0.setAddress
<1> DEFINE w == {"TXPKTRDY", "DATAEND"}
           out == "STATUSOUT"
           p == InAcks(q, out, w)
           t == Finish(p)
<1>1. w \in SUBSET Acks /\ w \in SUBSET Writes /\ out \in Stages
  BY DEF Acks, Writes, Stages
<1>2. InLast(q) = p
  BY DEF InLast, InAcks
<1> HIDE DEF w, out
<1>3. /\ p \in States /\ p.csr = q.csr /\ p.fifo = q.fifo /\ p.faddr = q.faddr
      /\ p.req = q.req /\ p.config = q.config /\ p.fn = q.fn
      /\ p.ep0.stage = out /\ p.ep0.ackpend = w
      /\ p.ep0.setAddress = q.ep0.setAddress
  BY <1>1, InAcksFacts
<1> HIDE DEF p
<1>4. Moved(p, w, out, t)
  <2>1. t = Written(p, w, out)
    BY <1>3, FinishIs
  <2>2. QED
    BY <1>1, <1>3, <2>1, WrittenFacts
<1> HIDE DEF t
<1>5. t.csr = (q.csr \ {"SENTSTALL"}) \cup {"TXPKTRDY", "DATAEND"}
  BY <1>3, <1>4 DEF Moved, w
<1>6. /\ t \in States /\ t.fifo = q.fifo /\ t.faddr = q.faddr /\ t.req = q.req
      /\ t.config = q.config /\ t.fn = q.fn /\ t.ep0.stage = "STATUSOUT"
      /\ t.ep0.ackpend = {} /\ t.ep0.setAddress = q.ep0.setAddress
  BY <1>3, <1>4 DEF Moved, out
<1>7. QED
  BY <1>2, <1>5, <1>6 DEF t

LEMMA StatusLength ==
  ASSUME NEW r, r.name = "GET_STATUS" PROVE AnswerLength(r) = 2
BY DEF AnswerLength

LEMMA StatusAnswer ==
  ASSUME NEW r, r.name = "GET_STATUS"
  PROVE  Answer(r) = IF r.sel \in belief.halted THEN 1 ELSE 0
BY DEF Answer

LEMMA StatusReadOutcome ==
  ASSUME Started, NEW s, Serving(s), Match(s.fn, s.config, belief), host.r.in = TRUE,
         host.r.name = "GET_STATUS"
  PROVE  Outcome(ServeIn(ServiceIn(s, host.r), host.r))
<1> DEFINE r == host.r
           n == Least(r.len, 2)
           v == IF r.sel \in s.fn.halt THEN 1 ELSE 0
           q == WithFifo(s, InFifo(n, v))
           i == ServiceIn(s, r)
           t == Finish(InLast(q))
<1>1. /\ s \in States /\ FnOk(s.fn) /\ r.len \in Nat /\ r.len # 0 /\ belief.cfg = 1
      /\ host.stage = "data" /\ host.n = 0
  BY HostFacts DEF Serving, Started, MayAsk
<1>2. r.sel \in {"out", "in"}
  <2>1. r.name \in GetNames
    BY DEF GetNames
  <2>2. GetRequest(r)
    BY <2>1, HostFacts, Directions DEF Started
  <2>3. QED
    BY <2>2 DEF GetRequest
<1>3. CASE EpEnabled(s, r.sel)
  <2>1. i.s = q /\ i.v = "handled"
    BY <1>3 DEF ServiceIn, WithFifo, InFifo
  <2>2. /\ n \in 0 .. Ep0Fifo /\ n < Ep0Fifo /\ n = Least(2, r.len) /\ v \in Nat
    BY <1>1 DEF Least, Ep0Fifo
  <2>3. n = ToRead
    BY <2>2, StatusLength DEF ToRead
  <2>4. Known(Answer(r), v)
    <3>1. r.sel \in belief.halted <=> r.sel \in s.fn.halt
      BY <1>1, <1>2, <1>3 DEF Match, EpEnabled
    <3>2. Answer(r) = v
      BY <3>1, StatusAnswer
    <3>3. QED
      BY <3>2 DEF Known
  <2> HIDE DEF n, v, i
  <2>5. /\ InFifo(n, v) \in Fifos /\ InFifo(n, v).n = n /\ InFifo(n, v).val = v
    BY <2>2, InFifoFacts
  <2>6. /\ q \in States /\ q.csr = s.csr /\ q.fifo = InFifo(n, v) /\ q.faddr = s.faddr
        /\ q.ep0 = s.ep0 /\ q.req = s.req /\ q.config = s.config /\ q.fn = s.fn
    BY <1>1, <2>5, WithFifoFacts
  <2> HIDE DEF q
  <2>7. /\ t \in States /\ t.csr = (q.csr \ {"SENTSTALL"}) \cup {"TXPKTRDY", "DATAEND"}
        /\ t.fifo = q.fifo /\ t.faddr = q.faddr /\ t.req = q.req
        /\ t.config = q.config /\ t.fn = q.fn /\ t.ep0.stage = "STATUSOUT"
        /\ t.ep0.ackpend = {} /\ t.ep0.setAddress = q.ep0.setAddress
    BY <2>6, InLastFacts
  <2>8. ServeIn(i, r) = t
    BY <2>1 DEF ServeIn
  <2> HIDE DEF t
  <2>9. q.csr = {}
    BY <1>1, <2>6 DEF Serving
  <2>10. t.csr = {"TXPKTRDY", "DATAEND"}
    BY <2>7, <2>9
  <2>11. t.fifo.n = n /\ t.fifo.val = v
    BY <2>5, <2>6, <2>7
  <2>12. Rest(t)
    BY <2>6, <2>7, <2>10 DEF Rest, Serving
  <2>13. ReadSoFar
    BY DEF ReadSoFar, Started
  <2>14. host.n + t.fifo.n = ToRead
    BY <1>1, <2>2, <2>3, <2>11
  <2>15. Match(t.fn, t.config, belief)
    BY <2>6, <2>7
  <2>16. LastSent(t, FALSE)
    BY <1>1, <2>2, <2>4, <2>6, <2>7, <2>10, <2>11, <2>13, <2>14, <2>15 DEF LastSent, Serving
  <2>17. t.faddr = belief.addr /\ Allowed(t.fn)
    BY <2>6, <2>7 DEF Serving
  <2>18. QED
    BY <2>8, <2>12, <2>16, <2>17 DEF Outcome, Answered, i
<1>4. CASE ~EpEnabled(s, r.sel)
  <2>1. i.s = s /\ i.v = "stall"
    BY <1>4 DEF ServiceIn
  <2> HIDE DEF i
  <2>2. ServeIn(i, r) = Stall(s)
    BY <2>1 DEF ServeIn
  <2>3. QED
    BY <2>2, Refused DEF i
<1>5. QED
  BY <1>3, <1>4

(* The SETUP stage answers every request the host may make.                 *)
LEMMA DoSetupOutcome ==
  ASSUME Started, NEW s0, Fresh(s0), s0.fifo.r = host.r, s0.faddr = belief.addr,
         Match(s0.fn, s0.config, belief), MuteInDoubt(s0), Allowed(s0.fn)
  PROVE  Outcome(DoSetup(s0))
<1> DEFINE r == host.r
           s == ReadSetup(s0, r)
<1>1. r \in Requests /\ r.in \in BOOLEAN /\ (r.in = TRUE => r.len # 0)
  BY HostFacts
<1>2. HasRead(s0, r, s)
  BY <1>1, ReadSetupFacts
<1>3. DoSetup(s0) = Serve(s, r)
  BY DoSetupIs
<1> HIDE DEF s
<1>4. /\ s \in States /\ FnOk(s.fn) /\ s.faddr = belief.addr /\ ReqOk(s.req)
      /\ s.req.listed = FALSE /\ s.ep0.setAddress = FALSE
      /\ SameDevice(s0.fn, s.fn) /\ MuteKept(s0, s)
  BY <1>2 DEF HasRead
<1>5. Match(s.fn, s.config, belief)
  <2>1. SameDevice(s0.fn, s.fn) /\ s.config = s0.config /\ FnOk(s0.fn)
    BY <1>2 DEF HasRead, Fresh
  <2>2. s.fn.mute = s0.fn.mute \/ belief.mute = Unknown
    BY <1>4 DEF MuteKept, MuteInDoubt
  <2>3. QED
    BY <1>4, <2>1, <2>2, MatchSame
<1>6. Allowed(s.fn)
  BY <1>4, AllowedSame DEF SameDevice
<1>7. CASE r.len = 0
  <2>1. /\ s.ep0.stage = "ACKWAIT" /\ s.ep0.ackpend = {"SVDRXPKTRDY"}
        /\ s.csr = {"RXPKTRDY"}
    BY <1>2, <1>7 DEF HasRead
  <2>2. Accepted(s)
    BY <1>4, <1>6, <2>1 DEF Accepted
  <2>3. Serve(s, r) = ServeNoData(ServiceZeroData(s, r), r)
    BY <2>1 DEF Serve
  <2>4. QED
    BY <1>3, <1>4, <1>5, <1>7, <2>2, <2>3, NoDataOutcome
<1>8. CASE r.len # 0 /\ r.in = TRUE
  <2>1. s.ep0.stage = "TX" /\ s.ep0.ackpend = {} /\ s.csr = {}
    BY <1>2, <1>8 DEF HasRead
  <2>2. Serving(s)
    BY <1>4, <1>8, <1>6, <2>1 DEF Serving
  <2>3. Serve(s, r) = ServeIn(ServiceIn(s, r), r)
    BY <2>1 DEF Serve
  <2>4. CASE r.name = "GET_STATUS"
    BY <1>3, <1>5, <1>8, <2>2, <2>3, <2>4, StatusReadOutcome
  <2>5. CASE r.name # "GET_STATUS"
    <3>1. ServiceIn(s, r).s = s /\ ServiceIn(s, r).v = "delegate"
      BY <2>5 DEF ServiceIn
    <3>2. ServeIn(ServiceIn(s, r), r) = Forward(s, r)
      BY <3>1 DEF ServeIn
    <3>3. QED
      BY <1>3, <1>5, <2>2, <2>3, <3>2, ForwardOutcome
  <2>6. QED
    BY <2>4, <2>5
<1>9. CASE r.len # 0 /\ r.in = FALSE
  <2>1. /\ s.ep0.stage = "RX" /\ s.ep0.ackpend = {"SVDRXPKTRDY"}
        /\ s.csr = {"RXPKTRDY"}
    BY <1>2, <1>9 DEF HasRead
  <2>2. Serving(s)
    BY <1>4, <1>9, <1>6, <2>1 DEF Serving
  <2>3. Serve(s, r) = Forward(s, r)
    BY <2>1 DEF Serve
  <2>4. QED
    BY <1>3, <1>5, <2>2, <2>3, ForwardOutcome
<1>10. QED
  BY <1>1, <1>7, <1>8, <1>9
-----------------------------------------------------------------------------
(* The interrupt handler.                                                   *)

(* What the handler acknowledges first.                                     *)
Cleared(s) == AckSetupEnd(AckStall(s))
EndedStage(stage) == CASE stage = "TX" -> "STATUSOUT" [] stage = "RX" -> "STATUSIN"
                       [] OTHER -> stage
WithCsr(s, c) == [s EXCEPT !.csr = c]

LEMMA WithCsrFacts ==
  ASSUME NEW s \in States, NEW c \in SUBSET CsrBits
  PROVE  LET t == WithCsr(s, c)
         IN  /\ t \in States /\ t.csr = c /\ t.fifo = s.fifo /\ t.faddr = s.faddr
             /\ t.ep0 = s.ep0 /\ t.req = s.req /\ t.config = s.config /\ t.fn = s.fn
BY DEF States, WithCsr

LEMMA AckStallFacts ==
  ASSUME NEW s \in States, "SENTSTALL" \in s.csr => s.ep0.stage = "IDLE"
  PROVE  LET t == AckStall(s)
         IN  /\ t \in States /\ t.csr = s.csr \ {"SENTSTALL"} /\ t.fifo = s.fifo
             /\ t.faddr = s.faddr /\ t.req = s.req /\ t.config = s.config /\ t.fn = s.fn
             /\ t.ep0.stage = s.ep0.stage /\ t.ep0.ackpend = s.ep0.ackpend
             /\ t.ep0.setAddress = s.ep0.setAddress /\ t.ep0.address = s.ep0.address
<1>1. CASE "SENTSTALL" \in s.csr
  <2> DEFINE c == s.csr \ {"SENTSTALL"}
             e == "IDLE"
             u == WithCsr(s, c)
             t == Staged(u, e)
  <2>1. c \in SUBSET CsrBits /\ e \in Stages /\ s.ep0.stage = e
    BY <1>1, StateFacts DEF Stages
  <2>2. AckStall(s) = t
    BY <1>1 DEF AckStall, Staged, WithCsr, States
  <2> HIDE DEF c, e
  <2>3. /\ u \in States /\ u.csr = c /\ u.fifo = s.fifo /\ u.faddr = s.faddr
        /\ u.ep0 = s.ep0 /\ u.req = s.req /\ u.config = s.config /\ u.fn = s.fn
    BY <2>1, WithCsrFacts
  <2> HIDE DEF u
  <2>4. /\ t \in States /\ t.csr = u.csr /\ t.fifo = u.fifo /\ t.faddr = u.faddr
        /\ t.req = u.req /\ t.config = u.config /\ t.fn = u.fn
        /\ t.ep0.stage = e /\ t.ep0.ackpend = u.ep0.ackpend
        /\ t.ep0.setAddress = u.ep0.setAddress /\ t.ep0.address = u.ep0.address
    BY <2>1, <2>3, StagedFacts
  <2> HIDE DEF t
  <2>5. QED
    BY <2>1, <2>2, <2>3, <2>4 DEF c
<1>2. CASE "SENTSTALL" \notin s.csr
  <2>1. AckStall(s) = s
    BY <1>2 DEF AckStall
  <2>2. s.csr = s.csr \ {"SENTSTALL"}
    BY <1>2
  <2>3. QED
    BY <2>1, <2>2
<1>3. QED
  BY <1>1, <1>2

LEMMA AckSetupEndFacts ==
  ASSUME NEW s \in States, "SENTSTALL" \notin s.csr
  PROVE  LET t == AckSetupEnd(s)
         IN  /\ t \in States /\ t.csr = s.csr \ {"SETUPEND"} /\ t.fifo = s.fifo
             /\ t.faddr = s.faddr /\ t.req = s.req /\ t.config = s.config /\ t.fn = s.fn
             /\ t.ep0.stage = (IF "SETUPEND" \in s.csr THEN EndedStage(s.ep0.stage)
                               ELSE s.ep0.stage)
             /\ t.ep0.ackpend = s.ep0.ackpend
             /\ t.ep0.setAddress = s.ep0.setAddress /\ t.ep0.address = s.ep0.address
<1>1. CASE "SETUPEND" \in s.csr
  <2> DEFINE w == {"SVDSETUPEND"}
             e == EndedStage(s.ep0.stage)
             u == WriteCsr(s, w)
             t == Staged(u, e)
  <2>1. w \in SUBSET {"SVDRXPKTRDY", "SVDSETUPEND", "TXPKTRDY", "DATAEND", "SENDSTALL"}
    OBVIOUS
  <2>2. e \in Stages
    BY StateFacts DEF Ep0States, Stages, EndedStage
  <2>3. /\ u \in States
        /\ u.csr = (s.csr \ ({"SENTSTALL"} \cup (IF "SVDRXPKTRDY" \in w THEN {"RXPKTRDY"} ELSE {})
                                      \cup (IF "SVDSETUPEND" \in w THEN {"SETUPEND"} ELSE {})))
                   \cup (w \cap {"TXPKTRDY", "DATAEND", "SENDSTALL"})
        /\ u.fifo = s.fifo /\ u.faddr = s.faddr
        /\ u.ep0 = s.ep0 /\ u.req = s.req /\ u.config = s.config /\ u.fn = s.fn
    BY <2>1, WriteFacts
  <2>4. u.csr = s.csr \ {"SETUPEND"}
    BY <2>3
  <2>5. AckSetupEnd(s) = t
    <3>1. u.ep0.stage = s.ep0.stage
      BY <2>3
    <3> HIDE DEF u
    <3>2. AckSetupEnd(s) = [u EXCEPT !.ep0.stage = EndedStage(@)]
      BY <1>1 DEF AckSetupEnd, EndedStage, u
    <3>3. [u EXCEPT !.ep0.stage = EndedStage(@)] = t
      BY <2>3, <3>1 DEF Staged, States
    <3>4. QED
      BY <3>2, <3>3
  <2> HIDE DEF w, e, u
  <2>6. /\ t \in States /\ t.csr = u.csr /\ t.fifo = u.fifo /\ t.faddr = u.faddr
        /\ t.req = u.req /\ t.config = u.config /\ t.fn = u.fn
        /\ t.ep0.stage = e /\ t.ep0.ackpend = u.ep0.ackpend
        /\ t.ep0.setAddress = u.ep0.setAddress /\ t.ep0.address = u.ep0.address
    BY <2>2, <2>3, StagedFacts
  <2> HIDE DEF t
  <2>7. /\ t \in States /\ t.csr = s.csr \ {"SETUPEND"} /\ t.fifo = s.fifo
        /\ t.faddr = s.faddr /\ t.req = s.req /\ t.config = s.config /\ t.fn = s.fn
        /\ t.ep0.ackpend = s.ep0.ackpend
        /\ t.ep0.setAddress = s.ep0.setAddress /\ t.ep0.address = s.ep0.address
    BY <2>3, <2>4, <2>6
  <2>8. QED
    BY <1>1, <2>5, <2>6, <2>7 DEF e
<1>2. CASE "SETUPEND" \notin s.csr
  <2>1. AckSetupEnd(s) = s
    BY <1>2 DEF AckSetupEnd
  <2>2. s.csr = s.csr \ {"SETUPEND"}
    BY <1>2
  <2>3. QED
    BY <1>2, <2>1, <2>2
<1>3. QED
  BY <1>1, <1>2

LEMMA ClearedFacts ==
  ASSUME NEW s \in States, "SENTSTALL" \in s.csr => s.ep0.stage = "IDLE"
  PROVE  LET t == Cleared(s)
         IN  /\ t \in States /\ t.csr = s.csr \ {"SENTSTALL", "SETUPEND"} /\ t.fifo = s.fifo
             /\ t.faddr = s.faddr /\ t.req = s.req /\ t.config = s.config /\ t.fn = s.fn
             /\ t.ep0.stage = (IF "SETUPEND" \in s.csr THEN EndedStage(s.ep0.stage)
                               ELSE s.ep0.stage)
             /\ t.ep0.ackpend = s.ep0.ackpend
             /\ t.ep0.setAddress = s.ep0.setAddress /\ t.ep0.address = s.ep0.address
<1> DEFINE u == AckStall(s)
           t == AckSetupEnd(u)
<1>1. /\ u \in States /\ u.csr = s.csr \ {"SENTSTALL"} /\ u.fifo = s.fifo
      /\ u.faddr = s.faddr /\ u.req = s.req /\ u.config = s.config /\ u.fn = s.fn
      /\ u.ep0.stage = s.ep0.stage /\ u.ep0.ackpend = s.ep0.ackpend
      /\ u.ep0.setAddress = s.ep0.setAddress /\ u.ep0.address = s.ep0.address
  BY AckStallFacts
<1> HIDE DEF u
<1>2. "SENTSTALL" \notin u.csr /\ ("SETUPEND" \in u.csr <=> "SETUPEND" \in s.csr)
  BY <1>1
<1>3. /\ t \in States /\ t.csr = u.csr \ {"SETUPEND"} /\ t.fifo = u.fifo
      /\ t.faddr = u.faddr /\ t.req = u.req /\ t.config = u.config /\ t.fn = u.fn
      /\ t.ep0.stage = (IF "SETUPEND" \in u.csr THEN EndedStage(u.ep0.stage)
                        ELSE u.ep0.stage)
      /\ t.ep0.ackpend = u.ep0.ackpend
      /\ t.ep0.setAddress = u.ep0.setAddress /\ t.ep0.address = u.ep0.address
  BY <1>1, <1>2, AckSetupEndFacts
<1> HIDE DEF t
<1>4. t.csr = s.csr \ {"SENTSTALL", "SETUPEND"}
  BY <1>1, <1>3
<1>5. QED
  BY <1>1, <1>2, <1>3, <1>4 DEF Cleared, t, u
(* ... and what it goes on with.                                            *)
Handle(s) ==
  CASE s.ep0.stage = "TX" -> IF "TXPKTRDY" \in s.csr THEN s ELSE TxState(s)
    [] s.ep0.stage = "RX" -> IF "RXPKTRDY" \in s.csr THEN RxState(s) ELSE s
    [] s.ep0.stage \in {"STATUSIN", "STATUSOUT"} -> Status(s)
    [] s.ep0.stage \in {"IDLE", "SETUP"} -> Setup(Staged(s, "SETUP"))
    [] s.ep0.stage = "ACKWAIT" -> s

LEMMA Ep0IrqIs ==
  ASSUME NEW s, Cleared(s).ep0.stage \in Stages
  PROVE  Ep0Irq(s) = IF "DATAEND" \in s.csr THEN s ELSE Handle(Cleared(s))
<1> DEFINE u == Cleared(s)
<1>1. u = AckSetupEnd(AckStall(s))
  BY DEF Cleared
<1>2. u.ep0.stage \in {"IDLE", "SETUP", "TX", "RX", "ACKWAIT", "STATUSIN", "STATUSOUT"}
  BY DEF Stages
<1> HIDE DEF u
<1>3. Staged(u, "SETUP") = [u EXCEPT !.ep0.stage = "SETUP"]
  BY DEF Staged
<1>4. CASE "DATAEND" \in s.csr
  BY <1>4 DEF Ep0Irq
<1>5. CASE "DATAEND" \notin s.csr
  BY <1>1, <1>2, <1>3, <1>5 DEF Ep0Irq, Handle, u
<1>6. QED
  BY <1>4, <1>5

(* The status stage takes over the address.                                 *)
Adopted(s) ==
  IF s.ep0.stage = "STATUSIN" /\ s.ep0.setAddress
  THEN [s EXCEPT !.ep0.setAddress = FALSE, !.faddr = s.ep0.address] ELSE s

LEMMA AdoptedFacts ==
  ASSUME NEW s \in States
  PROVE  LET a == Adopted(s)
         IN  /\ a \in States /\ a.csr = s.csr /\ a.fifo = s.fifo /\ a.req = s.req
             /\ a.config = s.config /\ a.fn = s.fn
             /\ a.faddr = (IF s.ep0.stage = "STATUSIN" /\ s.ep0.setAddress THEN s.ep0.address
                           ELSE s.faddr)
             /\ a.ep0.stage = s.ep0.stage /\ a.ep0.ackpend = s.ep0.ackpend
<1>1. CASE s.ep0.stage = "STATUSIN" /\ s.ep0.setAddress
  <2> DEFINE no == FALSE
             x == s.ep0.address
             e == [s.ep0 EXCEPT !.setAddress = no]
             t == [s EXCEPT !.ep0 = e, !.faddr = x]
  <2>1. no \in BOOLEAN /\ x \in Nat
    BY StateFacts DEF Ep0States
  <2>2. Adopted(s) = t
    BY <1>1 DEF Adopted, States
  <2> HIDE DEF no, x
  <2>3. e \in Ep0States /\ e.stage = s.ep0.stage /\ e.ackpend = s.ep0.ackpend
    BY <2>1, StateFacts DEF Ep0States
  <2> HIDE DEF e
  <2>4. /\ t \in States /\ t.csr = s.csr /\ t.fifo = s.fifo /\ t.faddr = x
        /\ t.req = s.req /\ t.config = s.config /\ t.fn = s.fn /\ t.ep0 = e
    BY <2>1, <2>3 DEF States
  <2> HIDE DEF t
  <2>5. QED
    BY <1>1, <2>2, <2>3, <2>4 DEF x
<1>2. CASE ~(s.ep0.stage = "STATUSIN" /\ s.ep0.setAddress)
  <2>1. Adopted(s) = s
    BY <1>2 DEF Adopted
  <2>2. QED
    BY <1>2, <2>1
<1>3. QED
  BY <1>1, <1>2

LEMMA StatusFacts ==
  ASSUME NEW s \in States, FnOk(s.fn), ReqOk(s.req)
  PROVE  LET g == Rid(Adopted(s))
         IN  /\ Status(s) = IF "RXPKTRDY" \in s.csr THEN Setup(g) ELSE Staged(g, "IDLE")
             /\ g \in States /\ FnOk(g.fn) /\ SameDevice(s.fn, g.fn) /\ ReqOk(g.req)
             /\ MuteKept(s, g) /\ g.req.listed = FALSE
             /\ g.csr = s.csr /\ g.fifo = s.fifo /\ g.config = s.config
             /\ g.ep0.ackpend = s.ep0.ackpend
             /\ g.faddr = IF s.ep0.stage = "STATUSIN" /\ s.ep0.setAddress THEN s.ep0.address
                          ELSE s.faddr
<1> DEFINE a == Adopted(s)
           g == Rid(a)
<1>1. Status(s) = IF "RXPKTRDY" \in s.csr THEN Setup(g) ELSE Staged(g, "IDLE")
  BY Zenon DEF Status, Adopted, Rid, Staged
<1>2. /\ a \in States /\ a.csr = s.csr /\ a.fifo = s.fifo /\ a.req = s.req
      /\ a.config = s.config /\ a.fn = s.fn
      /\ a.faddr = (IF s.ep0.stage = "STATUSIN" /\ s.ep0.setAddress THEN s.ep0.address
                    ELSE s.faddr)
      /\ a.ep0.stage = s.ep0.stage /\ a.ep0.ackpend = s.ep0.ackpend
  BY AdoptedFacts
<1> HIDE DEF a
<1>3. /\ g \in States /\ FnOk(g.fn) /\ SameDevice(a.fn, g.fn)
      /\ MuteKept(a, g) /\ g.req.listed = FALSE
      /\ g.csr = a.csr /\ g.fifo = a.fifo /\ g.faddr = a.faddr
      /\ g.ep0 = a.ep0 /\ g.config = a.config /\ ReqOk(g.req)
  BY <1>2, RidFacts
<1> HIDE DEF g
<1>4. MuteKept(s, g)
  BY <1>2, <1>3 DEF MuteKept, Pending
<1>5. QED
  BY <1>1, <1>2, <1>3, <1>4 DEF g, a
(* Between transfers the handler takes over the address and gives back what *)
(* is left.                                                                 *)
LEMMA IdleIrq ==
  ASSUME NEW s0, Rest(s0), Idle(s0, TRUE), Allowed(s0.fn)
  PROVE  Rest(Ep0Irq(s0)) /\ Idle(Ep0Irq(s0), FALSE) /\ Allowed(Ep0Irq(s0).fn)
<1> DEFINE s == Cleared(s0)
           t == Ep0Irq(s0)
<1>1. /\ s0 \in States /\ FnOk(s0.fn) /\ ReqOk(s0.req) /\ s0.ep0.ackpend = {}
      /\ s0.ep0.stage # "ACKWAIT" /\ ("SENTSTALL" \in s0.csr => s0.ep0.stage = "IDLE")
      /\ s0.csr \subseteq {"SENTSTALL", "SETUPEND"} /\ s0.ep0.stage # "RX"
      /\ (s0.ep0.stage = "TX" => "SETUPEND" \in s0.csr)
  BY DEF Rest, Idle
<1>2. s0.ep0.stage \in Stages
  BY <1>1, StateFacts DEF Ep0States
<1>3. /\ s \in States /\ s.csr = s0.csr \ {"SENTSTALL", "SETUPEND"} /\ s.faddr = s0.faddr
      /\ s.req = s0.req /\ s.config = s0.config /\ s.fn = s0.fn
      /\ s.ep0.stage = (IF "SETUPEND" \in s0.csr THEN EndedStage(s0.ep0.stage)
                        ELSE s0.ep0.stage)
      /\ s.ep0.ackpend = s0.ep0.ackpend
      /\ s.ep0.setAddress = s0.ep0.setAddress /\ s.ep0.address = s0.ep0.address
  BY <1>1, ClearedFacts
<1> HIDE DEF s
<1>4. s.csr = {} /\ s.ep0.stage \in {"IDLE", "SETUP", "STATUSIN", "STATUSOUT"}
  BY <1>1, <1>2, <1>3 DEF EndedStage, Stages
<1>5. s.ep0.stage = "STATUSIN" <=> s0.ep0.stage = "STATUSIN"
  BY <1>1, <1>3 DEF EndedStage
<1>6. t = Handle(s)
  BY <1>1, <1>4, Ep0IrqIs DEF s, Stages
<1>10. MuteInDoubt(s0) /\ MuteInDoubt(s)
  BY <1>3 DEF Idle, MuteInDoubt, Pending
<1>7. CASE s.ep0.stage \in {"IDLE", "SETUP"}
  <2> DEFINE e == "SETUP"
             u == Staged(s, e)
  <2>1. e \in Stages
    BY DEF Stages
  <2>2. t = Setup(Staged(s, "SETUP"))
    BY <1>6, <1>7 DEF Handle
  <2> HIDE DEF e
  <2>3. /\ u \in States /\ u.csr = s.csr /\ u.faddr = s.faddr
        /\ u.req = s.req /\ u.config = s.config /\ u.fn = s.fn
        /\ u.ep0.stage = e /\ u.ep0.ackpend = s.ep0.ackpend
    BY <1>3, <2>1, StagedFacts
  <2>4. t = Setup(u)
    BY <2>2 DEF e
  <2> HIDE DEF u
  <2>5. t = u
    BY <1>4, <2>3, <2>4 DEF Setup
  <2>6. u.ep0.stage = "SETUP"
    BY <2>3 DEF e
  <2>7. u.csr = {}
    BY <1>4, <2>3
  <2>8. Rest(t)
    BY <1>1, <1>3, <2>3, <2>5, <2>6, <2>7 DEF Rest
  <2>9. Addressed(t, belief.addr)
    <3>1. s0.ep0.stage # "STATUSIN"
      BY <1>5, <1>7
    <3>2. s0.faddr = belief.addr
      BY <3>1 DEF Idle, Addressed
    <3>3. QED
      BY <1>3, <2>3, <2>5, <2>6, <3>2 DEF Addressed
  <2>10. Match(t.fn, t.config, belief)
    BY <1>3, <2>3, <2>5 DEF Idle
  <2>11. Allowed(t.fn)
    BY <1>3, <2>3, <2>5
  <2>12. MuteInDoubt(t)
    BY <1>10, <2>3, <2>5 DEF MuteInDoubt, Pending
  <2>13. QED
    BY <2>5, <2>6, <2>7, <2>8, <2>9, <2>10, <2>11, <2>12 DEF Idle
<1>8. CASE s.ep0.stage \in {"STATUSIN", "STATUSOUT"}
  <2> DEFINE g == Rid(Adopted(s))
             e == "IDLE"
             u == Staged(g, e)
  <2>1. e \in Stages
    BY DEF Stages
  <2>2. t = Status(s)
    BY <1>6, <1>8 DEF Handle
  <2>3. FnOk(s.fn) /\ ReqOk(s.req)
    BY <1>1, <1>3
  <2>4. /\ Status(s) = IF "RXPKTRDY" \in s.csr THEN Setup(g) ELSE Staged(g, "IDLE")
        /\ g \in States /\ FnOk(g.fn) /\ SameDevice(s.fn, g.fn) /\ ReqOk(g.req)
        /\ MuteKept(s, g) /\ g.req.listed = FALSE
        /\ g.csr = s.csr /\ g.fifo = s.fifo /\ g.config = s.config
        /\ g.ep0.ackpend = s.ep0.ackpend
        /\ g.faddr = IF s.ep0.stage = "STATUSIN" /\ s.ep0.setAddress THEN s.ep0.address
                     ELSE s.faddr
    BY <1>3, <2>3, StatusFacts
  <2> HIDE DEF g
  <2>5. t = Staged(g, "IDLE")
    BY <1>4, <2>2, <2>4
  <2> HIDE DEF e
  <2>6. /\ u \in States /\ u.csr = g.csr /\ u.faddr = g.faddr
        /\ u.req = g.req /\ u.config = g.config /\ u.fn = g.fn
        /\ u.ep0.stage = e /\ u.ep0.ackpend = g.ep0.ackpend
    BY <2>1, <2>4, StagedFacts
  <2>7. t = u
    BY <2>5 DEF e
  <2> HIDE DEF u
  <2>8. u.ep0.stage = "IDLE"
    BY <2>6 DEF e
  <2>9. u.csr = {}
    BY <1>4, <2>4, <2>6
  <2>10. Rest(t)
    BY <1>1, <1>3, <2>4, <2>6, <2>7, <2>8, <2>9 DEF Rest
  <2>11. Addressed(t, belief.addr)
    <3>1. Addressed(s0, belief.addr)
      BY DEF Idle
    <3>2. g.faddr = belief.addr
      BY <1>3, <1>5, <2>4, <3>1 DEF Addressed
    <3>3. QED
      BY <2>6, <2>7, <2>8, <3>2 DEF Addressed
  <2>12. Match(t.fn, t.config, belief)
    <3>1. Match(s.fn, s.config, belief)
      BY <1>3 DEF Idle
    <3>2. g.fn.mute = s.fn.mute \/ belief.mute = Unknown
      BY <1>10, <2>4 DEF MuteKept, MuteInDoubt
    <3>3. Match(g.fn, s.config, belief)
      BY <2>3, <2>4, <3>1, <3>2, MatchSame
    <3>4. QED
      BY <2>4, <2>6, <2>7, <3>3
  <2>13. Allowed(t.fn)
    BY <1>3, <2>4, <2>6, <2>7, AllowedSame DEF SameDevice
  <2>14. MuteInDoubt(t)
    BY <2>4, <2>6, <2>7 DEF MuteInDoubt, Pending
  <2>15. QED
    BY <2>7, <2>8, <2>9, <2>10, <2>11, <2>12, <2>13, <2>14 DEF Idle
<1>9. QED
  BY <1>4, <1>7, <1>8

(* Whatever stage the driver was in, a SETUP packet is served.              *)
LEMMA AskedIrq ==
  ASSUME host \in Transfers, belief \in Beliefs,
         NEW s0, Rest(s0), Busy(s0), Asked(s0, TRUE), fn \in FnStates, Allowed(s0.fn)
  PROVE  Outcome(Ep0Irq(s0))
<1> DEFINE s == Cleared(s0)
           t == Ep0Irq(s0)
<1>0. Started
  <2> DEFINE r == host.r
             x == IF host.r.len = 0 THEN "status" ELSE "data"
             h == [NoXfer EXCEPT !.stage = x, !.r = r]
  <2>1. host = h
    BY DEF Asked
  <2> HIDE DEF r, x
  <2>2. h.n = 0 /\ h.vals = {} /\ h.stage = x
    BY DEF NoXfer
  <2> HIDE DEF h
  <2>3. host.n = 0 /\ host.vals = {} /\ host.stage = x
    BY <2>1, <2>2
  <2>4. QED
    BY <2>3 DEF Started, Busy, x
<1>1. /\ s0 \in States /\ FnOk(s0.fn) /\ ReqOk(s0.req) /\ s0.ep0.ackpend = {}
      /\ s0.ep0.stage # "ACKWAIT" /\ ("SENTSTALL" \in s0.csr => s0.ep0.stage = "IDLE")
      /\ s0.csr \subseteq {"RXPKTRDY", "SENTSTALL", "SETUPEND"} /\ "RXPKTRDY" \in s0.csr
      /\ s0.fifo.n = 8 /\ s0.fifo.r = host.r
      /\ (s0.ep0.stage \in {"TX", "RX"} => "SETUPEND" \in s0.csr)
      /\ (s0.ep0.stage = "RX" => ~s0.ep0.setAddress)
      /\ Match(s0.fn, s0.config, belief)
  BY DEF Rest, Asked
<1>2. s0.ep0.stage \in Stages
  BY <1>1, StateFacts DEF Ep0States
<1>3. /\ s \in States /\ s.csr = s0.csr \ {"SENTSTALL", "SETUPEND"} /\ s.fifo = s0.fifo
      /\ s.faddr = s0.faddr /\ s.req = s0.req /\ s.config = s0.config /\ s.fn = s0.fn
      /\ s.ep0.stage = (IF "SETUPEND" \in s0.csr THEN EndedStage(s0.ep0.stage)
                        ELSE s0.ep0.stage)
      /\ s.ep0.ackpend = s0.ep0.ackpend
      /\ s.ep0.setAddress = s0.ep0.setAddress /\ s.ep0.address = s0.ep0.address
  BY <1>1, ClearedFacts
<1> HIDE DEF s
<1>4. s.csr = {"RXPKTRDY"} /\ s.ep0.stage \in {"IDLE", "SETUP", "STATUSIN", "STATUSOUT"}
  BY <1>1, <1>2, <1>3 DEF EndedStage, Stages
<1>5. /\ s0.ep0.stage = "STATUSIN" => s.ep0.stage = "STATUSIN"
      /\ s.ep0.stage = "STATUSIN" /\ s.ep0.setAddress => s0.ep0.stage = "STATUSIN"
  BY <1>1, <1>2, <1>3 DEF EndedStage, Stages
<1>6. t = Handle(s)
  BY <1>1, <1>4, Ep0IrqIs DEF s, Stages
<1>7. s0.faddr = belief.addr
  BY DEF Busy
<1>8. Addressed(s0, belief.addr)
  BY DEF Asked
<1>12. MuteInDoubt(s)
  BY <1>3 DEF Asked, MuteInDoubt, Pending
<1>9. CASE s.ep0.stage \in {"IDLE", "SETUP"}
  <2> DEFINE e == "SETUP"
             u == Staged(s, e)
  <2>1. e \in Stages
    BY DEF Stages
  <2>2. t = Setup(u)
    BY <1>6, <1>9 DEF Handle
  <2> HIDE DEF e
  <2>3. /\ u \in States /\ u.csr = s.csr /\ u.fifo = s.fifo /\ u.faddr = s.faddr
        /\ u.req = s.req /\ u.config = s.config /\ u.fn = s.fn
    BY <1>3, <2>1, StagedFacts
  <2> HIDE DEF u
  <2>4. t = DoSetup(u)
    <3>1. "RXPKTRDY" \in u.csr /\ u.fifo.n = 8
      BY <1>1, <1>3, <1>4, <2>3
    <3>2. QED
      BY <2>2, <3>1 DEF Setup
  <2>5. Fresh(u) /\ u.fifo.r = host.r /\ u.faddr = belief.addr
    BY <1>1, <1>3, <1>4, <1>7, <2>3 DEF Fresh
  <2>6. Match(u.fn, u.config, belief) /\ Allowed(u.fn)
    BY <1>1, <1>3, <2>3
  <2>7. MuteInDoubt(u)
    BY <1>12, <2>3 DEF MuteInDoubt, Pending
  <2>8. QED
    BY <1>0, <2>4, <2>5, <2>6, <2>7, DoSetupOutcome
<1>10. CASE s.ep0.stage \in {"STATUSIN", "STATUSOUT"}
  <2> DEFINE g == Rid(Adopted(s))
  <2>1. t = Status(s)
    BY <1>6, <1>10 DEF Handle
  <2>2. FnOk(s.fn) /\ ReqOk(s.req)
    BY <1>1, <1>3
  <2>3. /\ Status(s) = IF "RXPKTRDY" \in s.csr THEN Setup(g) ELSE Staged(g, "IDLE")
        /\ g \in States /\ FnOk(g.fn) /\ SameDevice(s.fn, g.fn) /\ ReqOk(g.req)
        /\ MuteKept(s, g) /\ g.req.listed = FALSE
        /\ g.csr = s.csr /\ g.fifo = s.fifo /\ g.config = s.config
        /\ g.faddr = IF s.ep0.stage = "STATUSIN" /\ s.ep0.setAddress THEN s.ep0.address
                     ELSE s.faddr
    BY <1>3, <2>2, StatusFacts
  <2> HIDE DEF g
  <2>4. t = DoSetup(g)
    <3>1. "RXPKTRDY" \in s.csr /\ "RXPKTRDY" \in g.csr /\ g.fifo.n = 8
      BY <1>1, <1>3, <1>4, <2>3
    <3>2. QED
      BY <2>1, <2>3, <3>1 DEF Setup
  <2>5. g.faddr = belief.addr
    BY <1>3, <1>5, <1>7, <1>8, <2>3 DEF Addressed
  <2>6. Fresh(g) /\ g.fifo.r = host.r
    BY <1>1, <1>3, <1>4, <2>3 DEF Fresh
  <2>7. Match(g.fn, g.config, belief)
    <3>1. Match(s.fn, s.config, belief)
      BY <1>1, <1>3
    <3>2. g.fn.mute = s.fn.mute \/ belief.mute = Unknown
      BY <1>12, <2>3 DEF MuteKept, MuteInDoubt
    <3>3. Match(g.fn, s.config, belief)
      BY <2>2, <2>3, <3>1, <3>2, MatchSame
    <3>4. QED
      BY <2>3, <3>3
  <2>8. Allowed(g.fn)
    BY <1>3, <2>3, AllowedSame DEF SameDevice
  <2>9. MuteInDoubt(g)
    BY <2>3 DEF MuteInDoubt, Pending
  <2>10. QED
    BY <1>0, <2>4, <2>5, <2>6, <2>7, <2>8, <2>9, DoSetupOutcome
<1>11. QED
  BY <1>4, <1>9, <1>10
(* The next packet of an answer.                                            *)
LEMMA SendingIrq ==
  ASSUME host \in Transfers, NEW s0, Rest(s0), Busy(s0), Sending(s0, TRUE),
         Allowed(s0.fn)
  PROVE  Outcome(Ep0Irq(s0))
<1> DEFINE s == Cleared(s0)
           t == Ep0Irq(s0)
           n == Least(Ep0Fifo, s.req.len - s.req.actual)
<1>1. /\ s0 \in States /\ FnOk(s0.fn) /\ ReqOk(s0.req) /\ s0.ep0.ackpend = {}
      /\ ("SENTSTALL" \in s0.csr => s0.ep0.stage = "IDLE")
      /\ s0.ep0.stage = "TX" /\ s0.csr = {} /\ host.n = s0.req.actual
      /\ s0.req.listed = TRUE /\ s0.req.complete = "setup"
      /\ s0.req.len = ToRead /\ s0.req.zero = (s0.req.len < host.r.len)
      /\ host.r.in /\ host.stage = "data" /\ ReadSoFar /\ Known(Answer(host.r), s0.req.buf)
      /\ Match(s0.fn, s0.config, belief)
  BY DEF Rest, Sending
<1>2. /\ s \in States /\ s.csr = s0.csr \ {"SENTSTALL", "SETUPEND"} /\ s.faddr = s0.faddr
      /\ s.req = s0.req /\ s.config = s0.config /\ s.fn = s0.fn
      /\ s.ep0.stage = (IF "SETUPEND" \in s0.csr THEN EndedStage(s0.ep0.stage)
                        ELSE s0.ep0.stage)
      /\ s.ep0.ackpend = s0.ep0.ackpend
  BY <1>1, ClearedFacts
<1> HIDE DEF s
<1>3. s.csr = {} /\ s.ep0.stage = "TX"
  BY <1>1, <1>2
<1>4. t = TxState(s)
  <2>1. t = Handle(s)
    BY <1>1, <1>3, Ep0IrqIs DEF s, Stages
  <2>2. QED
    BY <1>3, <2>1 DEF Handle
<1>5. Loaded(s, t)
  BY <1>1, <1>2, <1>4, TxStateFacts
<1> HIDE DEF t
<1>6. /\ t \in States /\ t.faddr = belief.addr /\ t.config = s0.config /\ t.fn = s0.fn
      /\ t.ep0.ackpend = {} /\ ReqOk(t.req) /\ t.req.len = s.req.len
      /\ t.req.complete = "setup" /\ t.fifo.n = n /\ t.fifo.val = s0.req.buf
      /\ t.req.actual = s.req.actual + n
  BY <1>1, <1>2, <1>5 DEF Loaded, Busy
<1>7. /\ s.req.len \in Nat /\ s.req.actual \in Nat /\ s.req.actual <= s.req.len
      /\ host.n = s.req.actual /\ s.req.len = ToRead /\ host.r.len \in Nat
      /\ s.req.zero = (s.req.len < host.r.len)
  BY <1>1, <1>2 DEF ReqOk, ReqStates, Transfers, Requests
<1>8. s.req.len <= host.r.len
  BY <1>7 DEF ToRead, Least
<1>9. /\ FnOk(t.fn) /\ Match(t.fn, t.config, belief) /\ ReadSoFar
      /\ Known(Answer(host.r), t.fifo.val)
  BY <1>1, <1>6
<1> HIDE DEF n
<1>10. CASE TxEnds(s)
  <2>1. /\ t.ep0.stage = "STATUSOUT" /\ t.req.listed = FALSE
        /\ t.csr = (s.csr \ {"SENTSTALL"}) \cup {"TXPKTRDY", "DATAEND"}
    BY <1>5, <1>10 DEF Loaded
  <2>2. t.csr = {"TXPKTRDY", "DATAEND"}
    BY <1>3, <2>1
  <2>3. n = s.req.len - s.req.actual /\ (n < Ep0Fifo \/ s.req.len = host.r.len)
    <3> DEFINE m == s.req.len - s.req.actual
    <3>1. m < Ep0Fifo \/ (m = Ep0Fifo /\ ~s.req.zero)
      BY <1>10, Zenon DEF TxEnds
    <3>2. ~s.req.zero => ~(s.req.len < host.r.len)
      BY <1>7, Zenon
    <3>3. m < Ep0Fifo \/ (m = Ep0Fifo /\ s.req.len = host.r.len)
      BY <1>7, <1>8, <3>1, <3>2
    <3>4. QED
      BY <1>7, <3>3 DEF Least, Ep0Fifo, n
  <2>4. host.n + t.fifo.n = ToRead /\ (t.fifo.n < Ep0Fifo \/ ToRead = host.r.len)
    BY <1>6, <1>7, <2>3
  <2>5. LastSent(t, FALSE)
    BY <1>1, <1>9, <2>1, <2>2, <2>4 DEF LastSent
  <2>6. Rest(t)
    BY <1>6, <1>9, <2>1, <2>2 DEF Rest
  <2>7. QED
    BY <1>6, <2>5, <2>6 DEF Outcome, Answered, t
<1>11. CASE ~TxEnds(s)
  <2>1. /\ t.ep0.stage = s.ep0.stage /\ t.req.listed = TRUE /\ t.req.zero = s.req.zero
        /\ t.req.buf = s.req.buf /\ t.csr = (s.csr \ {"SENTSTALL"}) \cup {"TXPKTRDY"}
    BY <1>5, <1>11 DEF Loaded
  <2>2. t.csr = {"TXPKTRDY"} /\ t.ep0.stage = "TX"
    BY <1>3, <2>1
  <2>3. n = Ep0Fifo /\ (s.req.actual + n = s.req.len => s.req.zero)
    BY <1>7, <1>11 DEF TxEnds, Least, Ep0Fifo, n
  <2>4. /\ t.req.len = ToRead /\ t.req.zero = (t.req.len < host.r.len)
        /\ (t.req.actual = t.req.len => t.req.zero)
        /\ t.fifo.n = Ep0Fifo /\ host.n + Ep0Fifo = t.req.actual
    BY <1>6, <1>7, <2>1, <2>3
  <2>5. t.fifo.val = t.req.buf /\ Known(Answer(host.r), t.req.buf)
    BY <1>1, <1>2, <1>6, <2>1
  <2>6. Sending(t, FALSE)
    BY <1>1, <1>6, <1>9, <2>1, <2>2, <2>4, <2>5 DEF Sending
  <2>7. Rest(t)
    BY <1>6, <1>9, <2>2 DEF Rest
  <2>8. QED
    BY <1>6, <2>6, <2>7 DEF Outcome, Answered, t
<1>12. QED
  BY <1>10, <1>11

(* The last packet was taken before the interrupt was served: DATAEND tells *)
(* the handler that there is nothing to do.                                 *)
LEMMA LastSentIrq ==
  ASSUME NEW s0, Rest(s0), Busy(s0), LastSent(s0, TRUE), Allowed(s0.fn)
  PROVE  Outcome(Ep0Irq(s0))
<1>1. s0.csr = {"DATAEND"} /\ host.stage = "status"
  BY DEF LastSent
<1>2. LastSent(s0, FALSE)
  BY <1>1 DEF LastSent
<1>3. Ep0Irq(s0) = s0
  BY <1>1 DEF Ep0Irq
<1>4. QED
  BY <1>2, <1>3 DEF Outcome, Answered, Busy
(* The value a host has sent is written by the completion callback.         *)
Statuses == {"0", "-EINPROGRESS", "-EOVERFLOW"}
Received(s, b, n, x) == [s EXCEPT !.req.buf = b, !.req.actual = n, !.req.status = x]
LEMMA ReceivedFacts ==
  ASSUME NEW s \in States, NEW b \in Nat, NEW n \in Nat, NEW x \in Statuses,
         NEW t, t = Received(s, b, n, x)
  PROVE  /\ t \in States /\ t.csr = s.csr /\ t.fifo = s.fifo /\ t.faddr = s.faddr
         /\ t.ep0 = s.ep0 /\ t.config = s.config /\ t.fn = s.fn
         /\ t.req \in ReqStates /\ t.req.listed = s.req.listed /\ t.req.len = s.req.len
         /\ t.req.complete = s.req.complete /\ t.req.buf = b /\ t.req.actual = n
         /\ t.req.status = x
<1> DEFINE q == [s.req EXCEPT !.buf = b, !.actual = n, !.status = x]
           r == [s EXCEPT !.req = q]
<1>1. t = r
  BY DEF Received, States, ReqStates
<1>2. /\ q \in ReqStates /\ q.listed = s.req.listed /\ q.len = s.req.len
      /\ q.complete = s.req.complete /\ q.buf = b /\ q.actual = n /\ q.status = x
  BY StateFacts DEF ReqStates, Statuses
<1> HIDE DEF q
<1>3. /\ r \in States /\ r.csr = s.csr /\ r.fifo = s.fifo /\ r.faddr = s.faddr
      /\ r.ep0 = s.ep0 /\ r.config = s.config /\ r.fn = s.fn /\ r.req = q
  BY <1>2 DEF States
<1> HIDE DEF r
<1>4. QED
  BY <1>1, <1>2, <1>3

LEMMA RxStateIs ==
  ASSUME NEW s \in States, s.req.listed = TRUE, s.req.actual = 0, s.req.len = s.fifo.n,
         s.fifo.n \in 1 .. 4, s.req.status = "-EINPROGRESS"
  PROVE  RxState(s) = WriteCsr(Giveback(Staged(Received(s, s.fifo.val, s.fifo.n, "-EINPROGRESS"),
                                               "STATUSIN")),
                               {"SVDRXPKTRDY", "DATAEND"})
<1> DEFINE room == s.req.len - s.req.actual
           n == Least(s.fifo.n, room)
           b == IF n > 0 THEN s.fifo.val ELSE s.req.buf
           a == s.req.actual + n
           x == IF s.fifo.n > room THEN "-EOVERFLOW" ELSE s.req.status
           t == [s EXCEPT !.req.buf = b, !.req.actual = a, !.req.status = x]
<1>1. room = s.fifo.n /\ n = s.fifo.n /\ b = s.fifo.val /\ a = s.fifo.n /\ x = "-EINPROGRESS"
  BY DEF Least
<1>2. n < Ep0Fifo \/ n = room
  BY <1>1
<1>3. RxState(s) = WriteCsr(Giveback([t EXCEPT !.ep0.stage = "STATUSIN"]), {"SVDRXPKTRDY", "DATAEND"})
  <2> DEFINE t0 == [s EXCEPT !.req.buf = IF n > 0 THEN s.fifo.val ELSE @,
                             !.req.actual = @ + n,
                             !.req.status = IF s.fifo.n > room THEN "-EOVERFLOW" ELSE @]
  <2>1. t0 = t
    BY DEF States, ReqStates
  <2>2. RxState(s) = WriteCsr(Giveback([t0 EXCEPT !.ep0.stage = "STATUSIN"]),
                              {"SVDRXPKTRDY", "DATAEND"})
    <3>1. s.req.listed /\ ~(n = Ep0Fifo /\ n # room)
      BY <1>1 DEF Ep0Fifo
    <3>2. QED
      BY <1>2, <3>1, Zenon DEF RxState
  <2> HIDE DEF t, t0
  <2>3. QED
    BY <2>1, <2>2
<1> HIDE DEF room, n, b, a, x
<1>4. t = Received(s, b, a, x)
  BY DEF Received
<1> HIDE DEF t
<1>5. [t EXCEPT !.ep0.stage = "STATUSIN"] = Staged(t, "STATUSIN")
  BY DEF Staged
<1>6. QED
  BY <1>1, <1>3, <1>4, <1>5

WithFn(s, f) == [s EXCEPT !.fn = f]
LEMMA WithFnFacts ==
  ASSUME NEW s \in States, NEW f \in FnStates
  PROVE  LET t == WithFn(s, f)
         IN  /\ t \in States /\ t.csr = s.csr /\ t.fifo = s.fifo /\ t.faddr = s.faddr
             /\ t.ep0 = s.ep0 /\ t.req = s.req /\ t.config = s.config /\ t.fn = f
BY DEF States, WithFn

(* A rate is set in the setting that does not stream.                       *)
RateSet(f, i, v) == IF i = InClk THEN [f EXCEPT !.pRate = v] ELSE [f EXCEPT !.cRate = v]
LEMMA RateSetFacts ==
  ASSUME NEW f, FnOk(f), NEW i \in {OutClk, InClk}, NEW v,
         i = OutClk => f.outAlt = 0 /\ v \in Elements(CRates),
         i = InClk => v \in Elements(PRates)
  PROVE  LET g == RateSet(f, i, v)
         IN  /\ FnOk(g) /\ g.outAlt = f.outAlt /\ g.inAlt = f.inAlt /\ g.halt = f.halt
             /\ g.cRate = (IF i = OutClk THEN v ELSE f.cRate)
             /\ g.pRate = (IF i = InClk THEN v ELSE f.pRate) /\ g.volume = f.volume
             /\ g.mute = f.mute
<1>0. OutClk # InClk
  BY DEF OutClk, InClk
<1>1. f \in FnStates
  BY DEF FnOk
<1>2. CASE i = InClk
  <2> DEFINE g == [f EXCEPT !.pRate = v]
  <2>1. v \in Elements(PRates) /\ v \in Nat
    BY <1>2, RateSets
  <2>2. /\ g \in FnStates /\ g.pRate = v /\ g.cRate = f.cRate /\ g.outAlt = f.outAlt
        /\ g.inAlt = f.inAlt /\ g.outOn = f.outOn /\ g.inOn = f.inOn /\ g.halt = f.halt
        /\ g.ch = f.ch /\ g.size = f.size /\ g.cMax = f.cMax /\ g.pMax = f.pMax
        /\ g.pPkt = f.pPkt /\ g.volume = f.volume /\ g.setCon = f.setCon /\ g.csId = f.csId
        /\ g.mute = f.mute
    BY <1>1, <2>1 DEF FnStates
  <2>3. RateSet(f, i, v) = g
    BY <1>2 DEF RateSet
  <2> HIDE DEF g
  <2>4. FnOk(g)
    BY <2>1, <2>2 DEF FnOk
  <2>5. QED
    BY <1>0, <1>2, <2>2, <2>3, <2>4
<1>3. CASE i = OutClk
  <2> DEFINE g == [f EXCEPT !.cRate = v]
  <2>1. v \in Elements(CRates) /\ v \in Nat /\ f.outAlt = 0
    BY <1>3, RateSets
  <2>2. /\ g \in FnStates /\ g.cRate = v /\ g.pRate = f.pRate /\ g.outAlt = f.outAlt
        /\ g.inAlt = f.inAlt /\ g.outOn = f.outOn /\ g.inOn = f.inOn /\ g.halt = f.halt
        /\ g.ch = f.ch /\ g.size = f.size /\ g.cMax = f.cMax /\ g.pMax = f.pMax
        /\ g.pPkt = f.pPkt /\ g.volume = f.volume /\ g.setCon = f.setCon /\ g.csId = f.csId
        /\ g.mute = f.mute
    BY <1>1, <2>1 DEF FnStates
  <2>3. RateSet(f, i, v) = g
    BY <1>0, <1>3 DEF RateSet
  <2> HIDE DEF g
  <2>4. f.outOn = FALSE
    BY <2>1, ZenonT(60) DEF FnOk
  <2>5. FnOk(g)
    BY <2>1, <2>2, <2>4 DEF FnOk
  <2>6. QED
    BY <1>0, <1>3, <2>2, <2>3, <2>5
<1>4. QED
  BY <1>2, <1>3

LEMMA SamFreqIs ==
  ASSUME NEW s \in States, s.req.actual = 4
  PROVE  SamFreqDone(s) = WithFn(s, RateSet(s.fn, s.fn.ctlId, s.req.buf))
<1> DEFINE v == s.req.buf
<1>1. SamFreqDone(s) = IF s.fn.ctlId = InClk THEN [s EXCEPT !.fn.pRate = v]
                       ELSE [s EXCEPT !.fn.cRate = v]
  BY DEF SamFreqDone
<1> HIDE DEF v
<1>2. [s EXCEPT !.fn.pRate = v] = [s EXCEPT !.fn = [s.fn EXCEPT !.pRate = v]]
  BY DEF States
<1>3. [s EXCEPT !.fn.cRate = v] = [s EXCEPT !.fn = [s.fn EXCEPT !.cRate = v]]
  BY DEF States
<1>4. CASE s.fn.ctlId = InClk
  BY <1>1, <1>2, <1>4 DEF WithFn, RateSet, v
<1>5. CASE s.fn.ctlId # InClk
  BY <1>1, <1>3, <1>5 DEF WithFn, RateSet, v
<1>6. QED
  BY <1>4, <1>5
Controls == {"mute", "volume"}
ControlSet(f, con, v) == SetControl([f EXCEPT !.setCon = "none"], con, v)
LEMMA ControlSetFacts ==
  ASSUME NEW f, FnOk(f), NEW con \in Controls, NEW v \in Nat
  PROVE  LET g == ControlSet(f, con, v)
         IN  /\ FnOk(g) /\ g.outAlt = f.outAlt /\ g.inAlt = f.inAlt /\ g.halt = f.halt
             /\ g.cRate = f.cRate /\ g.pRate = f.pRate
             /\ g.mute = (IF con = "mute" THEN v ELSE f.mute)
             /\ g.volume = (IF con = "mute" THEN f.volume ELSE v)
<1> DEFINE g == SetControl([f EXCEPT !.setCon = "none"], con, v)
<1>1. /\ FnOk(g) /\ g.outAlt = f.outAlt /\ g.inAlt = f.inAlt /\ g.halt = f.halt
      /\ g.cRate = f.cRate /\ g.pRate = f.pRate
      /\ g.mute = (IF con = "mute" THEN v ELSE f.mute)
      /\ g.volume = (IF con = "mute" THEN f.volume ELSE v)
  BY ControlFacts DEF Controls
<1>2. ControlSet(f, con, v) = g
  BY DEF ControlSet
<1> HIDE DEF g
<1>3. QED
  BY <1>1, <1>2

LEMMA FuControlIs ==
  ASSUME NEW s \in States, NEW con \in {"mute", "volume"}, s.fn.csId = con, s.fn.setCon = con,
         s.req.status = "0", con = "volume" => s.req.actual = 2
  PROVE  FuControlDone(s) = WithFn(s, ControlSet(s.fn, con, ControlData(s)))
<1> DEFINE d == ControlData(s)
<1>1. ~(s.fn.csId = "volume" /\ s.req.actual # 2) /\ ~(s.req.status # "0")
      /\ ~(s.fn.setCon = "none")
  OBVIOUS
<1>2. FuControlDone(s) = [s EXCEPT !.fn = SetControl([@ EXCEPT !.setCon = "none"], s.fn.setCon, d)]
  BY <1>1, Zenon DEF FuControlDone
<1> HIDE DEF d
<1>3. [s EXCEPT !.fn = SetControl([@ EXCEPT !.setCon = "none"], con, d)]
      = WithFn(s, ControlSet(s.fn, con, d))
  BY DEF WithFn, ControlSet, States
<1>4. QED
  BY <1>2, <1>3 DEF d

LEMMA VolumeFits ==
  ASSUME NEW v \in Nat, v < 65536 PROVE v % 65536 = v
OBVIOUS

(* The data a request of the host leaves.                                   *)
LEMMA ReceiveEnds ==
  ASSUME NEW v, v \in States, FnOk(v.fn), ReqOk(v.req), v.req.listed = FALSE,
         v.csr = {"RXPKTRDY"}, v.ep0.stage = "STATUSIN", v.ep0.ackpend = {},
         v.ep0.setAddress = FALSE, v.faddr = belief.addr,
         host.r.in = FALSE, host.stage = "status",
         Match(v.fn, v.config, AfterOk(belief, host.r)),
         AfterOk(belief, host.r).addr = belief.addr, Allowed(v.fn)
  PROVE  Outcome(WriteCsr(v, {"SVDRXPKTRDY", "DATAEND"}))
<1> DEFINE w == {"SVDRXPKTRDY", "DATAEND"}
           t == WriteCsr(v, w)
<1>1. w \in SUBSET {"SVDRXPKTRDY", "SVDSETUPEND", "TXPKTRDY", "DATAEND", "SENDSTALL"}
  OBVIOUS
<1>2. /\ t \in States
      /\ t.csr = (v.csr \ ({"SENTSTALL"} \cup (IF "SVDRXPKTRDY" \in w THEN {"RXPKTRDY"} ELSE {})
                                    \cup (IF "SVDSETUPEND" \in w THEN {"SETUPEND"} ELSE {})))
                 \cup (w \cap {"TXPKTRDY", "DATAEND", "SENDSTALL"})
      /\ t.faddr = v.faddr /\ t.ep0 = v.ep0 /\ t.req = v.req /\ t.config = v.config
      /\ t.fn = v.fn
  BY <1>1, WriteFacts
<1>3. t.csr = {"DATAEND"}
  BY <1>2
<1> HIDE DEF t
<1>4. Rest(t)
  BY <1>2, <1>3 DEF Rest
<1>5. Addressed(t, AfterOk(belief, host.r).addr)
  BY <1>2 DEF Addressed
<1>6. Done(t, FALSE)
  BY <1>2, <1>3, <1>5 DEF Done
<1>7. QED
  BY <1>2, <1>4, <1>6 DEF Outcome, Answered, t

(* SET_CUR, in the mind of the host.                                        *)
LEMMA BelieveSet ==
  ASSUME NEW b \in Beliefs, NEW r, r.name = "SET_CUR", SetRequest(r), NEW v
  PROVE  LET d == Believe(b, r, v)
         IN  /\ d.addr = b.addr /\ d.cfg = b.cfg /\ d.alt = b.alt /\ d.halted = b.halted
             /\ d.cRate = (IF r.sel = "sam_freq" /\ r.intf = OutClk THEN v ELSE b.cRate)
             /\ d.pRate = (IF r.sel = "sam_freq" /\ r.intf = InClk THEN v ELSE b.pRate)
             /\ d.volume = (IF r.sel = "volume" THEN v ELSE b.volume)
             /\ d.mute = (IF r.sel = "mute" THEN v ELSE b.mute)
<1>0. OutClk # InClk
  BY DEF OutClk, InClk
<1>2. CASE r.sel = "sam_freq" /\ r.intf = OutClk
  <2> DEFINE d == [b EXCEPT !.cRate = v]
  <2>1. Believe(b, r, v) = d
    BY <1>0, <1>2 DEF Believe, IsRate
  <2>2. /\ d.addr = b.addr /\ d.cfg = b.cfg /\ d.alt = b.alt /\ d.halted = b.halted
        /\ d.cRate = v /\ d.pRate = b.pRate /\ d.volume = b.volume /\ d.mute = b.mute
    BY DEF Beliefs
  <2> HIDE DEF d
  <2>3. QED
    BY <1>0, <1>2, <2>1, <2>2
<1>3. CASE r.sel = "sam_freq" /\ r.intf = InClk
  <2> DEFINE d == [b EXCEPT !.pRate = v]
  <2>1. Believe(b, r, v) = d
    BY <1>0, <1>3 DEF Believe, IsRate
  <2>2. /\ d.addr = b.addr /\ d.cfg = b.cfg /\ d.alt = b.alt /\ d.halted = b.halted
        /\ d.cRate = b.cRate /\ d.pRate = v /\ d.volume = b.volume /\ d.mute = b.mute
    BY DEF Beliefs
  <2> HIDE DEF d
  <2>3. QED
    BY <1>0, <1>3, <2>1, <2>2
<1>4. CASE r.sel = "mute"
  <2> DEFINE d == [b EXCEPT !.mute = v]
  <2>1. Believe(b, r, v) = d
    BY <1>4 DEF Believe, IsRate
  <2>2. /\ d.addr = b.addr /\ d.cfg = b.cfg /\ d.alt = b.alt /\ d.halted = b.halted
        /\ d.cRate = b.cRate /\ d.pRate = b.pRate /\ d.volume = b.volume /\ d.mute = v
    BY DEF Beliefs
  <2> HIDE DEF d
  <2>3. QED
    BY <1>4, <2>1, <2>2
<1>5. CASE r.sel = "volume"
  <2> DEFINE d == [b EXCEPT !.volume = v]
  <2>1. Believe(b, r, v) = d
    BY <1>5 DEF Believe, IsRate
  <2>2. /\ d.addr = b.addr /\ d.cfg = b.cfg /\ d.alt = b.alt /\ d.halted = b.halted
        /\ d.cRate = b.cRate /\ d.pRate = b.pRate /\ d.volume = v /\ d.mute = b.mute
    BY DEF Beliefs
  <2> HIDE DEF d
  <2>3. QED
    BY <1>5, <2>1, <2>2
<1>6. (r.sel = "sam_freq" /\ r.intf \in {OutClk, InClk}) \/ r.sel \in {"mute", "volume"}
  BY DEF SetRequest
<1>7. QED
  BY <1>2, <1>3, <1>4, <1>5, <1>6

LEMMA AfterSet ==
  ASSUME NEW b \in Beliefs, NEW r, r.name = "SET_CUR", SetRequest(r)
  PROVE  LET d == AfterOk(b, r)
         IN  /\ d.addr = b.addr /\ d.cfg = b.cfg /\ d.alt = b.alt /\ d.halted = b.halted
             /\ d.cRate = (IF r.sel = "sam_freq" /\ r.intf = OutClk THEN r.val ELSE b.cRate)
             /\ d.pRate = (IF r.sel = "sam_freq" /\ r.intf = InClk THEN r.val ELSE b.pRate)
             /\ d.volume = (IF r.sel = "volume" THEN r.val ELSE b.volume)
             /\ d.mute = (IF r.sel = "mute" THEN r.val ELSE b.mute)
<1>1. AfterOk(b, r) = Believe(b, r, r.val)
  BY DEF AfterOk
<1>2. QED
  BY <1>1, BelieveSet
(* The request when the value has arrived, about to be given back.          *)
Filed(s) == Staged(Received(s, s.fifo.val, s.fifo.n, "-EINPROGRESS"), "STATUSIN")
LEMMA FiledFacts ==
  ASSUME NEW s \in States, s.req.status = "-EINPROGRESS"
  PROVE  LET c == Completed(Filed(s))
         IN  /\ Giveback(Filed(s)) = IF s.req.complete = "sam_freq" THEN SamFreqDone(c)
                                     ELSE IF s.req.complete = "fu_control" THEN FuControlDone(c)
                                     ELSE c
             /\ c \in States /\ c.csr = s.csr /\ c.faddr = s.faddr /\ c.config = s.config
             /\ c.fn = s.fn /\ c.req \in ReqStates /\ c.req.listed = FALSE
             /\ c.req.len = s.req.len /\ c.req.actual = s.fifo.n /\ c.req.buf = s.fifo.val
             /\ c.req.status = "0" /\ c.ep0.stage = "STATUSIN"
             /\ c.ep0.ackpend = s.ep0.ackpend /\ c.ep0.setAddress = s.ep0.setAddress
<1> DEFINE x == "-EINPROGRESS"
           e == "STATUSIN"
           b == s.fifo.val
           n == s.fifo.n
           u == Received(s, b, n, x)
           p == Staged(u, e)
           c == Completed(p)
<1>1. b \in Nat /\ n \in Nat
  <2>1. s.fifo \in Fifos
    BY StateFacts
  <2>2. QED
    BY <2>1 DEF Fifos, Ep0Fifo
<1>2. x \in Statuses /\ e \in Stages
  BY DEF Stages, Statuses
<1>3. Filed(s) = p
  BY DEF Filed
<1> HIDE DEF x, e, b, n
<1>4. /\ u \in States /\ u.csr = s.csr /\ u.faddr = s.faddr
      /\ u.ep0 = s.ep0 /\ u.config = s.config /\ u.fn = s.fn
      /\ u.req \in ReqStates /\ u.req.listed = s.req.listed /\ u.req.len = s.req.len
      /\ u.req.complete = s.req.complete /\ u.req.buf = b /\ u.req.actual = n
      /\ u.req.status = x
  <2>1. u = Received(s, b, n, x)
    OBVIOUS
  <2> HIDE DEF u
  <2>2. QED
    BY <1>1, <1>2, <2>1, ReceivedFacts
<1> HIDE DEF u
<1>5. /\ p \in States /\ p.csr = u.csr /\ p.faddr = u.faddr /\ p.req = u.req
      /\ p.config = u.config /\ p.fn = u.fn /\ p.ep0.stage = e
      /\ p.ep0.ackpend = u.ep0.ackpend /\ p.ep0.setAddress = u.ep0.setAddress
  BY <1>2, <1>4, StagedFacts
<1> HIDE DEF p
<1>6. /\ c \in States /\ c.csr = p.csr /\ c.faddr = p.faddr
      /\ c.ep0 = p.ep0 /\ c.config = p.config /\ c.fn = p.fn
      /\ c.req \in ReqStates /\ c.req.listed = FALSE /\ c.req.len = p.req.len
      /\ c.req.actual = p.req.actual /\ c.req.complete = p.req.complete
      /\ c.req.buf = p.req.buf
      /\ c.req.status = (IF p.req.status = "-EINPROGRESS" THEN "0" ELSE p.req.status)
  BY <1>5, CompletedFacts
<1>7. Giveback(p) = IF p.req.complete = "sam_freq" THEN SamFreqDone(c)
                    ELSE IF p.req.complete = "fu_control" THEN FuControlDone(c) ELSE c
  BY <1>5, GivebackIs
<1> HIDE DEF c
<1>8. /\ c \in States /\ c.csr = s.csr /\ c.faddr = s.faddr /\ c.config = s.config
      /\ c.fn = s.fn /\ c.req \in ReqStates /\ c.req.listed = FALSE
      /\ c.req.len = s.req.len /\ c.req.actual = n /\ c.req.buf = b /\ c.ep0.stage = e
      /\ c.ep0.ackpend = s.ep0.ackpend /\ c.ep0.setAddress = s.ep0.setAddress
  BY <1>4, <1>5, <1>6
<1>9. c.req.status = "0"
  BY <1>4, <1>5, <1>6 DEF x
<1>10. Giveback(p) = IF s.req.complete = "sam_freq" THEN SamFreqDone(c)
                     ELSE IF s.req.complete = "fu_control" THEN FuControlDone(c) ELSE c
  BY <1>4, <1>5, <1>7
<1>11. c.req.actual = s.fifo.n /\ c.req.buf = s.fifo.val /\ c.ep0.stage = "STATUSIN"
  BY <1>8 DEF n, b, e
<1>12. c = Completed(Filed(s)) /\ Giveback(p) = Giveback(Filed(s))
  BY <1>3 DEF c
<1>13. QED
  BY <1>8, <1>9, <1>10, <1>11, <1>12

(* What SET_CUR leaves is what the host then believes.                      *)
LEMMA SetMatch ==
  ASSUME NEW b \in Beliefs, NEW f, FnOk(f), NEW c, Match(f, c, b), NEW r,
         r.name = "SET_CUR", SetRequest(r), NEW g, FnOk(g),
         g.outAlt = f.outAlt, g.inAlt = f.inAlt, g.halt = f.halt,
         g.cRate = IF r.sel = "sam_freq" /\ r.intf = OutClk THEN r.val ELSE f.cRate,
         g.pRate = IF r.sel = "sam_freq" /\ r.intf = InClk THEN r.val ELSE f.pRate,
         g.volume = IF r.sel = "volume" THEN r.val ELSE f.volume,
         g.mute = IF r.sel = "mute" THEN r.val ELSE f.mute
  PROVE  Match(g, c, AfterOk(b, r))
<1> DEFINE d == AfterOk(b, r)
<1>1. /\ d.cfg = b.cfg /\ d.alt = b.alt /\ d.halted = b.halted
      /\ d.cRate = (IF r.sel = "sam_freq" /\ r.intf = OutClk THEN r.val ELSE b.cRate)
      /\ d.pRate = (IF r.sel = "sam_freq" /\ r.intf = InClk THEN r.val ELSE b.pRate)
      /\ d.volume = (IF r.sel = "volume" THEN r.val ELSE b.volume)
      /\ d.mute = (IF r.sel = "mute" THEN r.val ELSE b.mute)
  BY AfterSet
<1> HIDE DEF d
<1>2. f.outOn = g.outOn /\ f.inOn = g.inOn
  BY DEF FnOk
<1>3. /\ Known(b.cRate, f.cRate) /\ Known(b.pRate, f.pRate)
      /\ Known(b.volume, f.volume) /\ Known(b.mute, f.mute)
  BY DEF Match
<1>4. Known(d.cRate, g.cRate)
  BY <1>1, <1>3 DEF Known
<1>5. Known(d.pRate, g.pRate)
  BY <1>1, <1>3 DEF Known
<1>6. Known(d.volume, g.volume)
  BY <1>1, <1>3 DEF Known
<1>7. Known(d.mute, g.mute)
  BY <1>1, <1>3 DEF Known
<1>8. QED
  BY <1>1, <1>2, <1>4, <1>5, <1>6, <1>7 DEF Match, d
(* The value of a rate ...                                                  *)
LEMMA RateGiven ==
  ASSUME belief \in Beliefs, Proper(host.r), MayAsk(host.r), SetRequest(host.r),
         host.r.sel = "sam_freq", NEW s, s \in States, FnOk(s.fn),
         s.req.status = "-EINPROGRESS", s.req.complete = "sam_freq",
         s.fn.ctlId = host.r.intf, s.fifo.n = host.r.len, s.fifo.val = host.r.val,
         Match(s.fn, s.config, belief)
  PROVE  LET v == Giveback(Filed(s))
         IN  /\ v \in States /\ v.csr = s.csr /\ v.faddr = s.faddr /\ v.config = s.config
             /\ v.req \in ReqStates /\ v.req.listed = FALSE /\ v.req.len = s.req.len
             /\ v.req.actual = s.fifo.n /\ v.ep0.stage = "STATUSIN"
             /\ v.ep0.ackpend = s.ep0.ackpend /\ v.ep0.setAddress = s.ep0.setAddress
             /\ FnOk(v.fn) /\ Match(v.fn, v.config, AfterOk(belief, host.r))
             /\ v.fn.volume = s.fn.volume
             /\ v.fn.cRate # s.fn.cRate => host.r.intf = OutClk /\ v.fn.cRate = host.r.val
             /\ v.fn.pRate # s.fn.pRate => host.r.intf = InClk /\ v.fn.pRate = host.r.val
<1> DEFINE r == host.r
           c == Completed(Filed(s))
           g == RateSet(s.fn, r.intf, r.val)
           v == WithFn(c, g)
<1>1. r.name = "SET_CUR" /\ IsRate(r) /\ belief.cfg = 1 /\ belief.alt[RateIntf(r)] = 0
  BY DEF SetRequest, MayAsk, IsRate
<1>2. /\ r.intf \in {OutClk, InClk} /\ r.len = 4
      /\ r.intf = OutClk => r.val \in Elements(CRates)
      /\ r.intf = InClk => r.val \in Elements(PRates)
  BY DEF SetRequest, OutClk, InClk
<1>3. r.intf = OutClk => s.fn.outAlt = 0
  <2>1. r.intf = OutClk => RateIntf(r) = OutIntf
    BY DEF RateIntf, OutClk, InClk
  <2>2. belief.alt[OutIntf] = s.fn.outAlt
    BY <1>1 DEF Match
  <2>3. QED
    BY <1>1, <2>1, <2>2
<1>4. /\ FnOk(g) /\ g.outAlt = s.fn.outAlt /\ g.inAlt = s.fn.inAlt /\ g.halt = s.fn.halt
      /\ g.cRate = (IF r.intf = OutClk THEN r.val ELSE s.fn.cRate)
      /\ g.pRate = (IF r.intf = InClk THEN r.val ELSE s.fn.pRate)
      /\ g.volume = s.fn.volume /\ g.mute = s.fn.mute
  BY <1>2, <1>3, RateSetFacts
<1>5. /\ Giveback(Filed(s)) = SamFreqDone(c)
      /\ c \in States /\ c.csr = s.csr /\ c.faddr = s.faddr /\ c.config = s.config
      /\ c.fn = s.fn /\ c.req \in ReqStates /\ c.req.listed = FALSE
      /\ c.req.len = s.req.len /\ c.req.actual = s.fifo.n /\ c.req.buf = s.fifo.val
      /\ c.ep0.stage = "STATUSIN"
      /\ c.ep0.ackpend = s.ep0.ackpend /\ c.ep0.setAddress = s.ep0.setAddress
  BY FiledFacts
<1> HIDE DEF c
<1>6. SamFreqDone(c) = v
  BY <1>2, <1>5, SamFreqIs
<1> HIDE DEF g
<1>7. g \in FnStates
  BY <1>4 DEF FnOk
<1>8. /\ v \in States /\ v.csr = c.csr /\ v.faddr = c.faddr
      /\ v.ep0 = c.ep0 /\ v.req = c.req /\ v.config = c.config /\ v.fn = g
  BY <1>5, <1>7, WithFnFacts
<1> HIDE DEF v
<1>9. Match(g, s.config, AfterOk(belief, r))
  <2>1. g.cRate = IF r.sel = "sam_freq" /\ r.intf = OutClk THEN r.val ELSE s.fn.cRate
    BY <1>4
  <2>2. g.pRate = IF r.sel = "sam_freq" /\ r.intf = InClk THEN r.val ELSE s.fn.pRate
    BY <1>4
  <2>3. g.volume = IF r.sel = "volume" THEN r.val ELSE s.fn.volume
    BY <1>4
  <2>4. g.mute = IF r.sel = "mute" THEN r.val ELSE s.fn.mute
    BY <1>4
  <2>5. QED
    BY <1>1, <1>4, <2>1, <2>2, <2>3, <2>4, SetMatch
<1>10. Match(v.fn, v.config, AfterOk(belief, r)) /\ FnOk(v.fn)
  BY <1>4, <1>5, <1>8, <1>9
<1>11. /\ v.fn.volume = s.fn.volume
       /\ v.fn.cRate # s.fn.cRate => r.intf = OutClk /\ v.fn.cRate = r.val
       /\ v.fn.pRate # s.fn.pRate => r.intf = InClk /\ v.fn.pRate = r.val
  BY <1>4, <1>8
<1>12. Giveback(Filed(s)) = v
  BY <1>5, <1>6
<1>13. QED
  BY <1>5, <1>8, <1>10, <1>11, <1>12

(* ... and of the volume or the mute control.                               *)
LEMMA ControlGiven ==
  ASSUME host \in Transfers, belief \in Beliefs, SetRequest(host.r),
         host.r.sel # "sam_freq", NEW s, s \in States, FnOk(s.fn),
         s.req.status = "-EINPROGRESS", s.req.complete = "fu_control",
         s.fn.csId = host.r.sel, s.fn.setCon = host.r.sel,
         s.fifo.n = host.r.len, s.fifo.val = host.r.val,
         Match(s.fn, s.config, belief)
  PROVE  LET v == Giveback(Filed(s))
         IN  /\ v \in States /\ v.csr = s.csr /\ v.faddr = s.faddr /\ v.config = s.config
             /\ v.req \in ReqStates /\ v.req.listed = FALSE /\ v.req.len = s.req.len
             /\ v.req.actual = s.fifo.n /\ v.ep0.stage = "STATUSIN"
             /\ v.ep0.ackpend = s.ep0.ackpend /\ v.ep0.setAddress = s.ep0.setAddress
             /\ FnOk(v.fn) /\ Match(v.fn, v.config, AfterOk(belief, host.r))
             /\ v.fn.cRate = s.fn.cRate /\ v.fn.pRate = s.fn.pRate
             /\ v.fn.volume # s.fn.volume => host.r.sel = "volume" /\ v.fn.volume = host.r.val
<1> DEFINE r == host.r
           c == Completed(Filed(s))
           d == ControlData(c)
           g == ControlSet(s.fn, r.sel, d)
           v == WithFn(c, g)
<1>1. /\ r.name = "SET_CUR" /\ r.sel \in {"mute", "volume"}
      /\ r.sel = "volume" => r.len = 2 /\ r.val < 65536
      /\ r.sel = "mute" => r.val \in {0, 1}
      /\ r.val \in Nat
  <2>1. r.val \in Nat
    BY DEF Transfers, Requests
  <2>2. QED
    BY <2>1 DEF SetRequest
<1>2. /\ Giveback(Filed(s)) = FuControlDone(c)
      /\ c \in States /\ c.csr = s.csr /\ c.faddr = s.faddr /\ c.config = s.config
      /\ c.fn = s.fn /\ c.req \in ReqStates /\ c.req.listed = FALSE
      /\ c.req.len = s.req.len /\ c.req.actual = s.fifo.n /\ c.req.buf = s.fifo.val
      /\ c.req.status = "0" /\ c.ep0.stage = "STATUSIN"
      /\ c.ep0.ackpend = s.ep0.ackpend /\ c.ep0.setAddress = s.ep0.setAddress
  BY FiledFacts
<1> HIDE DEF c
<1>3. d \in Nat /\ d = r.val
  <2>1. CASE r.sel = "mute"
    <3>1. d = r.val % 256
      BY <1>2, <2>1 DEF ControlData
    <3>2. QED
      BY <1>1, <2>1, <3>1
  <2>2. CASE r.sel = "volume"
    <3>1. d = r.val % 65536
      BY <1>2, <2>2 DEF ControlData
    <3>2. QED
      BY <1>1, <2>2, <3>1, VolumeFits
  <2>3. QED
    BY <1>1, <2>1, <2>2
<1>4. FuControlDone(c) = v
  <2>1. c.fn.csId = r.sel /\ c.fn.setCon = r.sel /\ (r.sel = "volume" => c.req.actual = 2)
    BY <1>1, <1>2
  <2>2. FuControlDone(c) = WithFn(c, ControlSet(c.fn, r.sel, ControlData(c)))
    BY <1>1, <1>2, <2>1, FuControlIs
  <2>3. QED
    BY <1>2, <2>2
<1> HIDE DEF d
<1>5. /\ FnOk(g) /\ g.outAlt = s.fn.outAlt /\ g.inAlt = s.fn.inAlt /\ g.halt = s.fn.halt
      /\ g.cRate = s.fn.cRate /\ g.pRate = s.fn.pRate
      /\ g.mute = (IF r.sel = "mute" THEN d ELSE s.fn.mute)
      /\ g.volume = (IF r.sel = "mute" THEN s.fn.volume ELSE d)
  <2>1. r.sel \in Controls
    BY <1>1 DEF Controls
  <2>2. QED
    BY <1>3, <2>1, ControlSetFacts
<1> HIDE DEF g
<1>6. g \in FnStates
  BY <1>5 DEF FnOk
<1>7. /\ v \in States /\ v.csr = c.csr /\ v.faddr = c.faddr
      /\ v.ep0 = c.ep0 /\ v.req = c.req /\ v.config = c.config /\ v.fn = g
  BY <1>2, <1>6, WithFnFacts
<1> HIDE DEF v
<1>8. g.volume = IF r.sel = "volume" THEN r.val ELSE s.fn.volume
  BY <1>1, <1>3, <1>5
<1>9. Match(g, s.config, AfterOk(belief, r))
  <2>1. g.cRate = IF r.sel = "sam_freq" /\ r.intf = OutClk THEN r.val ELSE s.fn.cRate
    BY <1>5
  <2>2. g.pRate = IF r.sel = "sam_freq" /\ r.intf = InClk THEN r.val ELSE s.fn.pRate
    BY <1>5
  <2>3. g.mute = IF r.sel = "mute" THEN r.val ELSE s.fn.mute
    BY <1>3, <1>5
  <2>4. QED
    BY <1>1, <1>5, <1>8, <2>1, <2>2, <2>3, SetMatch
<1>10. Match(v.fn, v.config, AfterOk(belief, r)) /\ FnOk(v.fn)
  BY <1>2, <1>5, <1>7, <1>9
<1>11. /\ v.fn.cRate = s.fn.cRate /\ v.fn.pRate = s.fn.pRate
       /\ v.fn.volume # s.fn.volume => r.sel = "volume" /\ v.fn.volume = r.val
  BY <1>5, <1>7, <1>8
<1>12. Giveback(Filed(s)) = v
  BY <1>2, <1>4
<1>13. QED
  BY <1>2, <1>7, <1>10, <1>11, <1>12

(* SET_CUR is carried out.                                                  *)
LEMMA ReceivingIrq ==
  ASSUME host \in Transfers, belief \in Beliefs, NEW s0, Rest(s0), Busy(s0),
         Receiving(s0, TRUE), Allowed(s0.fn)
  PROVE  Outcome(Ep0Irq(s0))
<1> DEFINE s == Cleared(s0)
           r == host.r
           v == Giveback(Filed(s))
<1>1. /\ s0 \in States /\ FnOk(s0.fn) /\ ReqOk(s0.req) /\ s0.ep0.ackpend = {}
      /\ ("SENTSTALL" \in s0.csr => s0.ep0.stage = "IDLE")
      /\ s0.ep0.stage = "RX" /\ s0.csr = {"RXPKTRDY"} /\ s0.ep0.setAddress = FALSE
      /\ SetRequest(r) /\ s0.req.listed = TRUE /\ s0.req.actual = 0 /\ s0.req.len = r.len
      /\ s0.req.status = "-EINPROGRESS" /\ host.stage = "status"
      /\ s0.fifo.n = r.len /\ s0.fifo.val = r.val
      /\ Match(s0.fn, s0.config, belief) /\ s0.faddr = belief.addr
      /\ Proper(r) /\ MayAsk(r)
  BY DEF Rest, Receiving, Busy, ReqOk, States, Ep0States
<1>2. /\ s \in States /\ s.csr = s0.csr \ {"SENTSTALL", "SETUPEND"} /\ s.faddr = s0.faddr
      /\ s.fifo = s0.fifo
      /\ s.req = s0.req /\ s.config = s0.config /\ s.fn = s0.fn
      /\ s.ep0.stage = (IF "SETUPEND" \in s0.csr THEN EndedStage(s0.ep0.stage)
                        ELSE s0.ep0.stage)
      /\ s.ep0.ackpend = s0.ep0.ackpend /\ s.ep0.setAddress = s0.ep0.setAddress
  BY <1>1, ClearedFacts
<1> HIDE DEF s
<1>3. s.csr = {"RXPKTRDY"} /\ s.ep0.stage = "RX"
  BY <1>1, <1>2
<1>4. r.len \in 1 .. 4 /\ r.in = FALSE /\ r.name = "SET_CUR"
  <2>1. r.in \in BOOLEAN
    BY DEF Transfers, Requests
  <2>2. QED
    BY <1>1, <2>1 DEF SetRequest
<1>5. Ep0Irq(s0) = WriteCsr(v, {"SVDRXPKTRDY", "DATAEND"})
  <2>1. Ep0Irq(s0) = Handle(s)
    BY <1>1, <1>3, Ep0IrqIs DEF s, Stages
  <2>2. Ep0Irq(s0) = RxState(s)
    BY <1>3, <2>1 DEF Handle
  <2>3. /\ s.req.listed = TRUE /\ s.req.actual = 0 /\ s.req.len = s.fifo.n
        /\ s.fifo.n \in 1 .. 4 /\ s.req.status = "-EINPROGRESS"
    BY <1>1, <1>2, <1>4
  <2>4. QED
    BY <1>2, <2>2, <2>3, RxStateIs DEF Filed
<1>6. /\ FnOk(s.fn) /\ s.req.status = "-EINPROGRESS" /\ s.fifo.n = r.len /\ s.fifo.val = r.val
      /\ Match(s.fn, s.config, belief)
  BY <1>1, <1>2
<1>7. /\ v \in States /\ v.csr = s.csr /\ v.faddr = s.faddr
      /\ v.req \in ReqStates /\ v.req.listed = FALSE /\ v.req.len = s.req.len
      /\ v.req.actual = s.fifo.n /\ v.ep0.stage = "STATUSIN"
      /\ v.ep0.ackpend = s.ep0.ackpend /\ v.ep0.setAddress = s.ep0.setAddress
      /\ FnOk(v.fn) /\ Match(v.fn, v.config, AfterOk(belief, r))
      /\ v.fn.volume # s.fn.volume => r.sel = "volume" /\ v.fn.volume = r.val
      /\ v.fn.cRate # s.fn.cRate =>
           r.sel = "sam_freq" /\ r.intf = OutClk /\ v.fn.cRate = r.val
      /\ v.fn.pRate # s.fn.pRate =>
           r.sel = "sam_freq" /\ r.intf = InClk /\ v.fn.pRate = r.val
  <2>1. CASE r.sel = "sam_freq"
    <3>1. s.req.complete = "sam_freq" /\ s.fn.ctlId = r.intf
      BY <1>2, <2>1 DEF Receiving
    <3>2. QED
      BY <1>1, <1>2, <1>6, <2>1, <3>1, RateGiven, ZenonT(60)
  <2>2. CASE r.sel # "sam_freq"
    <3>1. s.req.complete = "fu_control" /\ s.fn.csId = r.sel /\ s.fn.setCon = r.sel
      BY <1>2, <2>2 DEF Receiving
    <3>2. QED
      BY <1>1, <1>2, <1>6, <2>2, <3>1, ControlGiven, ZenonT(60)
  <2>3. QED
    BY <2>1, <2>2
<1> HIDE DEF v
<1>8. ReqOk(v.req)
  BY <1>1, <1>2, <1>4, <1>7 DEF ReqOk
<1>9. AfterOk(belief, r).addr = belief.addr
  BY <1>1, <1>4, AfterSet
<1>10. /\ v.csr = {"RXPKTRDY"} /\ v.ep0.ackpend = {} /\ v.ep0.setAddress = FALSE
       /\ v.faddr = belief.addr
  BY <1>1, <1>2, <1>3, <1>7
<1>11. Allowed(v.fn)
  <2>1. Allowed(s.fn) /\ host.stage = "status" /\ r.name = "SET_CUR"
    BY <1>1, <1>2, <1>4
  <2>2. QED
    BY <1>7, <2>1 DEF Allowed, Sent
<1>12. QED
  BY <1>1, <1>4, <1>5, <1>7, <1>8, <1>9, <1>10, <1>11, ReceiveEnds
-----------------------------------------------------------------------------
(* The steps.                                                               *)

Phase(s, i) == Idle(s, i) \/ (Busy(s) /\ (Asked(s, i) \/ Answered(s, i)))

(* The handler answers whatever the transfer is waiting for.                *)
LEMMA IrqPhase ==
  ASSUME IInv, irq = TRUE
  PROVE  /\ Rest(Ep0Irq(State)) /\ Phase(Ep0Irq(State), FALSE)
         /\ Allowed(Ep0Irq(State).fn)
<1> DEFINE s == State
           t == Ep0Irq(State)
<1>1. host \in Transfers /\ belief \in Beliefs /\ Rest(s)
  BY DEF IInv
<1>2. Idle(s, TRUE) \/ (Busy(s) /\ (Asked(s, TRUE) \/ Answered(s, TRUE)))
  BY DEF IInv
<1>3. Allowed(s.fn) /\ fn \in FnStates
  <2>1. s.fn = fn
    BY DEF State
  <2>2. FnOk(s.fn)
    BY <1>1 DEF Rest
  <2>3. Allowed(fn)
    BY DEF Allowed
  <2>4. QED
    BY <2>1, <2>2, <2>3 DEF FnOk
<1>4. ASSUME Busy(s), Outcome(t) PROVE Rest(t) /\ Phase(t, FALSE) /\ Allowed(t.fn)
  <2>1. Rest(t) /\ Answered(t, FALSE) /\ t.faddr = belief.addr /\ Allowed(t.fn)
    BY <1>4 DEF Outcome
  <2>2. Busy(t)
    BY <1>4, <2>1 DEF Busy
  <2>3. QED
    BY <2>1, <2>2 DEF Phase
<1>5. CASE Idle(s, TRUE)
  BY <1>1, <1>3, <1>5, IdleIrq DEF Phase
<1>6. CASE Busy(s) /\ Asked(s, TRUE)
  BY <1>1, <1>3, <1>4, <1>6, AskedIrq
<1>7. CASE Busy(s) /\ Answered(s, TRUE)
  <2>1. ~Stalled(s, TRUE) /\ ~Done(s, TRUE)
    BY DEF Stalled, Done
  <2>2. CASE Sending(s, TRUE)
    BY <1>1, <1>3, <1>4, <1>7, <2>2, SendingIrq
  <2>3. CASE LastSent(s, TRUE)
    BY <1>1, <1>3, <1>4, <1>7, <2>3, LastSentIrq
  <2>4. CASE Receiving(s, TRUE)
    BY <1>1, <1>3, <1>4, <1>7, <2>4, ReceivingIrq
  <2>5. QED
    BY <1>7, <2>1, <2>2, <2>3, <2>4 DEF Answered
<1>8. QED
  BY <1>2, <1>5, <1>6, <1>7

LEMMA StateIs ==
  ASSUME NEW s, s \in States, Become(s)
  PROVE  State' = s
BY DEF State, Become, States

LEMMA SamePhase ==
  ASSUME NEW s, NEW i, Phase(s, i), host' = host, belief' = belief
  PROVE  Phase(s, i)'
<1>1. ASSUME Idle(s, i) PROVE Idle(s, i)'
  BY <1>1 DEF Idle, MuteInDoubt
<1>2. ASSUME Busy(s) PROVE Busy(s)'
  BY <1>2 DEF Busy, MayAsk
<1>3. ASSUME Asked(s, i) PROVE Asked(s, i)'
  BY <1>3 DEF Asked, MuteInDoubt
<1>4. ASSUME Stalled(s, i) PROVE Stalled(s, i)'
  BY <1>4 DEF Stalled
<1>5. ASSUME Done(s, i) PROVE Done(s, i)'
  BY <1>5 DEF Done
<1>6. ASSUME NEW r PROVE Answer(r)' = Answer(r)
  BY DEF Answer
<1>7. ToRead' = ToRead
  BY DEF ToRead
<1>8. ASSUME ReadSoFar PROVE ReadSoFar'
  BY <1>6, <1>8 DEF ReadSoFar
<1>9. Answer(host.r)' = Answer(host.r)
  BY DEF Answer
<1>10. ASSUME Sending(s, i) PROVE Sending(s, i)'
  BY <1>7, <1>8, <1>9, <1>10 DEF Sending
<1>11. ASSUME LastSent(s, i) PROVE LastSent(s, i)'
  BY <1>7, <1>8, <1>9, <1>11 DEF LastSent
<1>12. ASSUME Receiving(s, i) PROVE Receiving(s, i)'
  BY <1>12 DEF Receiving
<1>13. QED
  BY <1>1, <1>2, <1>3, <1>4, <1>5, <1>10, <1>11, <1>12 DEF Phase, Answered

LEMMA IrqStep ==
  ASSUME IInv, Irq PROVE IInv'
<1>1. irq = TRUE /\ irq' = FALSE /\ host' = host /\ belief' = belief
  BY DEF IInv, Irq
<1>2. PICK s \in {Ep0Irq(State)} : Become(s)
  BY DEF Irq
<1>3. Rest(s) /\ Phase(s, FALSE) /\ Allowed(s.fn)
  BY <1>1, <1>2, IrqPhase
<1>4. s \in States
  BY <1>3 DEF Rest
<1>5. State' = s
  BY <1>2, <1>4, StateIs
<1>6. Phase(s, FALSE)'
  BY <1>1, <1>3, SamePhase
<1>7. Phase(State, irq)'
  BY <1>1, <1>5, <1>6
<1>8. QED
  BY <1>1, <1>3, <1>5, <1>7 DEF IInv, Phase
(* What the host believes.                                                  *)
LEMMA BelieveType ==
  ASSUME NEW b \in Beliefs, NEW r, NEW v \in Int
  PROVE  LET d == Believe(b, r, v)
         IN  /\ d \in Beliefs /\ d.addr = b.addr /\ d.cfg = b.cfg /\ d.alt = b.alt
             /\ d.halted = b.halted
             /\ d.cRate \in {b.cRate, v} /\ d.pRate \in {b.pRate, v}
             /\ d.volume \in {b.volume, v} /\ d.mute \in {b.mute, v}
<1> DEFINE d1 == [b EXCEPT !.cRate = v]
           d2 == [b EXCEPT !.pRate = v]
           d3 == [b EXCEPT !.mute = v]
           d4 == [b EXCEPT !.volume = v]
           d == Believe(b, r, v)
<1>1. d \in {d1, d2, d3, d4, b}
  BY DEF Believe
<1>2. /\ d1 \in Beliefs /\ d1.addr = b.addr /\ d1.cfg = b.cfg /\ d1.alt = b.alt
      /\ d1.halted = b.halted /\ d1.cRate = v /\ d1.pRate = b.pRate /\ d1.volume = b.volume
      /\ d1.mute = b.mute
  BY DEF Beliefs
<1>3. /\ d2 \in Beliefs /\ d2.addr = b.addr /\ d2.cfg = b.cfg /\ d2.alt = b.alt
      /\ d2.halted = b.halted /\ d2.cRate = b.cRate /\ d2.pRate = v /\ d2.volume = b.volume
      /\ d2.mute = b.mute
  BY DEF Beliefs
<1>4. /\ d3 \in Beliefs /\ d3.addr = b.addr /\ d3.cfg = b.cfg /\ d3.alt = b.alt
      /\ d3.halted = b.halted /\ d3.cRate = b.cRate /\ d3.pRate = b.pRate
      /\ d3.volume = b.volume /\ d3.mute = v
  BY DEF Beliefs
<1>5. /\ d4 \in Beliefs /\ d4.addr = b.addr /\ d4.cfg = b.cfg /\ d4.alt = b.alt
      /\ d4.halted = b.halted /\ d4.cRate = b.cRate /\ d4.pRate = b.pRate /\ d4.volume = v
      /\ d4.mute = b.mute
  BY DEF Beliefs
<1> HIDE DEF d1, d2, d3, d4, d
<1>6. QED
  BY <1>1, <1>2, <1>3, <1>4, <1>5 DEF d

(* A request that was given up leaves its control in doubt, and no more.    *)
LEMMA DoubtFacts ==
  ASSUME NEW b \in Beliefs, NEW r
  PROVE  LET d == Doubt(b, r)
         IN  /\ d \in Beliefs /\ d.addr = b.addr /\ d.cfg = b.cfg /\ d.alt = b.alt
             /\ d.halted = b.halted
             /\ d.cRate \in {b.cRate, Unknown} /\ d.pRate \in {b.pRate, Unknown}
             /\ d.volume \in {b.volume, Unknown} /\ d.mute \in {b.mute, Unknown}
<1>0. Unknown \in Int
  BY DEF Unknown
<1> DEFINE u == Unknown
           e == [b EXCEPT !.cRate = u]
           d == Doubt(b, r)
<1>1. d \in {e, Believe(b, r, u)}
  BY DEF Doubt
<1> HIDE DEF u
<1>2. u \in Int
  BY <1>0 DEF u
<1>3. /\ e \in Beliefs /\ e.addr = b.addr /\ e.cfg = b.cfg /\ e.alt = b.alt
      /\ e.halted = b.halted /\ e.cRate = u /\ e.pRate = b.pRate /\ e.volume = b.volume
      /\ e.mute = b.mute
  BY <1>2 DEF Beliefs
<1> HIDE DEF e, d
<1>4. CASE d = e
  BY <1>3, <1>4 DEF d, u
<1>5. CASE d = Believe(b, r, u)
  <2>1. /\ d \in Beliefs /\ d.addr = b.addr /\ d.cfg = b.cfg /\ d.alt = b.alt
        /\ d.halted = b.halted /\ d.cRate \in {b.cRate, u} /\ d.pRate \in {b.pRate, u}
        /\ d.volume \in {b.volume, u} /\ d.mute \in {b.mute, u}
    BY <1>2, <1>5, BelieveType
  <2>2. QED
    BY <2>1 DEF d, u
<1>6. QED
  BY <1>1, <1>4, <1>5

LEMMA DoubtMatch ==
  ASSUME NEW b \in Beliefs, NEW r, NEW f, NEW c, Match(f, c, b)
  PROVE  Match(f, c, Doubt(b, r))
<1> DEFINE d == Doubt(b, r)
<1>1. /\ d.cfg = b.cfg /\ d.alt = b.alt /\ d.halted = b.halted
      /\ d.cRate \in {b.cRate, Unknown} /\ d.pRate \in {b.pRate, Unknown}
      /\ d.volume \in {b.volume, Unknown} /\ d.mute \in {b.mute, Unknown}
  BY DoubtFacts
<1> HIDE DEF d
<1>2. /\ Known(b.cRate, f.cRate) /\ Known(b.pRate, f.pRate)
      /\ Known(b.volume, f.volume) /\ Known(b.mute, f.mute)
  BY DEF Match
<1>3. /\ Known(d.cRate, f.cRate) /\ Known(d.pRate, f.pRate)
      /\ Known(d.volume, f.volume) /\ Known(d.mute, f.mute)
  BY <1>1, <1>2 DEF Known
<1>4. QED
  BY <1>1, <1>3 DEF Match, d

LEMMA AfterStallType ==
  ASSUME NEW b \in Beliefs, NEW r
  PROVE  LET d == AfterStall(b, r)
         IN  d \in Beliefs /\ d.addr = b.addr /\ d.cRate = b.cRate /\ d.pRate = b.pRate
             /\ d.volume = b.volume /\ d.mute = b.mute
<1> DEFINE u == Unknown
           e == [b EXCEPT !.cfg = u]
<1>1. u \in Int
  BY DEF Unknown
<1>2. AfterStall(b, r) \in {e, b}
  BY DEF AfterStall
<1> HIDE DEF u
<1>3. /\ e \in Beliefs /\ e.addr = b.addr /\ e.cRate = b.cRate /\ e.pRate = b.pRate
      /\ e.volume = b.volume /\ e.mute = b.mute
  BY <1>1 DEF Beliefs
<1> HIDE DEF e
<1>4. QED
  BY <1>2, <1>3
(* A request that was answered tells it what it may believe ...             *)
LEMMA AfterOkType ==
  ASSUME NEW b \in Beliefs, NEW r \in Requests, Proper(r)
  PROVE  AfterOk(b, r) \in Beliefs
<1>0. r.val \in Nat /\ r.name \in RequestNames /\ 0 \in Nat /\ Unknown \in Int
  BY DEF Requests, Unknown
<1>1. CASE r.name = "SET_ADDRESS"
  <2> DEFINE v == r.val
             d == [b EXCEPT !.addr = v]
  <2>1. AfterOk(b, r) = d
    BY <1>1 DEF AfterOk
  <2>2. v \in Nat
    BY <1>0
  <2> HIDE DEF v
  <2>3. d \in Beliefs
    BY <2>2 DEF Beliefs
  <2>4. QED
    BY <2>1, <2>3
<1>2. CASE r.name = "SET_CONFIGURATION"
  <2> DEFINE v == r.val
             none == {}
             u == Unknown
             alt == [i \in {OutIntf, InIntf} |-> 0]
             d == [b EXCEPT !.cfg = v, !.halted = none, !.alt = alt, !.cRate = u]
  <2>1. AfterOk(b, r) = d
    BY <1>2 DEF AfterOk
  <2>2. v \in Int /\ none \in SUBSET {"out", "in"} /\ u \in Int
    BY <1>0
  <2>3. alt \in [{OutIntf, InIntf} -> Nat]
    OBVIOUS
  <2> HIDE DEF v, none, u, alt
  <2>4. d \in Beliefs
    BY <2>2, <2>3 DEF Beliefs
  <2>5. QED
    BY <2>1, <2>4
<1>3. CASE r.name = "SET_INTERFACE"
  <2> DEFINE halted == IF r.val = 0 THEN b.halted
                       ELSE b.halted \ {IF r.intf = OutIntf THEN "out" ELSE "in"}
             alt == [i \in {OutIntf, InIntf} |-> IF i = r.intf THEN r.val ELSE b.alt[i]]
             rate == IF r.intf = OutIntf THEN Unknown ELSE b.cRate
             d == [b EXCEPT !.alt = alt, !.halted = halted, !.cRate = rate]
  <2>1. AfterOk(b, r) = d
    BY <1>3 DEF AfterOk, Beliefs
  <2>2. b.alt \in [{OutIntf, InIntf} -> Nat] /\ b.halted \in SUBSET {"out", "in"} /\ b.cRate \in Int
    BY DEF Beliefs
  <2>3. halted \in SUBSET {"out", "in"} /\ rate \in Int
    BY <1>0, <2>2
  <2>4. alt \in [{OutIntf, InIntf} -> Nat]
    BY <1>0, <2>2
  <2> HIDE DEF halted, alt, rate
  <2>5. d \in Beliefs
    BY <2>3, <2>4 DEF Beliefs
  <2>6. QED
    BY <2>1, <2>5
<1>4. CASE r.name \in {"SET_HALT", "CLEAR_HALT"}
  <2> DEFINE h == Halted(b.halted, r)
             d == [b EXCEPT !.halted = h]
  <2>1. AfterOk(b, r) = d
    BY <1>4 DEF AfterOk, Halted
  <2>2. r.sel \in {"out", "in"} /\ b.halted \in SUBSET {"out", "in"}
    BY <1>4 DEF Proper, NoDataRequest, SetRequest, GetRequest, Beliefs
  <2>3. h \in SUBSET {"out", "in"}
    BY <2>2 DEF Halted
  <2> HIDE DEF h
  <2>4. d \in Beliefs
    BY <2>3 DEF Beliefs
  <2>5. QED
    BY <2>1, <2>4
<1>5. CASE r.name = "SET_CUR"
  <2>1. AfterOk(b, r) = Believe(b, r, r.val)
    BY <1>5 DEF AfterOk
  <2>2. r.val \in Int
    BY <1>0
  <2>3. QED
    BY <2>1, <2>2, BelieveType
<1>6. CASE r.name \notin NoDataNames \cup {"SET_CUR"}
  BY <1>6 DEF AfterOk, NoDataNames
<1>7. QED
  BY <1>1, <1>2, <1>3, <1>4, <1>5, <1>6 DEF NoDataNames

(* ... and of the rates, the volume and the mute control no less than it    *)
(* knows without the answer.                                                *)
LEMMA DoubtAfter ==
  ASSUME NEW b \in Beliefs, NEW r \in Requests, Proper(r)
  PROVE  LET d == Doubt(b, r)
             a == AfterOk(b, r)
         IN  /\ d.cRate \in {a.cRate, Unknown} /\ d.pRate \in {a.pRate, Unknown}
             /\ d.volume \in {a.volume, Unknown} /\ d.mute \in {a.mute, Unknown}
<1>0. Unknown \in Int
  BY DEF Unknown
<1>1. CASE r.name \in {"SET_CONFIGURATION", "SET_INTERFACE"}
  <2> DEFINE u == Unknown
             e == [b EXCEPT !.cRate = u]
  <2>1. Doubt(b, r) = e
    BY <1>1 DEF Doubt
  <2> HIDE DEF u
  <2>2. e.cRate = u /\ e.pRate = b.pRate /\ e.volume = b.volume /\ e.mute = b.mute
    BY DEF Beliefs
  <2> HIDE DEF e
  <2>3. /\ AfterOk(b, r).pRate = b.pRate /\ AfterOk(b, r).volume = b.volume
        /\ AfterOk(b, r).mute = b.mute
    <3>1. CASE r.name = "SET_CONFIGURATION"
      BY <3>1, AfterConfiguration
    <3>2. CASE r.name = "SET_INTERFACE"
      BY <3>2, AfterInterface
    <3>3. QED
      BY <1>1, <3>1, <3>2
  <2>4. QED
    BY <2>1, <2>2, <2>3 DEF u
<1>2. CASE r.name = "SET_CUR"
  <2> DEFINE u == Unknown
             d == Believe(b, r, u)
             a == AfterOk(b, r)
  <2>1. Doubt(b, r) = d
    BY <1>2 DEF Doubt
  <2>2. SetRequest(r)
    BY <1>2 DEF Proper, NoDataRequest, GetRequest
  <2>3. /\ a.cRate = (IF r.sel = "sam_freq" /\ r.intf = OutClk THEN r.val ELSE b.cRate)
        /\ a.pRate = (IF r.sel = "sam_freq" /\ r.intf = InClk THEN r.val ELSE b.pRate)
        /\ a.volume = (IF r.sel = "volume" THEN r.val ELSE b.volume)
        /\ a.mute = (IF r.sel = "mute" THEN r.val ELSE b.mute)
    BY <1>2, <2>2, AfterSet
  <2>4. /\ d.cRate = (IF r.sel = "sam_freq" /\ r.intf = OutClk THEN u ELSE b.cRate)
        /\ d.pRate = (IF r.sel = "sam_freq" /\ r.intf = InClk THEN u ELSE b.pRate)
        /\ d.volume = (IF r.sel = "volume" THEN u ELSE b.volume)
        /\ d.mute = (IF r.sel = "mute" THEN u ELSE b.mute)
    BY <1>2, <2>2, BelieveSet
  <2> HIDE DEF a, d
  <2>5. QED
    BY <2>1, <2>3, <2>4 DEF a, u
<1>3. CASE r.name \notin {"SET_CONFIGURATION", "SET_INTERFACE", "SET_CUR"}
  <2>1. Doubt(b, r) = b
    BY <1>3 DEF Doubt, Believe, IsRate
  <2>2. CASE r.name = "SET_ADDRESS"
    <3> DEFINE v == r.val
               d == [b EXCEPT !.addr = v]
    <3>1. AfterOk(b, r) = d
      BY <2>2 DEF AfterOk
    <3> HIDE DEF v
    <3>2. d.cRate = b.cRate /\ d.pRate = b.pRate /\ d.volume = b.volume /\ d.mute = b.mute
      BY DEF Beliefs
    <3> HIDE DEF d
    <3>3. QED
      BY <2>1, <3>1, <3>2
  <2>3. CASE r.name \in {"SET_HALT", "CLEAR_HALT"}
    BY <2>1, <2>3, AfterHalt
  <2>4. CASE r.name \notin {"SET_ADDRESS", "SET_HALT", "CLEAR_HALT"}
    <3>1. AfterOk(b, r) = b
      BY <1>3, <2>4 DEF AfterOk
    <3>2. QED
      BY <2>1, <3>1
  <2>5. QED
    BY <2>2, <2>3, <2>4
<1>4. QED
  BY <1>1, <1>2, <1>3
-----------------------------------------------------------------------------
(* The steps of the host.                                                   *)

LEMMA StateFields ==
  /\ State.csr = csr /\ State.fifo = fifo /\ State.faddr = faddr /\ State.ep0 = ep0
  /\ State.req = req /\ State.config = config /\ State.fn = fn
  /\ State'.csr = csr' /\ State'.fifo = fifo' /\ State'.faddr = faddr' /\ State'.ep0 = ep0'
  /\ State'.req = req' /\ State'.config = config' /\ State'.fn = fn'
BY DEF State

(* They leave the driver alone.                                             *)
LEMMA HostRest ==
  ASSUME Rest(State), UNCHANGED <<faddr, ep0, req, config, fn>>, csr' \subseteq CsrBits,
         fifo' \in Fifos, "SENTSTALL" \in csr' => ep0.stage = "IDLE"
  PROVE  Rest(State')
<1>1. /\ State'.csr = csr' /\ State'.fifo = fifo' /\ State'.faddr = State.faddr
      /\ State'.ep0 = State.ep0 /\ State.ep0 = ep0
      /\ State'.req = State.req /\ State'.config = State.config /\ State'.fn = State.fn
  BY StateFields
<1>2. State \in States
  BY DEF Rest
<1>3. State' \in States
  <2>1. State' = [csr |-> csr', fifo |-> fifo', faddr |-> faddr, ep0 |-> ep0, req |-> req,
                  config |-> config, fn |-> fn]
    BY DEF State
  <2>2. /\ faddr \in Nat /\ ep0 \in Ep0States /\ req \in ReqStates /\ config \in {0, 1}
        /\ fn \in FnStates
    BY <1>2, StateFacts, StateFields
  <2>3. csr' \in SUBSET CsrBits
    OBVIOUS
  <2>4. QED
    BY <2>1, <2>2, <2>3 DEF States
<1>4. QED
  BY <1>1, <1>3 DEF Rest

(* In the data stage the device is at the address of the host and still is  *)
(* what the host believes it to be; when DATAEND is set, the driver is      *)
(* through with its data.                                                   *)
LEMMA DataStage ==
  ASSUME IInv, host.stage = "data"
  PROVE  /\ Busy(State) /\ Addressed(State, belief.addr)
         /\ Match(State.fn, State.config, belief)
         /\ "DATAEND" \in csr => ep0.stage \notin {"TX", "RX"}
         /\ "SENTSTALL" \in csr => Asked(State, irq)
<1> DEFINE s == State
<1>0. s.csr = csr /\ s.ep0 = ep0
  BY StateFields
<1>1. Idle(s, irq) \/ (Busy(s) /\ (Asked(s, irq) \/ Answered(s, irq)))
  BY DEF IInv
<1>2. ~Idle(s, irq)
  BY DEF Idle, NoXfer
<1>3. Busy(s) /\ s.faddr = belief.addr /\ Proper(host.r) /\ host.r.len # 0
  BY <1>1, <1>2 DEF Busy
<1> HIDE DEF s
<1>4. CASE Asked(s, irq)
  BY <1>0, <1>3, <1>4 DEF Asked, s
<1>5. CASE Stalled(s, irq)
  <2>1. host.r.name # "SET_CONFIGURATION"
    BY <1>3 DEF Proper, NoDataRequest, SetRequest, GetRequest
  <2>2. AfterStall(belief, host.r) = belief
    BY <2>1 DEF AfterStall
  <2>3. Addressed(s, belief.addr)
    BY <1>3, <1>5 DEF Stalled, Addressed
  <2>4. QED
    BY <1>0, <1>3, <1>5, <2>2, <2>3 DEF Stalled, s
<1>6. CASE Done(s, irq)
  BY <1>6 DEF Done
<1>7. CASE Sending(s, irq)
  <2>1. Addressed(s, belief.addr)
    BY <1>3, <1>7 DEF Sending, Addressed
  <2>2. QED
    BY <1>0, <1>3, <1>7, <2>1 DEF Sending, s
<1>8. CASE LastSent(s, irq)
  <2>1. Addressed(s, belief.addr)
    BY <1>3, <1>8 DEF LastSent, Addressed
  <2>2. QED
    BY <1>0, <1>3, <1>8, <2>1 DEF LastSent, s
<1>9. CASE Receiving(s, irq)
  <2>1. Addressed(s, belief.addr)
    BY <1>3, <1>9 DEF Receiving, Addressed
  <2>2. QED
    BY <1>0, <1>3, <1>9, <2>1 DEF Receiving, s
<1>10. QED
  BY <1>1, <1>2, <1>4, <1>5, <1>6, <1>7, <1>8, <1>9 DEF Answered, s

(* A change of mute that is still to come is one the host gave up, or is    *)
(* about to give up.                                                        *)
LEMMA GivenUp ==
  ASSUME IInv
  PROVE  Pending(State) => Doubt(belief, host.r).mute = Unknown
<1> DEFINE s == State
           d == Doubt(belief, host.r)
<1>1. Idle(s, irq) \/ (Busy(s) /\ (Asked(s, irq) \/ Answered(s, irq)))
  BY DEF IInv
<1>2. d.mute \in {belief.mute, Unknown} /\ belief \in Beliefs
  BY DoubtFacts DEF IInv
<1> HIDE DEF s, d
<1>3. CASE MuteInDoubt(s)
  BY <1>2, <1>3 DEF MuteInDoubt, s, d
<1>4. CASE Receiving(s, irq)
  <2>1. ASSUME Pending(s) PROVE d.mute = Unknown
    <3>1. host.r.name = "SET_CUR" /\ SetRequest(host.r) /\ host.r.sel = "mute"
      BY <1>4, <2>1 DEF Receiving, Pending, SetRequest
    <3>2. d = Believe(belief, host.r, Unknown)
      BY <3>1 DEF Doubt, d
    <3>3. QED
      BY <1>2, <3>1, <3>2, BelieveSet
  <2>2. QED
    BY <2>1 DEF s, d
<1>5. CASE Stalled(s, irq) \/ Done(s, irq) \/ LastSent(s, irq)
  BY <1>5 DEF Stalled, Done, LastSent, Pending, s
<1>6. CASE Sending(s, irq)
  BY <1>6 DEF Sending, Pending, s
<1>7. QED
  BY <1>1, <1>3, <1>4, <1>5, <1>6 DEF Idle, Asked, Answered

(* A SETUP packet starts a transfer, over whatever there was.               *)
LEMMA SetupStep ==
  ASSUME IInv, NEW r \in HostRequests, NEW b \in Beliefs, SendSetup(r, b),
         b.addr = belief.addr, b.cfg = belief.cfg, b.alt = belief.alt,
         Match(State.fn, State.config, b), Addressed(State, belief.addr),
         "SENTSTALL" \in csr => ep0.stage = "IDLE",
         ep0.stage \in {"TX", "RX"} => "SETUPEND" \in csr',
         Pending(State) => b.mute = Unknown
  PROVE  IInv'
<1> DEFINE len == r.len
           st == IF len = 0 THEN "status" ELSE "data"
           n == 8
           k == "setup"
<1>1. r \in Requests /\ Proper(r)
  BY RequestsAssumption DEF Proper
<1>2. r.len \in Nat
  BY <1>1 DEF Requests
<1>3. /\ faddr = belief.addr /\ MayAsk(r)
      /\ csr' = (csr \ {"TXPKTRDY", "DATAEND", "SENDSTALL"}) \cup {"RXPKTRDY"}
                \cup (IF host.stage # "idle" /\ "DATAEND" \notin csr THEN {"SETUPEND"} ELSE {})
      /\ fifo' = [EmptyFifo EXCEPT !.kind = k, !.n = n, !.r = r]
      /\ irq' = TRUE
      /\ host' = [NoXfer EXCEPT !.stage = st, !.r = r]
      /\ belief' = b
      /\ UNCHANGED <<faddr, ep0, req, config, fn>>
  BY DEF SendSetup
<1>4. st \in {"idle", "data", "status"} /\ n \in 0 .. Ep0Fifo
      /\ k \in {"empty", "setup", "out", "in"}
  BY DEF Ep0Fifo
<1> HIDE DEF k, n
<1>5. fifo' \in Fifos /\ fifo'.n = n /\ fifo'.r = r
  BY <1>1, <1>3, <1>4, EmptyFifoFits DEF Fifos
<1>6. NoXfer \in Transfers
  BY NoRequestFits DEF NoXfer, Transfers
<1> HIDE DEF st
<1>7. host' \in Transfers /\ host'.stage = st /\ host'.r = r
  BY <1>1, <1>3, <1>4, <1>6 DEF Transfers
<1>8. csr \subseteq CsrBits /\ Rest(State)
  <2>1. Rest(State)
    BY DEF IInv
  <2>2. State \in States
    BY <2>1 DEF Rest
  <2>3. QED
    BY <2>1, <2>2, StateFacts, StateFields
<1>9. /\ csr' \subseteq {"RXPKTRDY", "SENTSTALL", "SETUPEND"} /\ "RXPKTRDY" \in csr'
      /\ ("SENTSTALL" \in csr' => "SENTSTALL" \in csr)
  BY <1>3, <1>8 DEF CsrBits
<1>10. csr' \subseteq CsrBits
  BY <1>9 DEF CsrBits
<1>11. Rest(State')
  BY <1>3, <1>5, <1>8, <1>9, <1>10, HostRest
<1>12. /\ State'.csr = csr' /\ State'.fifo = fifo' /\ State'.faddr = State.faddr
       /\ State'.ep0 = State.ep0 /\ State'.ep0.stage = ep0.stage
       /\ State'.config = State.config /\ State'.fn = State.fn /\ State.faddr = faddr
       /\ State'.req = State.req
  BY <1>3, StateFields
<1>13. Match(State'.fn, State'.config, belief')
  BY <1>3, <1>12
<1>14. Addressed(State', belief'.addr)
  BY <1>3, <1>12 DEF Addressed
<1>15. host' = [NoXfer EXCEPT !.stage = IF host'.r.len = 0 THEN "status" ELSE "data", !.r = host'.r]
  BY <1>3, <1>7 DEF st, len
<1>16. MuteInDoubt(State)'
  BY <1>3, <1>12 DEF MuteInDoubt, Pending
<1>17. Asked(State, irq)'
  BY <1>3, <1>5, <1>7, <1>9, <1>12, <1>13, <1>14, <1>15, <1>16 DEF Asked, n
<1>18. MayAsk(host.r)'
  BY <1>3, <1>7 DEF MayAsk
<1>19. Busy(State)'
  BY <1>1, <1>3, <1>7, <1>12, <1>18 DEF Busy, st, len
<1>20. QED
  BY <1>3, <1>7, <1>11, <1>17, <1>19 DEF IInv
LEMMA StartStep ==
  ASSUME IInv, StartTransfer PROVE IInv'
<1> DEFINE s == State
<1>1. PICK r \in HostRequests : SendSetup(r, belief)
  BY DEF StartTransfer
<1>2. host.stage = "idle" /\ belief \in Beliefs /\ Rest(s)
  BY DEF StartTransfer, IInv
<1>3. ~Busy(s)
  BY <1>2 DEF Busy
<1>4. Idle(s, irq)
  BY <1>3 DEF IInv
<1>5. s.csr = csr /\ s.ep0 = ep0
  BY StateFields
<1>6. "SETUPEND" \in csr => "SETUPEND" \in csr'
  BY <1>1 DEF SendSetup
<1> HIDE DEF s
<1>7. /\ Match(s.fn, s.config, belief) /\ Addressed(s, belief.addr)
      /\ ("SENTSTALL" \in csr => ep0.stage = "IDLE")
      /\ (ep0.stage \in {"TX", "RX"} => "SETUPEND" \in csr)
      /\ (Pending(s) => belief.mute = Unknown)
  BY <1>2, <1>4, <1>5 DEF Rest, Idle, MuteInDoubt
<1>8. QED
  BY <1>1, <1>2, <1>6, <1>7, SetupStep DEF s

LEMMA AbortStep ==
  ASSUME IInv, Abort PROVE IInv'
<1> DEFINE s == State
           b == Doubt(belief, host.r)
<1>1. PICK r \in HostRequests : SendSetup(r, b)
  BY DEF Abort
<1>2. host.stage = "data" /\ belief \in Beliefs /\ Rest(s)
  BY DEF Abort, IInv
<1>3. s.csr = csr /\ s.ep0 = ep0
  BY StateFields
<1>4. /\ Addressed(s, belief.addr) /\ Match(s.fn, s.config, belief)
      /\ ("DATAEND" \in csr => ep0.stage \notin {"TX", "RX"})
  BY <1>2, DataStage
<1>5. b \in Beliefs /\ b.addr = belief.addr /\ b.cfg = belief.cfg /\ b.alt = belief.alt
  BY <1>2, DoubtFacts
<1>6. Match(s.fn, s.config, b)
  BY <1>2, <1>4, DoubtMatch
<1>7. Pending(s) => b.mute = Unknown
  BY GivenUp
<1> HIDE DEF b
<1>8. ep0.stage \in {"TX", "RX"} => "SETUPEND" \in csr'
  BY <1>1, <1>2, <1>4 DEF SendSetup
<1> HIDE DEF s
<1>9. "SENTSTALL" \in csr => ep0.stage = "IDLE"
  BY <1>2, <1>3 DEF Rest
<1>10. QED
  BY <1>1, <1>4, <1>5, <1>6, <1>7, <1>8, <1>9, SetupStep DEF s

(* The host's data is as long as its request says: one packet.              *)
LEMMA SendDataStep ==
  ASSUME IInv, SendData PROVE IInv'
<1> DEFINE s == State
           r == host.r
           n == Least(Ep0Fifo, r.len - host.n)
           k == "out"
           v == r.val
<1>1. /\ host.stage = "data" /\ host \in Transfers /\ r \in Requests /\ belief \in Beliefs
      /\ r.in = FALSE /\ Rest(s)
  BY DEF SendData, IInv, Transfers, Requests
<1>2. /\ {"RXPKTRDY", "SENDSTALL"} \cap csr = {}
      /\ fifo' = [EmptyFifo EXCEPT !.kind = k, !.n = n, !.val = v]
      /\ host' = [host EXCEPT !.n = @ + n, !.stage = IF host.n + n = r.len THEN "status" ELSE @]
      /\ csr' = csr \cup {"RXPKTRDY"} /\ irq' = TRUE /\ belief' = belief
      /\ UNCHANGED <<faddr, ep0, req, config, fn>>
  BY DEF SendData
<1>3. Busy(s) /\ Match(s.fn, s.config, belief)
  BY <1>1, DataStage
<1>4. /\ s.csr = csr /\ s.fifo = fifo /\ s.faddr = faddr /\ s.ep0 = ep0 /\ s.req = req
      /\ s.config = config /\ s.fn = fn
  BY StateFields
<1> HIDE DEF s
<1>5. ~Asked(s, irq) /\ ~Stalled(s, irq)
  BY <1>2, <1>4 DEF Asked, Stalled
<1>6. ~Done(s, irq) /\ ~Sending(s, irq) /\ ~LastSent(s, irq)
  BY <1>1 DEF Done, Sending, LastSent
<1>7. ~Idle(s, irq)
  BY <1>1 DEF Idle, NoXfer
<1>8. Receiving(s, irq)
  BY <1>5, <1>6, <1>7 DEF IInv, Answered, s
<1>9. /\ SetRequest(r) /\ s.ep0.stage = "RX" /\ csr = {} /\ host.n = 0
  BY <1>1, <1>4, <1>8 DEF Receiving
<1>10. r.len \in 1 .. 4
  BY <1>9 DEF SetRequest
<1>11. n = r.len /\ host.n + n = r.len
  BY <1>9, <1>10 DEF Least, Ep0Fifo
<1>12. n \in 0 .. Ep0Fifo /\ v \in Nat /\ k \in {"empty", "setup", "out", "in"} /\ n \in Nat
  BY <1>1, <1>10, <1>11 DEF Requests, Ep0Fifo
<1> DEFINE st == "status"
           m == host.n + n
<1>13. host' = [host EXCEPT !.n = m, !.stage = st]
  BY <1>2, <1>11
<1>14. st \in {"idle", "data", "status"} /\ m \in Nat
  BY <1>9, <1>12
<1> HIDE DEF n, k, v, st, m
<1>15. fifo' \in Fifos /\ fifo'.n = n /\ fifo'.val = v
  BY <1>2, <1>12, EmptyFifoFits DEF Fifos
<1>16. host' \in Transfers /\ host'.stage = st /\ host'.r = host.r
  BY <1>1, <1>13, <1>14 DEF Transfers
<1>17. csr' = {"RXPKTRDY"}
  BY <1>2, <1>9
<1>18. Rest(State')
  BY <1>1, <1>2, <1>15, <1>17, HostRest DEF CsrBits, s
<1>19. /\ State'.csr = csr' /\ State'.fifo = fifo' /\ State'.faddr = s.faddr
       /\ State'.ep0 = s.ep0 /\ State'.req = s.req
       /\ State'.config = s.config /\ State'.fn = s.fn
  BY <1>2, <1>4, StateFields
<1>20. Receiving(State, irq)'
  BY <1>2, <1>8, <1>9, <1>11, <1>15, <1>16, <1>17, <1>19 DEF Receiving, st, v
<1>21. MayAsk(host.r)'
  BY <1>2, <1>3, <1>16 DEF MayAsk, Busy
<1>22. Busy(State)'
  BY <1>2, <1>3, <1>16, <1>19, <1>21 DEF Busy, st
<1>23. QED
  BY <1>1, <1>2, <1>16, <1>18, <1>20, <1>22 DEF IInv, Answered
(* What a host is told depends on its request and on what it believes.      *)
LEMMA SameAnswer ==
  ASSUME host'.r = host.r, belief' = belief
  PROVE  Answer(host.r)' = Answer(host.r) /\ ToRead' = ToRead
<1>1. Answer(host.r)' = Answer(host.r)
  BY DEF Answer
<1>2. ToRead' = ToRead
  BY DEF ToRead
<1>3. QED
  BY <1>1, <1>2

LEMMA TakeDataStep ==
  ASSUME IInv, TakeData PROVE IInv'
<1> DEFINE s == State
           r == host.r
           st == IF fifo.n < Ep0Fifo \/ host.n + fifo.n = r.len THEN "status" ELSE host.stage
           m == host.n + fifo.n
           vs == host.vals \cup {fifo.val}
<1>1. /\ host.stage = "data" /\ host \in Transfers /\ r \in Requests /\ belief \in Beliefs
      /\ r.in = TRUE /\ Rest(s)
  BY DEF TakeData, IInv, Transfers, Requests
<1>2. /\ "TXPKTRDY" \in csr /\ csr' = csr \ {"TXPKTRDY"} /\ fifo' = EmptyFifo
      /\ irq' = TRUE /\ belief' = belief
      /\ host' = [host EXCEPT !.n = m, !.vals = vs, !.stage = st]
      /\ UNCHANGED <<faddr, ep0, req, config, fn>>
  BY <1>1 DEF TakeData, Transfers
<1>3. Busy(s) /\ Match(s.fn, s.config, belief)
  BY <1>1, DataStage
<1>4. /\ s.csr = csr /\ s.fifo = fifo /\ s.faddr = faddr /\ s.ep0 = ep0 /\ s.req = req
      /\ s.config = config /\ s.fn = fn
  BY StateFields
<1> HIDE DEF s
<1>5. fifo \in Fifos /\ req \in ReqStates /\ s.req.actual <= s.req.len
  <2>1. s \in States /\ s.req.actual <= s.req.len
    BY <1>1 DEF Rest, ReqOk
  <2>2. QED
    BY <1>4, <2>1, StateFacts
<1>6. fifo.n \in Nat /\ fifo.val \in Nat /\ host.n \in Nat /\ host.vals \subseteq Nat /\ r.len \in Nat
  BY <1>1, <1>5 DEF Fifos, Transfers, Requests
<1>7. st \in {"idle", "data", "status"} /\ m \in Nat /\ vs \in SUBSET Nat
  BY <1>1, <1>6
<1> HIDE DEF st, m, vs
<1>8. /\ host' \in Transfers /\ host'.stage = st /\ host'.r = r /\ host'.n = m
      /\ host'.vals = vs
  BY <1>1, <1>2, <1>7 DEF Transfers
<1>9. fifo' \in Fifos
  BY <1>2, EmptyFifoFits
<1>10. csr' \subseteq CsrBits /\ ("SENTSTALL" \in csr' => ep0.stage = "IDLE")
  <2>1. s \in States /\ ("SENTSTALL" \in s.csr => s.ep0.stage = "IDLE")
    BY <1>1 DEF Rest
  <2>2. QED
    BY <1>2, <1>4, <2>1, StateFacts
<1>11. Rest(State')
  BY <1>1, <1>2, <1>9, <1>10, HostRest DEF s
<1>12. /\ State'.csr = csr' /\ State'.faddr = s.faddr
       /\ State'.ep0 = s.ep0 /\ State'.req = s.req
       /\ State'.config = s.config /\ State'.fn = s.fn
  BY <1>2, <1>4, StateFields
<1>13. MayAsk(host.r)'
  BY <1>2, <1>3, <1>8 DEF MayAsk, Busy
<1>14. Busy(State)'
  <2>1. r.len # 0
    BY <1>1, <1>3 DEF Busy
  <2>2. host'.stage \in {"data", "status"}
    BY <1>1, <1>8 DEF st
  <2>3. QED
    BY <1>2, <1>3, <1>8, <1>12, <1>13, <2>1, <2>2 DEF Busy
<1>15. Answer(host.r)' = Answer(host.r) /\ ToRead' = ToRead
  BY <1>2, <1>8, SameAnswer
<1>16. ASSUME ReadSoFar, Known(Answer(host.r), fifo.val) PROVE ReadSoFar'
  BY <1>8, <1>15, <1>16 DEF ReadSoFar, vs
<1>17. ASSUME ToRead \in Nat PROVE ToRead <= r.len
  <2>1. ToRead = r.len \/ ToRead < r.len
    BY DEF ToRead, Least
  <2>2. QED
    BY <1>6, <1>17, <2>1
<1>18. Match(State'.fn, State'.config, belief')
  BY <1>2, <1>3, <1>12
<1>19. CASE Sending(s, irq)
  <2>1. /\ s.ep0.stage = "TX" /\ s.req.listed /\ s.req.complete = "setup"
        /\ s.req.len = ToRead /\ s.req.zero = (s.req.len < r.len)
        /\ (s.req.actual = s.req.len => s.req.zero)
        /\ csr = {"TXPKTRDY"} /\ fifo.n = Ep0Fifo /\ fifo.val = s.req.buf
        /\ host.n + Ep0Fifo = s.req.actual
        /\ Known(Answer(host.r), s.req.buf) /\ ReadSoFar
    BY <1>2, <1>4, <1>19 DEF Sending
  <2>2. m = s.req.actual
    BY <2>1 DEF m
  <2>3. s.req.actual # r.len
    <3>1. s.req.len \in Nat /\ s.req.actual \in Nat
      BY <1>4, <1>5 DEF ReqStates
    <3>2. s.req.len = ToRead
      BY <2>1
    <3>3. ToRead \in Nat
      BY <3>1, <3>2
    <3>4. ToRead <= r.len
      BY <1>17, <3>3
    <3>5. s.req.actual = s.req.len => s.req.len < r.len
      BY <2>1
    <3>6. QED
      BY <1>5, <1>6, <3>1, <3>2, <3>4, <3>5
  <2>4. st = "data"
    BY <1>1, <2>1, <2>3 DEF st, Ep0Fifo
  <2>5. csr' = {}
    BY <1>2, <2>1
  <2>6. ReadSoFar'
    BY <1>16, <2>1
  <2>7. Sending(State, irq)'
    BY <1>1, <1>2, <1>8, <1>12, <1>15, <1>18, <2>1, <2>2, <2>4, <2>5, <2>6 DEF Sending
  <2>8. QED
    BY <1>1, <1>2, <1>8, <1>11, <1>14, <2>7 DEF IInv, Answered
<1>20. CASE LastSent(s, irq)
  <2>1. /\ s.ep0.stage = "STATUSOUT" /\ s.req.listed = FALSE /\ ReadSoFar
        /\ csr = {"TXPKTRDY", "DATAEND"} /\ host.n + fifo.n = ToRead
        /\ (fifo.n < Ep0Fifo \/ ToRead = r.len) /\ Known(Answer(host.r), fifo.val)
    BY <1>1, <1>4, <1>20 DEF LastSent
  <2>2. st = "status" /\ m = ToRead
    BY <2>1 DEF st, m
  <2>3. csr' = {"DATAEND"}
    BY <1>2, <2>1
  <2>4. ReadSoFar'
    BY <1>16, <2>1
  <2>5. LastSent(State, irq)'
    BY <1>1, <1>8, <1>12, <1>15, <1>18, <2>1, <2>2, <2>3, <2>4 DEF LastSent
  <2>6. QED
    BY <1>1, <1>2, <1>8, <1>11, <1>14, <2>5 DEF IInv, Answered
<1>21. ~Asked(s, irq) /\ ~Stalled(s, irq) /\ ~Done(s, irq)
  BY <1>1, <1>2, <1>4 DEF Asked, Stalled, Done
<1>22. ~Receiving(s, irq) /\ ~Idle(s, irq)
  BY <1>1 DEF Receiving, SetRequest, Idle, NoXfer
<1>23. QED
  BY <1>19, <1>20, <1>21, <1>22 DEF IInv, Answered, s

(* The transfer is over.                                                    *)
LEMMA EndStep ==
  ASSUME Rest(State), NEW b \in Beliefs, EndTransfer(b),
         UNCHANGED <<faddr, ep0, req, config, fn>>,
         csr' \subseteq {"SENTSTALL", "SETUPEND"}, fifo' \in Fifos,
         "SENTSTALL" \in csr' => ep0.stage = "IDLE",
         ep0.stage # "RX", ep0.stage = "TX" => "SETUPEND" \in csr',
         Addressed(State, b.addr), Match(State.fn, State.config, b), ~Pending(State)
  PROVE  IInv'
<1>1. host' = NoXfer /\ belief' = b /\ irq' = TRUE
  BY DEF EndTransfer
<1>2. /\ State'.csr = csr' /\ State'.faddr = State.faddr /\ State'.ep0 = State.ep0
      /\ State'.ep0.stage = ep0.stage /\ State'.config = State.config /\ State'.fn = State.fn
      /\ State'.req = State.req
  BY StateFields
<1>3. csr' \subseteq CsrBits
  BY DEF CsrBits
<1>4. Rest(State')
  BY <1>3, HostRest
<1>5. Match(State'.fn, State'.config, belief') /\ Addressed(State', belief'.addr)
  BY <1>1, <1>2 DEF Addressed
<1>6. MuteInDoubt(State)'
  BY <1>2 DEF MuteInDoubt, Pending
<1>7. Idle(State, irq)'
  BY <1>1, <1>2, <1>5, <1>6 DEF Idle
<1>8. NoXfer \in Transfers
  BY NoRequestFits DEF NoXfer, Transfers
<1>9. QED
  BY <1>1, <1>4, <1>7, <1>8 DEF IInv
(* The host may go on to the status stage: what was asked is done.          *)
LEMMA StatusInDone ==
  ASSUME IInv, host.stage = "status", ~host.r.in, "DATAEND" \in csr, "SENDSTALL" \notin csr
  PROVE  Done(State, irq)
<1> DEFINE s == State
<1>1. s.csr = csr
  BY StateFields
<1>2. Idle(s, irq) \/ (Busy(s) /\ (Asked(s, irq) \/ Answered(s, irq)))
  BY DEF IInv
<1> HIDE DEF s
<1>3. ~Asked(s, irq) /\ ~Stalled(s, irq) /\ ~Receiving(s, irq)
  BY <1>1 DEF Asked, Stalled, Receiving
<1>4. ~Sending(s, irq) /\ ~LastSent(s, irq) /\ ~Idle(s, irq)
  BY DEF Sending, LastSent, Idle, NoXfer
<1>5. QED
  BY <1>2, <1>3, <1>4 DEF Answered, s

LEMMA StatusInStep ==
  ASSUME IInv, StatusIn PROVE IInv'
<1> DEFINE s == State
           b == AfterOk(belief, host.r)
<1>1. /\ host.stage = "status" /\ ~host.r.in /\ "DATAEND" \in csr /\ "SENDSTALL" \notin csr
      /\ csr' = csr \ {"DATAEND"} /\ EndTransfer(b)
      /\ UNCHANGED <<fifo, faddr, ep0, req, config, fn>>
  BY DEF StatusIn
<1>2. Rest(s) /\ host.r \in Requests /\ belief \in Beliefs
  BY DEF IInv, Transfers
<1>3. Done(s, irq)
  BY <1>1, StatusInDone
<1>4. Proper(host.r)
  <2>1. ~Idle(s, irq)
    BY <1>1 DEF Idle, NoXfer
  <2>2. QED
    BY <2>1 DEF IInv, Busy
<1>5. b \in Beliefs
  BY <1>2, <1>4, AfterOkType
<1>6. s.csr = csr /\ s.ep0 = ep0 /\ s.fifo = fifo
  BY StateFields
<1>7. s.fifo \in Fifos
  BY <1>2, StateFacts DEF Rest
<1> HIDE DEF s, b
<1>8. /\ csr = {"DATAEND"} /\ ep0.stage = "STATUSIN" /\ Addressed(s, b.addr)
      /\ Match(s.fn, s.config, b) /\ ~Pending(s)
  BY <1>3, <1>6 DEF Done, Pending, b
<1>9. csr' = {} /\ fifo' \in Fifos
  BY <1>1, <1>6, <1>7, <1>8
<1>10. QED
  BY <1>1, <1>2, <1>5, <1>8, <1>9, EndStep DEF s

(* The host has what it asked for, or enough of it.                         *)
LEMMA StatusOutStep ==
  ASSUME IInv, NEW c, StatusOut(c) PROVE IInv'
<1> DEFINE s == State
           b == belief
<1>1. /\ host.r.in /\ {"RXPKTRDY", "SENDSTALL"} \cap csr = {}
      /\ csr' = (csr \ {"TXPKTRDY", "DATAEND"})
                \cup (IF "DATAEND" \in csr THEN {} ELSE {"SETUPEND"})
      /\ fifo' = EmptyFifo /\ EndTransfer(b)
      /\ UNCHANGED <<faddr, ep0, req, config, fn>>
  BY DEF StatusOut
<1>2. Rest(s) /\ belief \in Beliefs /\ b \in Beliefs
  BY DEF IInv
<1>3. s.csr = csr /\ s.ep0 = ep0
  BY StateFields
<1>4. Idle(s, irq) \/ (Busy(s) /\ (Asked(s, irq) \/ Answered(s, irq)))
  BY DEF IInv
<1> HIDE DEF s
<1>5. ~Asked(s, irq) /\ ~Stalled(s, irq)
  BY <1>1, <1>3 DEF Asked, Stalled
<1>6. ~Done(s, irq) /\ ~Receiving(s, irq) /\ ~Idle(s, irq)
  BY <1>1 DEF Done, Receiving, SetRequest, Idle, NoXfer, NoRequest
<1>7. s.faddr = belief.addr
  BY <1>4, <1>6 DEF Busy
<1>8. fifo' \in Fifos
  BY <1>1, EmptyFifoFits
<1>9. CASE Sending(s, irq)
  <2>1. /\ ep0.stage = "TX" /\ csr \subseteq {"TXPKTRDY"} /\ Match(s.fn, s.config, b)
        /\ ~Pending(s)
    BY <1>3, <1>9 DEF Sending, Pending
  <2>2. Addressed(s, b.addr)
    BY <1>3, <1>7, <2>1 DEF Addressed
  <2>3. csr' = {"SETUPEND"}
    BY <1>1, <2>1
  <2>4. QED
    BY <1>1, <1>2, <1>8, <2>1, <2>2, <2>3, EndStep DEF s
<1>10. CASE LastSent(s, irq)
  <2>1. /\ ep0.stage = "STATUSOUT" /\ csr \subseteq {"TXPKTRDY", "DATAEND"} /\ "DATAEND" \in csr
        /\ Match(s.fn, s.config, b) /\ ~Pending(s)
    BY <1>3, <1>10 DEF LastSent, Pending
  <2>2. Addressed(s, b.addr)
    BY <1>3, <1>7, <2>1 DEF Addressed
  <2>3. csr' = {}
    BY <1>1, <2>1
  <2>4. QED
    BY <1>1, <1>2, <1>8, <2>1, <2>2, <2>3, EndStep DEF s
<1>11. QED
  BY <1>4, <1>5, <1>6, <1>9, <1>10 DEF Answered

LEMMA GetStallStep ==
  ASSUME IInv, GetStall PROVE IInv'
<1> DEFINE s == State
           b == AfterStall(belief, host.r)
<1>1. /\ host.stage # "idle" /\ "SENDSTALL" \in csr
      /\ csr' = (csr \ {"SENDSTALL", "DATAEND"}) \cup {"SENTSTALL"} /\ EndTransfer(b)
      /\ UNCHANGED <<fifo, faddr, ep0, req, config, fn>>
  BY DEF GetStall
<1>2. Rest(s) /\ belief \in Beliefs
  BY DEF IInv
<1>3. s.csr = csr /\ s.ep0 = ep0 /\ s.fifo = fifo
  BY StateFields
<1>4. Idle(s, irq) \/ (Busy(s) /\ (Asked(s, irq) \/ Answered(s, irq)))
  BY DEF IInv
<1>5. s.fifo \in Fifos
  BY <1>2, StateFacts DEF Rest
<1>6. b \in Beliefs /\ b.addr = belief.addr
  BY <1>2, AfterStallType
<1> HIDE DEF s
<1>7. ~Idle(s, irq) /\ ~Asked(s, irq) /\ ~Done(s, irq)
  BY <1>1, <1>3 DEF Idle, Asked, Done
<1>8. ~Sending(s, irq) /\ ~LastSent(s, irq) /\ ~Receiving(s, irq)
  BY <1>1, <1>3 DEF Sending, LastSent, Receiving
<1>9. Stalled(s, irq) /\ s.faddr = belief.addr
  BY <1>4, <1>7, <1>8 DEF Answered, Busy
<1>10. /\ ep0.stage = "IDLE" /\ csr \subseteq {"SENDSTALL", "DATAEND"}
       /\ Match(s.fn, s.config, b) /\ ~Pending(s)
  BY <1>3, <1>9 DEF Stalled, Pending
<1> HIDE DEF b
<1>11. Addressed(s, b.addr)
  BY <1>3, <1>6, <1>9, <1>10 DEF Addressed
<1>12. csr' = {"SENTSTALL"} /\ fifo' \in Fifos
  BY <1>1, <1>3, <1>5, <1>10
<1>13. QED
  BY <1>1, <1>2, <1>6, <1>10, <1>11, <1>12, EndStep DEF s

(* Whatever a transfer has come to, the rates, the volume and the mute      *)
(* control the host still is sure of without its answer are those of the    *)
(* device.                                                                  *)
LEMMA Sure ==
  ASSUME IInv
  PROVE  LET d == Doubt(belief, host.r)
         IN  /\ Known(d.cRate, fn.cRate) /\ Known(d.pRate, fn.pRate)
             /\ Known(d.volume, fn.volume) /\ Known(d.mute, fn.mute)
<1> DEFINE s == State
           r == host.r
           d == Doubt(belief, r)
           Right(b) == /\ Known(b.cRate, fn.cRate) /\ Known(b.pRate, fn.pRate)
                       /\ Known(b.volume, fn.volume) /\ Known(b.mute, fn.mute)
           Weaker(b) == /\ d.cRate \in {b.cRate, Unknown} /\ d.pRate \in {b.pRate, Unknown}
                        /\ d.volume \in {b.volume, Unknown} /\ d.mute \in {b.mute, Unknown}
<1>1. belief \in Beliefs /\ r \in Requests
  BY DEF IInv, Transfers
<1>2. s.fn = fn
  BY StateFields
<1>3. Idle(s, irq) \/ (Busy(s) /\ (Asked(s, irq) \/ Answered(s, irq)))
  BY DEF IInv
<1>4. Weaker(belief)
  BY <1>1, DoubtFacts
<1> HIDE DEF s, d
<1>5. ASSUME NEW b, Weaker(b), Right(b) PROVE Right(d)
  BY <1>5 DEF Known
<1>6. ASSUME NEW b, Match(s.fn, s.config, b) PROVE Right(b)
  BY <1>2, <1>6 DEF Match
<1>7. CASE Match(s.fn, s.config, belief)
  BY <1>4, <1>5, <1>6, <1>7 DEF d
<1>8. CASE Busy(s) /\ Stalled(s, irq)
  <2> DEFINE b == AfterStall(belief, r)
  <2>1. Match(s.fn, s.config, b)
    BY <1>8 DEF Stalled
  <2>2. /\ b.cRate = belief.cRate /\ b.pRate = belief.pRate
        /\ b.volume = belief.volume /\ b.mute = belief.mute
    BY <1>1, AfterStallType
  <2> HIDE DEF b
  <2>3. Right(b) /\ Weaker(b)
    BY <1>4, <1>6, <2>1, <2>2
  <2>4. QED
    BY <1>5, <2>3 DEF d
<1>9. CASE Busy(s) /\ Done(s, irq)
  <2> DEFINE b == AfterOk(belief, r)
  <2>1. Match(s.fn, s.config, b)
    BY <1>9 DEF Done
  <2>2. Weaker(b)
    BY <1>1, <1>9, DoubtAfter DEF Busy, d
  <2> HIDE DEF b
  <2>3. Right(b)
    BY <1>6, <2>1
  <2>4. QED
    BY <1>5, <2>2, <2>3 DEF d
<1>10. QED
  BY <1>3, <1>7, <1>8, <1>9 DEF Answered, Idle, Asked, Sending, LastSent, Receiving

LEMMA BusResetStep ==
  ASSUME IInv, BusReset PROVE IInv'
<1> DEFINE s == State
           d == Doubt(belief, host.r)
           st == "SETUP"
           a == 0
           u == Unknown
           e == [ep0 EXCEPT !.stage = st, !.address = a]
           b == [d EXCEPT !.addr = a, !.cfg = u]
<1>1. /\ csr' = {} /\ fifo' = EmptyFifo /\ irq' = FALSE /\ faddr' = a /\ ep0' = e
      /\ host' = NoXfer /\ belief' = b
      /\ UNCHANGED <<req, config, fn>>
  BY DEF BusReset
<1>2. Rest(s) /\ belief \in Beliefs /\ host.r \in Requests
  BY DEF IInv, Transfers
<1>3. d \in Beliefs
  BY <1>2, DoubtFacts
<1>4. /\ Known(d.cRate, fn.cRate) /\ Known(d.pRate, fn.pRate)
      /\ Known(d.volume, fn.volume) /\ Known(d.mute, fn.mute)
      /\ (Pending(s) => d.mute = Unknown)
  BY Sure, GivenUp
<1>5. st \in Stages /\ a \in Nat /\ u \in Int
  BY DEF Stages, Unknown
<1>6. /\ s.csr = csr /\ s.fifo = fifo /\ s.faddr = faddr /\ s.ep0 = ep0 /\ s.req = req
      /\ s.config = config /\ s.fn = fn
  BY StateFields
<1> HIDE DEF s, d, st, a, u
<1>7. ep0 \in Ep0States /\ req \in ReqStates /\ config \in {0, 1} /\ fn \in FnStates
  BY <1>2, <1>6, StateFacts DEF Rest
<1>8. /\ e \in Ep0States /\ e.stage = st /\ e.ackpend = ep0.ackpend
      /\ e.setAddress = ep0.setAddress
  BY <1>5, <1>7 DEF Ep0States
<1>9. /\ b \in Beliefs /\ b.addr = a /\ b.cfg = u /\ b.cRate = d.cRate /\ b.pRate = d.pRate
      /\ b.volume = d.volume /\ b.mute = d.mute
  BY <1>3, <1>5 DEF Beliefs
<1> HIDE DEF e, b
<1>10. State' \in States
  <2>1. State' = [csr |-> csr', fifo |-> fifo', faddr |-> faddr', ep0 |-> ep0', req |-> req,
                  config |-> config, fn |-> fn]
    BY <1>1 DEF State
  <2>2. csr' \in SUBSET CsrBits /\ fifo' \in Fifos /\ faddr' \in Nat /\ ep0' \in Ep0States
    BY <1>1, <1>5, <1>8, EmptyFifoFits
  <2>3. QED
    BY <1>7, <2>1, <2>2 DEF States
<1>11. /\ State'.csr = {} /\ State'.faddr = a /\ State'.ep0 = e /\ State'.req = s.req
       /\ State'.config = s.config /\ State'.fn = s.fn
  BY <1>1, <1>6, StateFields
<1>12. Rest(State')
  BY <1>2, <1>6, <1>8, <1>10, <1>11 DEF Rest, st
<1>13. Match(State'.fn, State'.config, b)
  BY <1>4, <1>6, <1>9, <1>11 DEF Match, Known, u, Unknown
<1>14. Addressed(State', b.addr)
  BY <1>8, <1>9, <1>11 DEF Addressed, st
<1>15. MuteInDoubt(State)'
  BY <1>1, <1>4, <1>9, <1>11 DEF MuteInDoubt, Pending, u
<1>16. Idle(State, irq)'
  BY <1>1, <1>8, <1>11, <1>13, <1>14, <1>15 DEF Idle, st
<1>17. NoXfer \in Transfers
  BY NoRequestFits DEF NoXfer, Transfers
<1>18. QED
  BY <1>1, <1>9, <1>12, <1>16, <1>17 DEF IInv
-----------------------------------------------------------------------------
(* The theorems.                                                            *)

LEMMA InitFn == Init => FnOk(fn)
<1> SUFFICES ASSUME Init PROVE FnOk(fn)
  OBVIOUS
<1>1. fn = [outAlt |-> 0, inAlt |-> 0, outOn |-> FALSE, inOn |-> FALSE, halt |-> {},
            ch |-> 2, size |-> 2, cRate |-> 64000, pRate |-> 48000,
            cMax |-> 256, pMax |-> 192, pPkt |-> 0,
            mute |-> 0, volume |-> 65472, codec |-> Unknown,
            setCon |-> "none", csId |-> "none", ctlId |-> 0]
  BY DEF Init
<1>2. fn \in FnStates
  BY <1>1 DEF FnStates, FuControls, Unknown
<1>3. fn.cRate \in Elements(CRates) /\ fn.pRate \in Elements(PRates)
  BY <1>1, RateSets
<1>4. <<fn.ch, fn.size>> \in Formats
  BY <1>1 DEF Formats
<1>5. fn.outOn = (fn.outAlt # 0) /\ fn.inOn = (fn.inAlt # 0)
  <2>1. fn.outOn = FALSE /\ fn.inOn = FALSE /\ fn.outAlt = 0 /\ fn.inAlt = 0
    BY <1>1
  <2>2. QED
    BY <2>1, Zenon
<1>6. fn.outOn = FALSE /\ fn.inOn = FALSE /\ fn.setCon \in {"none", fn.csId}
  BY <1>1
<1>7. QED
  BY <1>2, <1>3, <1>4, <1>5, <1>6 DEF FnOk

LEMMA InitRest == Init => Rest(State)
<1> SUFFICES ASSUME Init PROVE Rest(State)
  OBVIOUS
<1>1. /\ csr = {} /\ fifo = EmptyFifo /\ faddr = 0 /\ config = 0
      /\ ep0 = [stage |-> "SETUP", ackpend |-> {}, setAddress |-> FALSE, address |-> 0]
      /\ req = [listed |-> FALSE, len |-> 0, actual |-> 0, zero |-> FALSE, buf |-> 0,
                status |-> "0", complete |-> "setup"]
  BY DEF Init
<1>2. ep0 \in Ep0States /\ ep0.stage = "SETUP" /\ ep0.ackpend = {}
  <2> DEFINE none == {}
  <2>1. ep0 = [stage |-> "SETUP", ackpend |-> none, setAddress |-> FALSE, address |-> 0]
    BY <1>1
  <2>2. none \in SUBSET Acks
    OBVIOUS
  <2> HIDE DEF none
  <2>3. ep0 \in Ep0States /\ ep0.stage = "SETUP" /\ ep0.ackpend = none
    BY <2>1, <2>2 DEF Ep0States, Stages
  <2>4. QED
    BY <2>3 DEF none
<1>3. /\ req \in ReqStates /\ req.actual = 0 /\ req.len = 0 /\ req.listed = FALSE
  BY <1>1 DEF ReqStates
<1>4. ReqOk(req)
  BY <1>3 DEF ReqOk
<1>5. FnOk(fn)
  BY InitFn
<1>6. fn \in FnStates
  BY <1>5 DEF FnOk
<1>7. csr \in SUBSET CsrBits /\ fifo \in Fifos /\ faddr \in Nat /\ config \in {0, 1}
  BY <1>1, EmptyFifoFits
<1>8. State \in States
  BY <1>2, <1>3, <1>6, <1>7 DEF State, States
<1>9. QED
  BY <1>1, <1>2, <1>4, <1>5, <1>8, StateFields DEF Rest

LEMMA InitHolds == Init => IInv
<1> SUFFICES ASSUME Init PROVE IInv
  OBVIOUS
<1> DEFINE alt == [i \in {OutIntf, InIntf} |-> 0]
           none == {}
           b == [addr |-> 0, cfg |-> 0, alt |-> alt, cRate |-> 64000, pRate |-> 48000,
                 mute |-> 0, volume |-> 65472, halted |-> none]
<1>1. belief = b /\ host = NoXfer /\ irq = FALSE
  BY DEF Init
<1>2. alt \in [{OutIntf, InIntf} -> Nat] /\ none \in SUBSET {"out", "in"}
  OBVIOUS
<1> HIDE DEF alt, none
<1>3. /\ belief \in Beliefs /\ belief.addr = 0 /\ belief.cfg = 0 /\ belief.cRate = 64000
      /\ belief.pRate = 48000 /\ belief.volume = 65472 /\ belief.mute = 0
  BY <1>1, <1>2 DEF Beliefs
<1>4. NoXfer \in Transfers
  BY NoRequestFits DEF NoXfer, Transfers
<1>5. Rest(State)
  BY InitRest
<1>6. /\ State.csr = {} /\ State.ep0.stage = "SETUP" /\ State.faddr = 0 /\ State.config = 0
      /\ State.fn = fn /\ State.req.listed = FALSE
  BY StateFields DEF Init
<1>7. fn.cRate = 64000 /\ fn.pRate = 48000 /\ fn.volume = 65472 /\ fn.mute = 0
  BY DEF Init
<1>8. Match(State.fn, State.config, belief)
  BY <1>3, <1>6, <1>7 DEF Match, Known
<1>9. Addressed(State, belief.addr)
  BY <1>3, <1>6 DEF Addressed
<1>10. Idle(State, irq)
  BY <1>1, <1>6, <1>8, <1>9 DEF Idle, MuteInDoubt, Pending
<1>11. irq \in BOOLEAN /\ host \in Transfers /\ belief \in Beliefs
  <2>1. irq = FALSE /\ host = NoXfer
    BY DEF Init
  <2>2. irq \in BOOLEAN
    BY <2>1
  <2>3. host \in Transfers
    BY <1>4, <2>1
  <2>4. QED
    BY <1>3, <2>2, <2>3
<1>12. QED
  BY <1>5, <1>10, <1>11 DEF IInv

LEMMA UnchangedStep ==
  ASSUME IInv, UNCHANGED vars PROVE IInv'
<1>1. /\ csr' = csr /\ fifo' = fifo /\ irq' = irq /\ faddr' = faddr /\ ep0' = ep0
      /\ req' = req /\ config' = config /\ fn' = fn /\ host' = host /\ belief' = belief
  BY DEF vars
<1>2. State' = State
  BY <1>1 DEF State
<1>3. Phase(State, irq) /\ Rest(State)
  BY DEF IInv, Phase
<1>5. Phase(State, irq)'
  <2>1. ASSUME NEW t, NEW j, Phase(t, j) PROVE Phase(t, j)'
    BY <1>1, <2>1, SamePhase
  <2>2. PICK t : t = State
    OBVIOUS
  <2>3. PICK j : j = irq
    OBVIOUS
  <2>4. Phase(t, j)'
    BY <1>3, <2>1, <2>2, <2>3
  <2>5. State' = t /\ irq' = j
    BY <1>1, <1>2, <2>2, <2>3
  <2>6. QED
    BY <2>4, <2>5
<1>6. QED
  BY <1>1, <1>2, <1>3, <1>5 DEF IInv, Phase

(* The inductive invariant: a transfer is always in one of its phases, and  *)
(* in each of them the device is what the host believes it to be.           *)
THEOREM Invariance == Spec => []IInv
<1>1. Init => IInv
  BY InitHolds
<1>2. IInv /\ [Next]_vars => IInv'
  <2> SUFFICES ASSUME IInv, [Next]_vars PROVE IInv'
    OBVIOUS
  <2>1. CASE Irq
    BY <2>1, IrqStep
  <2>2. CASE StartTransfer
    BY <2>2, StartStep
  <2>3. CASE Abort
    BY <2>3, AbortStep
  <2>4. CASE SendData
    BY <2>4, SendDataStep
  <2>5. CASE TakeData
    BY <2>5, TakeDataStep
  <2>6. CASE StatusIn
    BY <2>6, StatusInStep
  <2>7. CASE Read
    BY <2>7, StatusOutStep DEF Read
  <2>8. CASE ReadEnough
    BY <2>8, StatusOutStep DEF ReadEnough
  <2>9. CASE GetStall
    BY <2>9, GetStallStep
  <2>10. CASE BusReset
    BY <2>10, BusResetStep
  <2>11. CASE UNCHANGED vars
    BY <2>11, UnchangedStep
  <2>12. QED
    BY <2>1, <2>2, <2>3, <2>4, <2>5, <2>6, <2>7, <2>8, <2>9, <2>10, <2>11 DEF Next, HostNext
<1>3. QED
  BY <1>1, <1>2, PTL DEF Spec
-----------------------------------------------------------------------------
(* What follows from it.                                                    *)

LEMMA InvariantParts ==
  ASSUME IInv
  PROVE  /\ irq \in BOOLEAN /\ host \in Transfers /\ belief \in Beliefs
         /\ csr \subseteq CsrBits /\ fifo \in Fifos /\ ep0 \in Ep0States
         /\ ReqOk(req) /\ config \in {0, 1} /\ FnOk(fn)
<1>1. Rest(State) /\ irq \in BOOLEAN /\ host \in Transfers /\ belief \in Beliefs
  BY DEF IInv
<1>2. State \in States /\ FnOk(State.fn) /\ ReqOk(State.req)
  BY <1>1 DEF Rest
<1>3. QED
  BY <1>1, <1>2, StateFacts, StateFields

(* CSR0, the FIFO, the driver's stage, the request, the configuration and   *)
(* the settings of the function are always ones they may have.              *)
THEOREM TypeCorrect == Spec => []TypeOK
<1>1. ASSUME IInv PROVE TypeOK
  <2>1. /\ irq \in BOOLEAN /\ csr \subseteq CsrBits /\ fifo \in Fifos /\ ep0 \in Ep0States
        /\ ReqOk(req) /\ config \in {0, 1} /\ fn \in FnStates
    BY <1>1, InvariantParts DEF FnOk
  <2>2. fifo.kind \in {"empty", "setup", "out", "in"} /\ fifo.n \in 0 .. Ep0Fifo
    BY <2>1 DEF Fifos
  <2>3. ep0.stage \in {"IDLE", "SETUP", "TX", "RX", "ACKWAIT", "STATUSIN", "STATUSOUT"}
    BY <2>1 DEF Ep0States, Stages
  <2>4. req.actual \in 0 .. req.len
    BY <2>1 DEF ReqOk, ReqStates
  <2>5. fn.outAlt \in 0 .. 5 /\ fn.inAlt \in 0 .. 5
    BY <2>1 DEF FnStates
  <2>6. QED
    BY <2>1, <2>2, <2>3, <2>4, <2>5 DEF TypeOK
<1>2. QED
  BY <1>1, Invariance, PTL

(* Between transfers host and device agree on the address, the              *)
(* configuration, the settings, the rates, the volume and the mute control, *)
(* as far as the host can know them, whatever was given up, refused or      *)
(* reset before.                                                            *)
THEOREM AgreementHolds == Spec => []Agreement
<1>1. ASSUME IInv, host.stage = "idle", irq = FALSE
      PROVE  /\ faddr = belief.addr /\ Match(fn, config, belief)
  <2>1. Idle(State, irq)
    BY <1>1 DEF IInv, Busy
  <2>2. State.ep0.stage # "STATUSIN"
    BY <1>1, <2>1 DEF Idle
  <2>3. State.faddr = belief.addr
    BY <2>1, <2>2 DEF Idle, Addressed
  <2>4. Match(State.fn, State.config, belief)
    BY <2>1 DEF Idle
  <2>5. QED
    BY <2>3, <2>4, StateFields
<1>2. ASSUME IInv, host.stage = "idle", irq = FALSE
      PROVE  /\ faddr = belief.addr
             /\ Known(belief.cfg, config)
             /\ belief.cfg = 1 =>
                  /\ belief.alt[OutIntf] = fn.outAlt /\ fn.outOn = (fn.outAlt # 0)
                  /\ belief.alt[InIntf] = fn.inAlt /\ fn.inOn = (fn.inAlt # 0)
             /\ Known(belief.cRate, fn.cRate) /\ Known(belief.pRate, fn.pRate)
             /\ Known(belief.volume, fn.volume) /\ Known(belief.mute, fn.mute)
  <2>1. faddr = belief.addr /\ Match(fn, config, belief)
    BY <1>1, <1>2
  <2>2. fn.outOn = (fn.outAlt # 0) /\ fn.inOn = (fn.inAlt # 0)
    BY <1>2, InvariantParts DEF FnOk
  <2>3. /\ Known(belief.cfg, config)
        /\ belief.cfg = 1 => belief.alt[OutIntf] = fn.outAlt /\ belief.alt[InIntf] = fn.inAlt
        /\ Known(belief.cRate, fn.cRate) /\ Known(belief.pRate, fn.pRate)
        /\ Known(belief.volume, fn.volume) /\ Known(belief.mute, fn.mute)
    BY <2>1 DEF Match
  <2>4. QED
    BY <2>1, <2>2, <2>3, Zenon
<1>3. ASSUME IInv PROVE Agreement
  <2>1. CASE host.stage = "idle" /\ irq = FALSE
    BY <1>2, <1>3, <2>1, Zenon DEF Agreement
  <2>2. CASE host.stage # "idle" \/ irq = TRUE
    BY <2>2, Zenon DEF Agreement
  <2>3. irq = TRUE \/ irq = FALSE
    BY <1>3 DEF IInv
  <2>4. QED
    BY <2>1, <2>2, <2>3
<1>4. QED
  BY <1>3, Invariance, PTL

(* What a host has read when it goes on to the status stage is the whole    *)
(* answer to its own request, never part of it or of another one.           *)
THEOREM ReadsHold == Spec => []ReadsAnswer
<1>1. ASSUME IInv, host.stage = "status", host.r.in
      PROVE  host.n = Least(AnswerLength(host.r), host.r.len) /\ ReadSoFar
  <2>1. ~Idle(State, irq)
    BY <1>1 DEF Idle, NoXfer
  <2>2. Busy(State) /\ (Asked(State, irq) \/ Answered(State, irq))
    BY <1>1, <2>1 DEF IInv
  <2>3. GetRequest(host.r)
    BY <1>1, <2>2 DEF Busy, Proper, NoDataRequest, SetRequest
  <2>4. ~Asked(State, irq)
    <3>1. SUFFICES ASSUME Asked(State, irq) PROVE FALSE
      OBVIOUS
    <3>2. host.stage = IF host.r.len = 0 THEN "status" ELSE "data"
      BY <3>1 DEF Asked, NoXfer
    <3>3. host.r.len # 0
      BY <2>3 DEF GetRequest
    <3>4. QED
      BY <1>1, <3>2, <3>3
  <2>5. /\ ~Stalled(State, irq) /\ ~Done(State, irq) /\ ~Sending(State, irq)
        /\ ~Receiving(State, irq)
    BY <1>1 DEF Stalled, Done, Sending, Receiving, SetRequest
  <2>6. LastSent(State, irq)
    BY <2>2, <2>4, <2>5 DEF Answered
  <2>7. QED
    BY <1>1, <2>6 DEF LastSent, ToRead
<1>2. ASSUME IInv PROVE ReadsAnswer
  BY <1>1, <1>2 DEF ReadsAnswer, ReadSoFar
<1>3. QED
  BY <1>2, Invariance, PTL

(* In every setting that streams, at every rate it may have, a packet fits  *)
(* the endpoint's FIFO and the packet size register.                        *)
THEOREM PacketsFit == Spec => []PacketFits
<1>1. ASSUME IInv PROVE PacketFits
  <2>1. FnOk(fn)
    BY <1>1, InvariantParts
  <2>2. QED
    BY <2>1, TablesAssumption DEF FnOk, PacketFits
<1>2. QED
  BY <1>1, Invariance, PTL

-----------------------------------------------------------------------------
(* What a step may do to the rates and the volume.                          *)

LEMMA StepAllowed ==
  ASSUME IInv, [Next]_vars PROVE Allowed(fn')
<1>1. CASE Irq
  <2>1. irq = TRUE
    BY <1>1 DEF IInv, Irq
  <2>2. fn' = Ep0Irq(State).fn
    BY <1>1 DEF Irq, Become
  <2>3. QED
    BY <2>1, <2>2, IrqPhase
<1>2. CASE HostNext \/ UNCHANGED vars
  <2>1. fn' = fn
    <3>1. CASE StartTransfer
      BY <3>1 DEF StartTransfer, SendSetup
    <3>2. CASE Abort
      BY <3>2 DEF Abort, SendSetup
    <3>3. CASE SendData \/ TakeData \/ StatusIn \/ GetStall \/ BusReset
      BY <3>3 DEF SendData, TakeData, StatusIn, GetStall, BusReset
    <3>4. CASE Read \/ ReadEnough
      BY <3>4 DEF Read, ReadEnough, StatusOut
    <3>5. CASE UNCHANGED vars
      BY <3>5 DEF vars
    <3>6. QED
      BY <1>2, <3>1, <3>2, <3>3, <3>4, <3>5 DEF HostNext
  <2>2. QED
    BY <2>1 DEF Allowed
<1>3. QED
  BY <1>1, <1>2 DEF Next

(* The volume changes only to the one the host has sent completely, while   *)
(* it waits for the status stage of that request: no aborted or resent      *)
(* transfer, and no other request that completes, stores one.               *)
THEOREM VolumeHolds == Spec => VolumeFromHost
<1>1. ASSUME IInv, [Next]_vars
      PROVE  [fn'.volume # fn.volume => Sent("volume", fn'.volume)]_vars
  BY <1>1, StepAllowed DEF Allowed
<1>2. QED
  BY <1>1, Invariance, PTL DEF Spec, VolumeFromHost

(* The rates too, except that selecting a setting may lower that of the OUT *)
(* interface.                                                               *)
THEOREM RateHolds == Spec => RateFromHost
<1>1. ASSUME IInv, [Next]_vars
      PROVE  [/\ fn'.cRate # fn.cRate =>
                   \/ Sent("sam_freq", fn'.cRate) /\ host.r.intf = OutClk
                   \/ /\ host.r.name \in {"SET_INTERFACE", "SET_CONFIGURATION"}
                      /\ fn'.cRate < fn.cRate
              /\ fn'.pRate # fn.pRate =>
                   Sent("sam_freq", fn'.pRate) /\ host.r.intf = InClk]_vars
  BY <1>1, StepAllowed DEF Allowed
<1>2. QED
  BY <1>1, Invariance, PTL DEF Spec, RateFromHost
=============================================================================
