------------------------------- MODULE I2c_proofs -------------------------------
(***************************************************************************)
(* However a call ends (refused, timed out, half way through a DMA         *)
(* transfer, after a reset), no byte it asked for is taken for an answer   *)
(* of the next call, for every depth of the FIFOs and every set of calls.  *)
(*                                                                         *)
(* The argument follows the read commands: at most one is in the FIFO, and *)
(* none while a byte waits; and the bus at rest: between calls the bus is  *)
(* either idle with nothing queued and nothing to queue, or an abort is    *)
(* under way, after which nothing can be queued until a call looks.        *)
(*                                                                         *)
(* The second part is about a call during which the device is there and    *)
(* lets the clock go: it is refused nothing and no timer expires, so that  *)
(* how many of its commands were given and how many of them were sent say  *)
(* where the bus is, at which register the device stands, and what it      *)
(* holds.                                                                  *)
(***************************************************************************)
EXTENDS I2c, SeqFacts

(* A call reads or writes a byte at least.                                  *)
CallsProper ==
  \A c \in Calls :
    /\ c.op \in {"write", "read"}
    /\ c.op = "write" => Len(c.data) \in Nat \ {0}
    /\ c.op = "read" => c.n \in Nat \ {0}

-----------------------------------------------------------------------------
(* The invariant.                                                           *)

Places == {"idle", "init", "write", "read", "await", "dma", "stop", "settle", "return"}
Resting == {"idle", "init", "return"}

(* The program is somewhere in its call.                                    *)
CallOk ==
  /\ DOMAIN p = {"call", "at", "pos", "ret", "buf", "calm", "from"}
  /\ p.at \in Places /\ p.pos \in Nat
  /\ p.at = "idle" => p.call = NoCall /\ p.pos = 0
  /\ p.at # "idle" => p.call \in Calls /\ p.pos <= Length
  /\ p.at = "init" => p.pos = 0
  /\ p.at \in {"write", "read", "await"} => p.pos < Length

CtlFields == {"enabled", "dmaOn", "target", "tx", "rx", "open", "reading", "abrt", "stopDet", "abort"}
CtlOk(c) ==
  /\ DOMAIN c = CtlFields
  /\ IsSeq(c.tx) /\ IsSeq(c.rx) /\ Len(c.tx) <= FifoSize /\ Len(c.rx) <= 1

(* Read commands in the FIFO.                                               *)
NoReads(s) == \A i \in 1 .. Len(s) : ~s[i].read
OneRead(s) == \A i, j \in 1 .. Len(s) : s[i].read /\ s[j].read => i = j

(* A byte that waits is the answer of the only read command there was.      *)
ReadsInv ==
  /\ OneRead(ctl.tx)
  /\ ctl.rx # <<>> => NoReads(ctl.tx)
  /\ p.at \in {"write", "read", "dma"} => NoReads(ctl.tx) /\ ctl.rx = <<>>

(* The bus between calls.                                                   *)
RestInv ==
  /\ p.at \notin Resting => ~ctl.abort
  /\ p.at \in Resting =>
       /\ ctl.rx = <<>>
       /\ ~ctl.abort => /\ ~ctl.open /\ ctl.tx = <<>>
                        /\ dma[0].en /\ ctl.dmaOn => ctl.abrt

(* Without DMA no channel runs.                                             *)
ModeInv == ~dma_mode => ~dma[0].en

IInv == CallOk /\ CtlOk(ctl) /\ ReadsInv /\ RestInv /\ ModeInv

-----------------------------------------------------------------------------
(* Facts about the commands.                                                *)

(* A command that comes in.                                                 *)
LEMMA AppendReads ==
  ASSUME NEW s, IsSeq(s), NEW cmd
  PROVE  /\ NoReads(s) /\ ~cmd.read => NoReads(Append(s, cmd))
         /\ NoReads(s) => OneRead(Append(s, cmd))
         /\ OneRead(s) /\ ~cmd.read => OneRead(Append(s, cmd))
<1> DEFINE t == Append(s, cmd)
<1>1. /\ Len(s) \in Nat /\ Len(t) = Len(s) + 1
      /\ \A i \in 1 .. Len(s) : t[i] = s[i]
      /\ t[Len(s) + 1] = cmd
  BY PushSeq, LengthOfSeq
<1> HIDE DEF t
<1>2. \A i \in 1 .. Len(t) : i \in 1 .. Len(s) \/ i = Len(s) + 1
  BY <1>1
<1>3. NoReads(s) /\ ~cmd.read => NoReads(t)
  BY <1>1, <1>2 DEF NoReads
<1>4. NoReads(s) => OneRead(t)
  BY <1>1, <1>2 DEF NoReads, OneRead
<1>5. OneRead(s) /\ ~cmd.read => OneRead(t)
  BY <1>1, <1>2 DEF OneRead
<1>6. QED
  BY <1>3, <1>4, <1>5 DEF t

(* A command that goes out.                                                 *)
LEMMA TailReads ==
  ASSUME NEW s, IsSeq(s), s # <<>>
  PROVE  /\ NoReads(s) => NoReads(Tail(s)) /\ ~Head(s).read
         /\ OneRead(s) => OneRead(Tail(s))
         /\ OneRead(s) /\ Head(s).read => NoReads(Tail(s))
<1> DEFINE t == Tail(s)
<1>1. /\ Len(s) \in Nat /\ Len(t) = Len(s) - 1 /\ Len(s) >= 1
      /\ \A i \in 1 .. Len(s) - 1 : t[i] = s[i + 1]
  BY PopSeq, LengthOfSeq
<1>2. Head(s) = s[1]
  BY DEF IsSeq
<1> HIDE DEF t
<1>3. \A i \in 1 .. Len(t) : i + 1 \in 1 .. Len(s) /\ t[i] = s[i + 1] /\ i + 1 # 1
  BY <1>1
<1>4. 1 \in 1 .. Len(s)
  BY <1>1
<1>5. NoReads(s) => NoReads(t) /\ ~Head(s).read
  BY <1>2, <1>3, <1>4 DEF NoReads
<1>6. OneRead(s) => OneRead(t)
  <2> SUFFICES ASSUME OneRead(s), NEW i \in 1 .. Len(t), NEW j \in 1 .. Len(t),
                      t[i].read, t[j].read
               PROVE  i = j
    BY DEF OneRead
  <2>1. i + 1 = j + 1
    BY <1>3 DEF OneRead
  <2>2. QED
    BY <1>1, <2>1
<1>7. OneRead(s) /\ Head(s).read => NoReads(t)
  BY <1>2, <1>3, <1>4 DEF OneRead, NoReads
<1>8. QED
  BY <1>5, <1>6, <1>7 DEF t

(* An empty FIFO holds no read.                                             *)
LEMMA EmptyReads == IsSeq(<<>>) /\ Len(<<>>) = 0 /\ NoReads(<<>>) /\ OneRead(<<>>)
BY LengthOfSeq DEF NoReads, OneRead

(* A write of DATA_CMD changes the FIFO only, and that only when there is   *)
(* room and no abort.                                                       *)
LEMMA PushOk ==
  ASSUME NEW c, CtlOk(c), NEW cmd
  PROVE  /\ CtlOk(Push(c, cmd))
         /\ \A f \in CtlFields \ {"tx"} : Push(c, cmd)[f] = c[f]
         /\ c.abrt => Push(c, cmd) = c
         /\ NoReads(c.tx) /\ ~cmd.read => NoReads(Push(c, cmd).tx)
         /\ NoReads(c.tx) => OneRead(Push(c, cmd).tx)
         /\ OneRead(c.tx) /\ ~cmd.read => OneRead(Push(c, cmd).tx)
<1>0. FifoSize \in Nat /\ Len(c.tx) \in Nat
  BY I2cAssumption, LengthOfSeq DEF CtlOk
<1>1. CASE c.enabled /\ ~c.abrt /\ Len(c.tx) < FifoSize
  <2> DEFINE t == Append(c.tx, cmd)
  <2>1. Push(c, cmd) = [c EXCEPT !.tx = t]
    BY <1>1 DEF Push
  <2>2. /\ IsSeq(t) /\ Len(t) = Len(c.tx) + 1
        /\ NoReads(c.tx) /\ ~cmd.read => NoReads(t)
        /\ NoReads(c.tx) => OneRead(t)
        /\ OneRead(c.tx) /\ ~cmd.read => OneRead(t)
    BY PushSeq, AppendReads DEF CtlOk
  <2> HIDE DEF t
  <2>3. /\ DOMAIN Push(c, cmd) = CtlFields /\ Push(c, cmd).tx = t
        /\ \A f \in CtlFields \ {"tx"} : Push(c, cmd)[f] = c[f]
    BY <2>1 DEF CtlOk, CtlFields
  <2>4. Push(c, cmd).rx = c.rx
    BY <2>3 DEF CtlFields
  <2>5. CtlOk(Push(c, cmd))
    BY <1>0, <1>1, <2>2, <2>3, <2>4 DEF CtlOk
  <2>6. QED
    BY <1>1, <2>2, <2>3, <2>5
<1>2. CASE ~(c.enabled /\ ~c.abrt /\ Len(c.tx) < FifoSize)
  <2>1. Push(c, cmd) = c
    BY <1>2 DEF Push
  <2>2. NoReads(c.tx) => OneRead(c.tx)
    BY DEF NoReads, OneRead
  <2>3. QED
    BY <2>1, <2>2
<1>3. QED
  BY <1>1, <1>2
(* The fields of the controller that a write of DATA_CMD leaves alone.      *)
LEMMA PushKeeps ==
  ASSUME NEW c, CtlOk(c), NEW cmd
  PROVE  /\ Push(c, cmd).rx = c.rx /\ Push(c, cmd).open = c.open
         /\ Push(c, cmd).abort = c.abort /\ Push(c, cmd).abrt = c.abrt
         /\ Push(c, cmd).dmaOn = c.dmaOn
BY PushOk DEF CtlFields

(* ... and what it does to the reads.                                       *)
LEMMA PushReads ==
  ASSUME NEW c, CtlOk(c), NEW cmd, NoReads(c.tx)
  PROVE  /\ CtlOk(Push(c, cmd)) /\ OneRead(Push(c, cmd).tx)
         /\ ~cmd.read => NoReads(Push(c, cmd).tx)
BY PushOk

(* A controller after a reset, or with its FIFOs emptied.                   *)
LEMMA FreshOk ==
  /\ CtlOk(AfterReset) /\ AfterReset.tx = <<>> /\ AfterReset.rx = <<>>
  /\ ~AfterReset.open /\ ~AfterReset.abort /\ ~AfterReset.dmaOn
  /\ CtlOk(InitHw) /\ InitHw.tx = <<>> /\ InitHw.rx = <<>> /\ ~InitHw.open /\ ~InitHw.abort
BY EmptyReads, I2cAssumption DEF AfterReset, InitHw, CtlOk, CtlFields

(* The length of the call depends on the call alone, and is positive.       *)
LEMMA LengthOk ==
  ASSUME CallsProper, p.call \in Calls PROVE Length \in Nat /\ Length >= 1
BY DEF CallsProper, Length

(* A program that goes on in its call.                                      *)
LEMMA CallGoesOn ==
  ASSUME CallsProper, CallOk, p.at # "idle", DOMAIN p' = DOMAIN p, p'.call = p.call,
         p'.at \in Places \ {"idle", "init"}, p'.pos \in Nat, p'.pos <= Length,
         p'.at \in {"write", "read", "await"} => p'.pos < Length
  PROVE  CallOk'
<1>1. p.call \in Calls
  BY DEF CallOk
<1>2. Length' = Length
  BY DEF Length
<1>3. QED
  BY <1>1, <1>2 DEF CallOk

(* Between calls the bus is idle, when it is ready, with nothing to queue.  *)
LEMMA ReadyMeansIdle ==
  ASSUME BusReady
  PROVE  ~ctl.open /\ ~ctl.abort /\ ctl.tx = <<>> /\ ~(dma[0].en /\ ctl.dmaOn)
<1>1. Len(ctl.tx) <= Tdlr
  BY EmptyReads, I2cAssumption DEF BusReady
<1>2. QED
  BY <1>1 DEF BusReady, Active, Filling

-----------------------------------------------------------------------------
(* One lemma for each kind of step.                                         *)

(* The initial states.                                                      *)
LEMMA InitStep == Init => IInv
<1> SUFFICES ASSUME Init PROVE IInv
  OBVIOUS
<1>1. p = IdleAfter(<<>>) /\ ctl = InitHw
  BY DEF Init
<1>2. CallOk
  BY <1>1 DEF CallOk, IdleAfter, Places
<1>3. CtlOk(ctl) /\ ReadsInv
  BY <1>1, FreshOk, EmptyReads DEF ReadsInv, IdleAfter
<1>4. ~dma[0].en
  BY DEF Init, IdleChannel
<1>5. RestInv /\ ModeInv
  BY <1>1, <1>4, FreshOk DEF RestInv, ModeInv, IdleAfter, Resting
<1>6. QED
  BY <1>2, <1>3, <1>5 DEF IInv

(* The port is set up again.                                                *)
LEMMA InitMasterStep == IInv /\ InitMaster => IInv'
<1> SUFFICES ASSUME IInv, InitMaster PROVE IInv'
  OBVIOUS
<1>1. /\ p.at = "idle" /\ ~dma_mode /\ ctl' = InitHw
      /\ dma_mode' = dma_mode /\ p' = p /\ dma' = dma
  BY DEF InitMaster
<1>2. CallOk'
  BY <1>1 DEF IInv, CallOk, Length
<1>3. CtlOk(ctl') /\ ReadsInv'
  BY <1>1, FreshOk, EmptyReads DEF ReadsInv
<1>4. ~dma'[0].en
  BY <1>1 DEF IInv, ModeInv
<1>5. RestInv' /\ ModeInv'
  BY <1>1, <1>4, FreshOk DEF RestInv, ModeInv, Resting
<1>6. QED
  BY <1>2, <1>3, <1>5 DEF IInv

(* A call starts.                                                           *)
LEMMA StartStep == CallsProper /\ IInv /\ Start => IInv'
<1> SUFFICES ASSUME CallsProper, IInv, Start PROVE IInv'
  OBVIOUS
<1>1. p.at = "idle" /\ dma_mode' = dma_mode /\ ctl' = ctl /\ dma' = dma
  BY DEF Start
<1>2. PICK c \in Calls :
        p' = [IdleAfter(p.from) EXCEPT !.call = c, !.at = "init",
                                       !.calm = (c.dev = "there" /\ ~stall)]
  BY DEF Start
<1>3. /\ DOMAIN p' = {"call", "at", "pos", "ret", "buf", "calm", "from"}
      /\ p'.call = c /\ p'.at = "init" /\ p'.pos = 0
  BY <1>2 DEF IdleAfter
<1>4. Length' \in Nat /\ Length' >= 1
  BY <1>3 DEF CallsProper, Length
<1>5. CallOk'
  BY <1>3, <1>4 DEF CallOk, Places
<1>6. CtlOk(ctl') /\ ReadsInv' /\ RestInv' /\ ModeInv'
  BY <1>1, <1>3 DEF IInv, ReadsInv, RestInv, ModeInv, Resting
<1>7. QED
  BY <1>5, <1>6 DEF IInv

(* A transfer starts on an idle bus, with empty FIFOs.                      *)
LEMMA BeginStep == CallsProper /\ IInv /\ Begin => IInv'
<1> SUFFICES ASSUME CallsProper, IInv, Begin PROVE IInv'
  OBVIOUS
<1>1. /\ p.at = "init" /\ BusReady /\ ctl' = XferInit(Cleared) /\ dma_mode' = dma_mode
      /\ ~dma_mode => dma' = dma
  BY DEF Begin
<1>2. p.call \in Calls /\ p.pos = 0 /\ p.call.op \in {"write", "read"}
  BY <1>1 DEF IInv, CallOk, CallsProper
<1>3. /\ DOMAIN p' = DOMAIN p /\ p'.call = p.call /\ p'.pos = p.pos
      /\ p'.at \in {"dma", "write", "read"}
  BY <1>2 DEF Begin, IInv, CallOk
<1>4. CallOk'
  BY <1>1, <1>2, <1>3, LengthOk, CallGoesOn DEF IInv, Places
<1> DEFINE c0 == SlaveAddr(Cleared, p.call.dev)
           cmd == Byte(p.call.addr[1], FALSE)
<1>5. CtlOk(c0) /\ c0.tx = <<>> /\ c0.rx = <<>> /\ c0.abort = ctl.abort
  BY EmptyReads, I2cAssumption DEF SlaveAddr, Cleared, IInv, CtlOk, CtlFields
<1>6. ~cmd.read
  BY DEF Byte
<1>7. ctl' = c0 \/ ctl' = Push(c0, cmd)
  BY <1>1 DEF XferInit
<1> HIDE DEF c0, cmd
<1>8. /\ CtlOk(ctl') /\ NoReads(ctl'.tx) /\ OneRead(ctl'.tx)
      /\ ctl'.rx = <<>> /\ ctl'.abort = ctl.abort
  <2>1. CtlOk(Push(c0, cmd)) /\ OneRead(Push(c0, cmd).tx) /\ NoReads(Push(c0, cmd).tx)
    BY <1>5, <1>6, EmptyReads, PushReads
  <2>2. Push(c0, cmd).rx = c0.rx /\ Push(c0, cmd).abort = c0.abort
    BY <1>5, PushKeeps
  <2>3. QED
    BY <1>5, <1>7, <2>1, <2>2, EmptyReads
<1>9. ~ctl.abort
  BY <1>1, ReadyMeansIdle
<1>10. ReadsInv'
  BY <1>8 DEF ReadsInv
<1>11. RestInv' /\ ModeInv'
  BY <1>1, <1>3, <1>8, <1>9 DEF IInv, RestInv, ModeInv, Resting
<1>12. QED
  BY <1>4, <1>8, <1>10, <1>11 DEF IInv

(* The bus stays busy: an abort goes on, unless it was over.                *)
LEMMA BusBusyStep == CallsProper /\ IInv /\ BusBusy => IInv'
<1> SUFFICES ASSUME CallsProper, IInv, BusBusy PROVE IInv'
  OBVIOUS
<1>1. /\ p.at = "init" /\ ~BusReady /\ TimeIsUp /\ ctl' = Cleared
      /\ p' = [p EXCEPT !.at = "return", !.ret = 1] /\ dma_mode' = dma_mode /\ dma' = dma
  BY DEF BusBusy
<1>2. /\ DOMAIN p' = DOMAIN p /\ p'.call = p.call /\ p'.pos = p.pos /\ p'.at = "return"
  BY <1>1 DEF IInv, CallOk
<1>3. CallOk'
  <2>1. p.pos \in Nat /\ p.pos <= Length
    BY <1>1 DEF IInv, CallOk
  <2>2. QED
    BY <1>1, <1>2, <2>1, CallGoesOn DEF IInv, Places
<1>4. /\ CtlOk(ctl') /\ ctl'.tx = ctl.tx /\ ctl'.rx = ctl.rx /\ ctl'.open = ctl.open
      /\ ctl'.abort = ctl.abort /\ ctl'.dmaOn = ctl.dmaOn
  BY <1>1 DEF Cleared, IInv, CtlOk, CtlFields
<1>5. ctl.abort
  <2>1. SUFFICES ASSUME ~ctl.abort PROVE FALSE
    OBVIOUS
  <2>2. ~ctl.open /\ ctl.tx = <<>>
    BY <1>1, <2>1 DEF IInv, RestInv, Resting
  <2>3. Filling
    BY <1>1, <2>1, <2>2 DEF BusReady, Active
  <2>4. QED
    BY <1>1, <2>3 DEF TimeIsUp
<1>6. ReadsInv'
  BY <1>2, <1>4 DEF IInv, ReadsInv
<1>7. RestInv' /\ ModeInv'
  BY <1>1, <1>2, <1>4, <1>5 DEF IInv, RestInv, ModeInv, Resting
<1>8. QED
  BY <1>3, <1>4, <1>6, <1>7 DEF IInv

(* A byte is written.                                                       *)
LEMMA PutStep == CallsProper /\ IInv /\ Put => IInv'
<1> SUFFICES ASSUME CallsProper, IInv, Put PROVE IInv'
  OBVIOUS
<1> DEFINE cmd == NextByte(p.pos + 1)
<1>1. /\ p.at = "write" /\ ctl' = Push(ctl, cmd) /\ dma_mode' = dma_mode /\ dma' = dma
  BY DEF Put
<1>2. ~cmd.read
  BY DEF NextByte, Byte
<1> HIDE DEF cmd
<1>3. p.call \in Calls /\ Length \in Nat /\ p.pos \in Nat /\ p.pos < Length
  BY <1>1, LengthOk DEF IInv, CallOk
<1>4. /\ DOMAIN p' = DOMAIN p /\ p'.call = p.call /\ p'.pos = p.pos + 1
      /\ p'.at = IF p.pos + 1 = Length THEN "stop" ELSE "write"
  BY <1>1 DEF Put, IInv, CallOk
<1>5. CallOk'
  BY <1>1, <1>3, <1>4, CallGoesOn DEF IInv, Places
<1>6. NoReads(ctl.tx) /\ ctl.rx = <<>> /\ ~ctl.abort
  BY <1>1 DEF IInv, ReadsInv, RestInv, Resting
<1>7. /\ CtlOk(ctl') /\ NoReads(ctl'.tx) /\ OneRead(ctl'.tx) /\ ctl'.rx = <<>> /\ ~ctl'.abort
  <2>1. CtlOk(ctl)
    BY DEF IInv
  <2>2. CtlOk(Push(ctl, cmd)) /\ OneRead(Push(ctl, cmd).tx) /\ NoReads(Push(ctl, cmd).tx)
    BY <1>2, <1>6, <2>1, PushReads
  <2>3. Push(ctl, cmd).rx = ctl.rx /\ Push(ctl, cmd).abort = ctl.abort
    BY <2>1, PushKeeps
  <2>4. QED
    BY <1>1, <1>6, <2>2, <2>3
<1>8. ReadsInv' /\ RestInv' /\ ModeInv'
  BY <1>1, <1>4, <1>7 DEF IInv, ReadsInv, RestInv, ModeInv, Resting
<1>9. QED
  BY <1>5, <1>7, <1>8 DEF IInv
(* The program goes on without touching the controller.                     *)
LEMMA ProgramOnly ==
  ASSUME IInv, CallOk', ctl' = ctl, dma_mode' = dma_mode, dma' = dma,
         p.at \notin Resting, p'.at \notin Resting \cup {"write", "read", "dma"}
  PROVE  IInv'
BY DEF IInv, ReadsInv, RestInv, ModeInv

(* The program gives up on a byte, to be sent or to be read.                *)
LEMMA TimeoutSteps == CallsProper /\ IInv /\ (PutTimeout \/ GetTimeout) => IInv'
<1> SUFFICES ASSUME CallsProper, IInv, PutTimeout \/ GetTimeout PROVE IInv'
  OBVIOUS
<1>1. /\ p.at \in {"write", "await"} /\ p' = [p EXCEPT !.at = "stop", !.ret = 1]
      /\ ctl' = ctl /\ dma_mode' = dma_mode /\ dma' = dma
  BY DEF PutTimeout, GetTimeout
<1>2. DOMAIN p' = DOMAIN p /\ p'.call = p.call /\ p'.pos = p.pos /\ p'.at = "stop"
  BY <1>1 DEF IInv, CallOk
<1>3. p.pos \in Nat /\ p.pos <= Length
  BY <1>1 DEF IInv, CallOk
<1>4. CallOk'
  BY <1>1, <1>2, <1>3, CallGoesOn DEF IInv, Places
<1>5. QED
  BY <1>1, <1>2, <1>4, ProgramOnly DEF Resting

(* A byte is asked for.                                                     *)
LEMMA AskStep == CallsProper /\ IInv /\ Ask => IInv'
<1> SUFFICES ASSUME CallsProper, IInv, Ask PROVE IInv'
  OBVIOUS
<1> DEFINE cmd == ReadCommand(p.pos + 1 = Length)
<1>1. /\ p.at = "read" /\ ctl' = Push(ctl, cmd) /\ p' = [p EXCEPT !.at = "await"]
      /\ dma_mode' = dma_mode /\ dma' = dma
  BY DEF Ask
<1> HIDE DEF cmd
<1>2. DOMAIN p' = DOMAIN p /\ p'.call = p.call /\ p'.pos = p.pos /\ p'.at = "await"
  BY <1>1 DEF IInv, CallOk
<1>3. p.pos \in Nat /\ p.pos < Length /\ p.pos <= Length
  BY <1>1 DEF IInv, CallOk
<1>4. CallOk'
  BY <1>1, <1>2, <1>3, CallGoesOn DEF IInv, Places
<1>5. CtlOk(ctl) /\ NoReads(ctl.tx) /\ ctl.rx = <<>> /\ ~ctl.abort
  BY <1>1 DEF IInv, ReadsInv, RestInv, Resting
<1>6. CtlOk(ctl') /\ OneRead(ctl'.tx)
  BY <1>1, <1>5, PushReads
<1>7. ctl'.rx = <<>> /\ ~ctl'.abort
  BY <1>1, <1>5, PushKeeps
<1>8. ReadsInv' /\ RestInv' /\ ModeInv'
  BY <1>1, <1>2, <1>6, <1>7 DEF IInv, ReadsInv, RestInv, ModeInv, Resting
<1>9. QED
  BY <1>4, <1>6, <1>8 DEF IInv

(* The byte that waits is taken.                                            *)
LEMMA GetStep == CallsProper /\ IInv /\ Get => IInv'
<1> SUFFICES ASSUME CallsProper, IInv, Get PROVE IInv'
  OBVIOUS
<1>1. /\ p.at = "await" /\ ctl.rx # <<>> /\ ctl' = [ctl EXCEPT !.rx = Tail(ctl.rx)]
      /\ dma_mode' = dma_mode /\ dma' = dma
  BY DEF Get
<1>2. p.call \in Calls /\ Length \in Nat /\ p.pos \in Nat /\ p.pos < Length
  BY <1>1, LengthOk DEF IInv, CallOk
<1>3. /\ DOMAIN p' = DOMAIN p /\ p'.call = p.call /\ p'.pos = p.pos + 1
      /\ p'.at = IF p.pos + 1 = Length THEN "stop" ELSE "read"
  BY <1>1 DEF Get, IInv, CallOk
<1>4. CallOk'
  BY <1>1, <1>2, <1>3, CallGoesOn DEF IInv, Places
<1>5. Tail(ctl.rx) = <<>> /\ IsSeq(Tail(ctl.rx))
  <2>1. IsSeq(ctl.rx) /\ Len(ctl.rx) <= 1
    BY DEF IInv, CtlOk
  <2>2. IsSeq(Tail(ctl.rx)) /\ Len(Tail(ctl.rx)) = Len(ctl.rx) - 1 /\ Len(ctl.rx) >= 1
    BY <1>1, <2>1, PopSeq
  <2>3. Len(ctl.rx) \in Nat
    BY <2>1, LengthOfSeq
  <2>4. Len(Tail(ctl.rx)) = 0
    BY <2>1, <2>2, <2>3
  <2>5. QED
    BY <2>2, <2>4, LengthOfSeq
<1>6. /\ DOMAIN ctl' = CtlFields /\ ctl'.tx = ctl.tx /\ ctl'.rx = <<>> /\ ctl'.abort = ctl.abort
  BY <1>1, <1>5 DEF IInv, CtlOk, CtlFields
<1>7. CtlOk(ctl')
  BY <1>6, EmptyReads DEF IInv, CtlOk
<1>8. NoReads(ctl.tx) /\ OneRead(ctl.tx) /\ ~ctl.abort
  BY <1>1 DEF IInv, ReadsInv, RestInv, Resting
<1>9. ReadsInv' /\ RestInv' /\ ModeInv'
  BY <1>1, <1>3, <1>6, <1>8 DEF IInv, ReadsInv, RestInv, ModeInv, Resting
<1>10. QED
  BY <1>4, <1>7, <1>9 DEF IInv

(* The end of a DMA transfer: the last command.                             *)
LEMMA DmaEndStep == CallsProper /\ IInv /\ DmaEnd => IInv'
<1> SUFFICES ASSUME CallsProper, IInv, DmaEnd PROVE IInv'
  OBVIOUS
<1> DEFINE cmd == LastCommand
<1>1. /\ p.at = "dma" /\ ctl' = Push(ctl, cmd) /\ p' = [p EXCEPT !.at = "stop"]
      /\ dma_mode' = dma_mode /\ dma' = dma
  BY DEF DmaEnd
<1> HIDE DEF cmd
<1>2. DOMAIN p' = DOMAIN p /\ p'.call = p.call /\ p'.pos = p.pos /\ p'.at = "stop"
  BY <1>1 DEF IInv, CallOk
<1>3. p.pos \in Nat /\ p.pos <= Length
  BY <1>1 DEF IInv, CallOk
<1>4. CallOk'
  BY <1>1, <1>2, <1>3, CallGoesOn DEF IInv, Places
<1>5. CtlOk(ctl) /\ NoReads(ctl.tx) /\ ctl.rx = <<>> /\ ~ctl.abort
  BY <1>1 DEF IInv, ReadsInv, RestInv, Resting
<1>6. CtlOk(ctl') /\ OneRead(ctl'.tx)
  BY <1>1, <1>5, PushReads
<1>7. ctl'.rx = <<>> /\ ~ctl'.abort
  BY <1>1, <1>5, PushKeeps
<1>8. ReadsInv' /\ RestInv' /\ ModeInv'
  BY <1>1, <1>2, <1>6, <1>7 DEF IInv, ReadsInv, RestInv, ModeInv, Resting
<1>9. QED
  BY <1>4, <1>6, <1>8 DEF IInv

(* The STOP is seen, or not: then the port is reset.                        *)
LEMMA StopSteps == CallsProper /\ IInv /\ (SeeStop \/ StopTimeout) => IInv'
<1> SUFFICES ASSUME CallsProper, IInv, SeeStop \/ StopTimeout PROVE IInv'
  OBVIOUS
<1>1. /\ p.at = "stop" /\ p' = [p EXCEPT !.at = "settle"]
      /\ dma_mode' = dma_mode /\ dma' = dma
      /\ ctl' = [ctl EXCEPT !.stopDet = FALSE] \/ ctl' = AfterReset
  BY DEF SeeStop, StopTimeout, Reset
<1>2. DOMAIN p' = DOMAIN p /\ p'.call = p.call /\ p'.pos = p.pos /\ p'.at = "settle"
  BY <1>1 DEF IInv, CallOk
<1>3. p.pos \in Nat /\ p.pos <= Length
  BY <1>1 DEF IInv, CallOk
<1>4. CallOk'
  BY <1>1, <1>2, <1>3, CallGoesOn DEF IInv, Places
<1>5. CASE ctl' = [ctl EXCEPT !.stopDet = FALSE]
  <2>1. /\ CtlOk(ctl') /\ ctl'.tx = ctl.tx /\ ctl'.rx = ctl.rx /\ ctl'.abort = ctl.abort
    BY <1>5 DEF IInv, CtlOk, CtlFields
  <2>2. ReadsInv' /\ RestInv' /\ ModeInv'
    BY <1>1, <1>2, <2>1 DEF IInv, ReadsInv, RestInv, ModeInv, Resting
  <2>3. QED
    BY <1>4, <2>1, <2>2 DEF IInv
<1>6. CASE ctl' = AfterReset
  <2>1. CtlOk(ctl') /\ ctl'.tx = <<>> /\ ctl'.rx = <<>> /\ ~ctl'.abort
    BY <1>6, FreshOk
  <2>2. ReadsInv' /\ RestInv' /\ ModeInv'
    BY <1>1, <1>2, <2>1, EmptyReads DEF IInv, ReadsInv, RestInv, ModeInv, Resting
  <2>3. QED
    BY <1>4, <2>1, <2>2 DEF IInv
<1>7. QED
  BY <1>1, <1>5, <1>6

(* The call leaves an idle bus, or one that is being aborted.               *)
LEMMA SettleStep == CallsProper /\ IInv /\ Settle => IInv'
<1> SUFFICES ASSUME CallsProper, IInv, Settle PROVE IInv'
  OBVIOUS
<1>1. /\ p.at = "settle" /\ p' = [p EXCEPT !.at = "return"]
      /\ ctl' = Flushed([Cleared EXCEPT !.abort = ~BusReady])
      /\ dma_mode' = dma_mode /\ dma' = dma
  BY DEF Settle
<1>2. DOMAIN p' = DOMAIN p /\ p'.call = p.call /\ p'.pos = p.pos /\ p'.at = "return"
  BY <1>1 DEF IInv, CallOk
<1>3. p.pos \in Nat /\ p.pos <= Length
  BY <1>1 DEF IInv, CallOk
<1>4. CallOk'
  BY <1>1, <1>2, <1>3, CallGoesOn DEF IInv, Places
<1>5. /\ DOMAIN ctl' = CtlFields /\ ctl'.tx = ctl.tx /\ ctl'.rx = <<>> /\ ctl'.open = ctl.open
      /\ ctl'.abort = ~BusReady /\ ctl'.dmaOn = ctl.dmaOn
  BY <1>1 DEF Flushed, Cleared, IInv, CtlOk, CtlFields
<1>6. CtlOk(ctl')
  BY <1>5, EmptyReads DEF IInv, CtlOk
<1>7. ReadsInv'
  BY <1>2, <1>5 DEF IInv, ReadsInv
<1>8. RestInv'
  <2>1. CASE BusReady
    BY <1>1, <1>2, <1>5, <2>1, ReadyMeansIdle DEF RestInv, Resting
  <2>2. CASE ~BusReady
    BY <1>2, <1>5, <2>2 DEF RestInv, Resting
  <2>3. QED
    BY <2>1, <2>2
<1>9. ModeInv'
  BY <1>1 DEF IInv, ModeInv
<1>10. QED
  BY <1>4, <1>6, <1>7, <1>8, <1>9 DEF IInv

(* The call returns.                                                        *)
LEMMA ReturnStep == IInv /\ Return => IInv'
<1> SUFFICES ASSUME IInv, Return PROVE IInv'
  OBVIOUS
<1>1. /\ p.at = "return" /\ p' = IdleAfter(p.from)
      /\ ctl' = ctl /\ dma_mode' = dma_mode /\ dma' = dma
  BY DEF Return
<1>2. CallOk' /\ p'.at = "idle"
  BY <1>1 DEF CallOk, IdleAfter, Places
<1>3. ReadsInv' /\ RestInv' /\ ModeInv' /\ CtlOk(ctl')
  BY <1>1, <1>2 DEF IInv, ReadsInv, RestInv, ModeInv, Resting
<1>4. QED
  BY <1>2, <1>3 DEF IInv

(* Steps of the bus and the channel leave the program where it is.          *)
LEMMA CallKept ==
  ASSUME CallOk, p'.at = p.at, p'.pos = p.pos, p'.call = p.call, DOMAIN p' = DOMAIN p
  PROVE  CallOk'
<1>1. Length' = Length
  BY DEF Length
<1>2. QED
  BY <1>1 DEF CallOk

(* The bus carries a command, or aborts.                                    *)
LEMMA BusStep == IInv /\ Bus => IInv'
<1> SUFFICES ASSUME IInv, Bus PROVE IInv'
  OBVIOUS
<1>1. p' = p /\ dma_mode' = dma_mode /\ dma' = dma /\ Moving
  BY DEF Bus
<1>2. CallOk' /\ ModeInv'
  BY <1>1, CallKept DEF IInv, ModeInv
<1>3. CASE ctl' = Aborted
  <2>1. /\ CtlOk(ctl') /\ ctl'.tx = <<>> /\ ctl'.rx = ctl.rx /\ ~ctl'.open /\ ~ctl'.abort
        /\ ctl'.abrt
    BY <1>3, EmptyReads, I2cAssumption DEF Aborted, IInv, CtlOk, CtlFields
  <2>2. ReadsInv' /\ RestInv'
    BY <1>1, <2>1, EmptyReads DEF IInv, ReadsInv, RestInv
  <2>3. QED
    BY <1>2, <2>1, <2>2 DEF IInv
<1>4. CASE ~ctl.abort /\ ctl' = Carried(Head(ctl.tx))
  <2> DEFINE cmd == Head(ctl.tx)
             w == dev.regs[dev.at]
  <2>1. ctl.tx # <<>>
    BY <1>1, <1>4 DEF Moving
  <2>2. p.at \notin Resting
    BY <1>4, <2>1 DEF IInv, RestInv
  <2>3. /\ IsSeq(ctl.tx) /\ IsSeq(ctl.rx) /\ Len(ctl.tx) <= FifoSize /\ Len(ctl.rx) <= 1
        /\ Len(ctl.tx) \in Nat /\ FifoSize \in Nat /\ DOMAIN ctl = CtlFields
    BY LengthOfSeq, I2cAssumption DEF IInv, CtlOk
  <2>4. /\ DOMAIN ctl' = CtlFields /\ ctl'.tx = Tail(ctl.tx) /\ ctl'.abort = ctl.abort
        /\ ctl'.rx = IF cmd.read THEN Append(ctl.rx, w) ELSE ctl.rx
    BY <1>4, <2>3 DEF Carried, CtlFields
  <2> HIDE DEF w
  <2>5. IsSeq(ctl'.tx) /\ Len(ctl'.tx) <= FifoSize
    BY <2>1, <2>3, <2>4, PopSeq
  <2>6. OneRead(ctl'.tx) /\ (NoReads(ctl.tx) => NoReads(ctl'.tx) /\ ~cmd.read)
    BY <2>1, <2>3, <2>4, TailReads DEF IInv, ReadsInv
  <2>7. CASE cmd.read
    <3>1. NoReads(ctl'.tx)
      BY <2>1, <2>3, <2>4, <2>7, TailReads DEF IInv, ReadsInv
    <3>2. ctl.rx = <<>> /\ p.at \notin {"write", "read", "dma"}
      BY <2>6, <2>7 DEF IInv, ReadsInv
    <3>3. IsSeq(ctl'.rx) /\ Len(ctl'.rx) <= 1
      <4>1. IsSeq(Append(<<>>, w)) /\ Len(Append(<<>>, w)) = Len(<<>>) + 1 /\ Len(<<>>) = 0
        BY LengthOfSeq, PushSeq
      <4>2. ctl'.rx = Append(<<>>, w)
        BY <2>4, <2>7, <3>2
      <4>3. QED
        BY <4>1, <4>2
    <3>4. CtlOk(ctl')
      BY <2>4, <2>5, <3>3 DEF CtlOk
    <3>5. ReadsInv' /\ RestInv'
      BY <1>1, <1>4, <2>2, <2>4, <2>6, <3>1, <3>2 DEF ReadsInv, RestInv
    <3>6. QED
      BY <1>2, <3>4, <3>5 DEF IInv
  <2>8. CASE ~cmd.read
    <3>1. CtlOk(ctl')
      BY <2>3, <2>4, <2>5, <2>8 DEF CtlOk
    <3>2. ctl'.rx = ctl.rx
      BY <2>4, <2>8
    <3>3. ReadsInv' /\ RestInv'
      BY <1>1, <1>4, <2>2, <2>4, <2>6, <3>2 DEF IInv, ReadsInv, RestInv
    <3>4. QED
      BY <1>2, <3>1, <3>3 DEF IInv
  <2>9. QED
    BY <2>7, <2>8
<1>5. QED
  BY <1>3, <1>4 DEF Bus

(* The device holds the clock and lets it go.                               *)
LEMMA ClockSteps == IInv /\ (Hold \/ LetGo) => IInv'
<1> SUFFICES ASSUME IInv, Hold \/ LetGo PROVE IInv'
  OBVIOUS
<1>1. /\ ctl' = ctl /\ dma_mode' = dma_mode /\ dma' = dma
      /\ p' = [p EXCEPT !.calm = FALSE] \/ p' = p
  BY DEF Hold, LetGo
<1>2. p'.at = p.at /\ p'.pos = p.pos /\ p'.call = p.call /\ DOMAIN p' = DOMAIN p
  BY <1>1 DEF IInv, CallOk
<1>3. CallOk'
  BY <1>2, CallKept DEF IInv
<1>4. QED
  BY <1>1, <1>2, <1>3 DEF IInv, ReadsInv, RestInv, ModeInv

(* The channel writes a byte, which is lost while an abort is unseen.       *)
LEMMA DmaTxStep == IInv /\ DmaTx => IInv'
<1> SUFFICES ASSUME IInv, DmaTx PROVE IInv'
  OBVIOUS
<1> DEFINE cmd == DmaWord
<1>1. /\ dma[0].en /\ ctl.dmaOn /\ ctl' = Push(ctl, cmd) /\ dma_mode' = dma_mode /\ p' = p
  BY DEF DmaTx, Filling
<1>2. ~cmd.read
  BY DEF DmaWord, Byte
<1> HIDE DEF cmd
<1>3. CallOk' /\ ModeInv'
  BY <1>1, CallKept DEF IInv, ModeInv
<1>4. CtlOk(ctl') /\ OneRead(ctl'.tx) /\ (NoReads(ctl.tx) => NoReads(ctl'.tx))
  BY <1>1, <1>2, PushOk DEF IInv, ReadsInv
<1>5. /\ ctl'.rx = ctl.rx /\ ctl'.open = ctl.open /\ ctl'.abort = ctl.abort
      /\ ctl'.abrt = ctl.abrt
  BY <1>1, PushKeeps DEF IInv
<1>6. ReadsInv'
  BY <1>1, <1>4, <1>5 DEF IInv, ReadsInv
<1>7. RestInv'
  <2>1. CASE p.at \in Resting /\ ~ctl.abort
    <3>1. ctl.abrt
      BY <1>1, <2>1 DEF IInv, RestInv
    <3>2. ctl' = ctl
      BY <1>1, <3>1, PushOk DEF IInv
    <3>3. QED
      BY <1>1, <2>1, <3>1, <3>2 DEF IInv, RestInv
  <2>2. CASE ~(p.at \in Resting /\ ~ctl.abort)
    BY <1>1, <1>5, <2>2 DEF IInv, RestInv
  <2>3. QED
    BY <2>1, <2>2
<1>8. QED
  BY <1>3, <1>4, <1>6, <1>7 DEF IInv

-----------------------------------------------------------------------------
(* The theorems.                                                            *)

(* The invariant holds in every reachable state.                            *)
THEOREM Invariance ==
  ASSUME CallsProper PROVE Spec => []IInv
<1>1. Init => IInv
  BY InitStep
<1>2. IInv /\ [Next]_vars => IInv'
  <2> SUFFICES ASSUME IInv, [Next]_vars PROVE IInv'
    OBVIOUS
  <2>1. CASE InitMaster \/ Start
    BY <2>1, InitMasterStep, StartStep
  <2>2. CASE Begin \/ BusBusy
    BY <2>2, BeginStep, BusBusyStep
  <2>3. CASE Put \/ PutTimeout \/ GetTimeout
    BY <2>3, PutStep, TimeoutSteps
  <2>4. CASE Ask \/ Get
    BY <2>4, AskStep, GetStep
  <2>5. CASE DmaEnd \/ Return
    BY <2>5, DmaEndStep, ReturnStep
  <2>6. CASE SeeStop \/ StopTimeout \/ Settle
    BY <2>6, StopSteps, SettleStep
  <2>7. CASE Bus \/ Hold \/ LetGo \/ DmaTx
    BY <2>7, BusStep, ClockSteps, DmaTxStep
  <2>8. CASE UNCHANGED vars
    <3>1. ctl' = ctl /\ dma_mode' = dma_mode /\ dma' = dma /\ p' = p
      BY <2>8 DEF vars
    <3>2. CallOk'
      BY <3>1, CallKept DEF IInv
    <3>3. QED
      BY <3>1, <3>2 DEF IInv, ReadsInv, RestInv, ModeInv
  <2>9. QED
    BY <2>1, <2>2, <2>3, <2>4, <2>5, <2>6, <2>7, <2>8 DEF Next, Program, Write, Read, Finish
<1>3. QED
  BY <1>1, <1>2, PTL DEF Spec

(* Between calls no byte of an earlier one waits, and a transfer that is    *)
(* still open is being aborted; the FIFOs never hold more than they can.    *)
THEOREM NothingLeftBehind ==
  ASSUME CallsProper PROVE Spec => []TypeOK
<1>1. IInv => TypeOK
  <2> SUFFICES ASSUME IInv PROVE TypeOK
    OBVIOUS
  <2>1. Len(ctl.tx) <= FifoSize /\ Len(ctl.rx) <= 1
    BY DEF IInv, CtlOk
  <2>2. p.pos <= Length
    <3>1. CASE p.at = "idle"
      BY <3>1 DEF IInv, CallOk, Length, NoCall
    <3>2. CASE p.at # "idle"
      BY <3>2 DEF IInv, CallOk
    <3>3. QED
      BY <3>1, <3>2
  <2>3. p.at = "idle" => ctl.rx = <<>> /\ (ctl.open => ctl.abort)
    BY DEF IInv, RestInv, Resting
  <2>4. QED
    BY <2>1, <2>2, <2>3 DEF TypeOK
<1>2. QED
  BY <1>1, Invariance, PTL

-----------------------------------------------------------------------------
(* What a call does.                                                        *)

(* The calls whose outcome is promised: a register address is a number, and *)
(* a write visits no register twice ...                                     *)
DeviceCalls ==
  \A c \in Calls :
    c.addr # <<>> => /\ c.addr[1] \in Nat
                     /\ c.op = "write" => Len(c.data) <= Registers

(* ... and, with DMA, the bytes of a write but the last are a block of the   *)
(* channel, which has 22 bits for its length: none would be the longest     *)
(* block.                                                                   *)
DmaCalls == \A c \in Calls : c.op = "write" => Len(c.data) - 1 \in 1 .. 2 ^ 22

CallsFit == CallsProper /\ DeviceCalls
ModeFits == dma_mode => DmaCalls

-----------------------------------------------------------------------------
(* The invariant of a call whose outcome is promised.                       *)

InCall == p.at \notin {"idle", "init"}
Good == p.calm /\ InCall /\ p.call.addr # <<>> /\ (dma_mode => p.call.op = "write" /\ ctl.dmaOn)

(* The commands of the call in their order: the register, then the bytes,   *)
(* or a read for each.                                                      *)
Cmd(k) ==
  IF k = 1 THEN Byte(p.call.addr[1], FALSE)
  ELSE IF p.call.op = "write" THEN NextByte(k - 1) ELSE ReadCommand(k - 1 = Length)

(* How many of them the FIFO has been given, and how many it has sent on.   *)
Given == IF p.at = "dma" THEN Length - dma[0].left
         ELSE IF p.at \in {"write", "read"} THEN p.pos + 1
         ELSE IF p.at = "await" THEN p.pos + 2
         ELSE Length + 1
Sent == Given - Len(ctl.tx)

Queued(tx, s) == \A i \in 1 .. Len(tx) : tx[i] = Cmd(s + i)

(* The controller has been refused nothing: it sends what it was given, in  *)
(* order, and the bus is open exactly while some but not all of it is sent. *)
CtlGood ==
  /\ ctl.enabled /\ ~ctl.abrt /\ ~ctl.abort /\ ctl.target = "there"
  /\ p.ret = 0
  /\ Sent >= 0 /\ Queued(ctl.tx, Sent)
  /\ ctl.open <=> Sent \in 1 .. Length
  /\ ctl.open => ctl.reading \in BOOLEAN /\ (ctl.reading <=> p.call.op = "read" /\ Sent >= 2)
  /\ Sent = Length + 1 /\ p.at \notin {"settle", "return"} => ctl.stopDet
  /\ p.at = "return" => ctl.tx = <<>>

(* The channel runs until all bytes but the last are in the FIFO.           *)
DmaGood ==
  /\ dma_mode => p.at \notin {"write", "read", "await"}
  /\ p.at = "dma" =>
       /\ dma_mode /\ p.from = p.call.data
       /\ dma[0].left \in 0 .. Length - 1
       /\ dma[0].en <=> dma[0].left > 0
       /\ dma[0].done <=> dma[0].left = 0
       /\ Len(ctl.tx) <= Tdlr + 1
  /\ p.at # "dma" => ~dma[0].en

PlaceGood ==
  /\ p.at = "write" => p.call.op = "write"
  /\ p.at \in {"read", "await"} => p.call.op = "read"
  /\ p.call.op = "read" /\ p.at \in {"stop", "settle", "return"} => p.pos = Length

(* The device stands at the register of the next byte; what was sent is in  *)
(* the registers, what they hold was read or waits.                         *)
DevGood ==
  /\ Sent \in 1 .. Length => dev.at = Register(Sent)
  /\ p.call.op = "write" => \A i \in 1 .. Sent - 1 : dev.regs[Register(i)] = p.call.data[i]
  /\ p.call.op = "read" =>
       /\ IsSeq(p.buf) /\ Len(p.buf) = p.pos
       /\ \A i \in 1 .. p.pos : p.buf[i] = dev.regs[Register(i)]
       /\ p.pos > 0 => Sent > p.pos
       /\ ctl.rx = IF Sent = p.pos + 2 THEN <<dev.regs[Register(p.pos + 1)]>> ELSE <<>>

GoodInv == Good => CtlGood /\ DmaGood /\ PlaceGood /\ DevGood

(* The device and the channels, whatever the call.                          *)
DevOk == DOMAIN dev = {"regs", "at"} /\ DOMAIN dev.regs = 0 .. Registers - 1
ChannelsOk(channels) ==
  /\ DOMAIN channels = {0, 1}
  /\ \A o \in {0, 1} : DOMAIN channels[o] = {"en", "done", "cfg", "left"}
CalmInv ==
  p.at # "idle" /\ p.calm =>
    /\ ~stall /\ p.call.dev = "there"
    /\ p.at = "init" => p.buf = <<>> /\ p.ret = 0

PromiseInv == IInv /\ ModeFits /\ DevOk /\ ChannelsOk(dma) /\ CalmInv /\ GoodInv

-----------------------------------------------------------------------------
(* Remainders.                                                              *)

(* A number is a multiple and its remainder.                                *)
LEMMA Remainder ==
  ASSUME NEW a \in Int, NEW b \in Nat \ {0}
  PROVE  a % b \in 0 .. b - 1 /\ \E q \in Int : a = b * q + (a % b)
<1>1. a % b \in 0 .. b - 1 /\ a = b * (a \div b) + (a % b) /\ a \div b \in Int
  OBVIOUS
<1> DEFINE q == a \div b
<1>2. q \in Int /\ a = b * q + (a % b)
  BY <1>1
<1> HIDE DEF q
<1>3. \E k \in Int : a = b * k + (a % b)
  BY <1>2, Zenon
<1>4. QED
  BY <1>1, <1>3

(* Counting on, modulo b.                                                   *)
LEMMA RemainderNext ==
  ASSUME NEW a \in Int, NEW b \in Nat \ {0}
  PROVE  ((a % b) + 1) % b = (a + 1) % b
<1> DEFINE r == a % b
           s == (a + 1) % b
<1>1. r \in 0 .. b - 1 /\ \E q \in Int : a = b * q + r
  BY Remainder
<1>2. s \in 0 .. b - 1 /\ \E q \in Int : a + 1 = b * q + s
  <2>1. a + 1 \in Int
    OBVIOUS
  <2>2. QED
    BY <2>1, Remainder, Zenon
<1>3. PICK q \in Int : a = b * q + r
  BY <1>1
<1>4. PICK t \in Int : a + 1 = b * t + s
  BY <1>2
<1> HIDE DEF r, s
<1>5. r + 1 = b * (t - q) + s
  <2>1. b * (t - q) = b * t - b * q /\ b * t \in Int /\ b * q \in Int
    OBVIOUS
  <2>2. QED
    BY <1>1, <1>2, <1>3, <1>4, <2>1
<1>6. t - q \in Int /\ r + 1 \in Int
  BY <1>1
<1>7. (r + 1) % b = s
  BY <1>2, <1>5, <1>6, Quotient
<1>8. QED
  BY <1>7 DEF r, s

(* Numbers less than b apart have different remainders.                     *)
LEMMA RemaindersDiffer ==
  ASSUME NEW a \in Int, NEW b \in Nat \ {0}, NEW d \in 1 .. b - 1
  PROVE  a % b # (a + d) % b
<1> SUFFICES ASSUME a % b = (a + d) % b PROVE FALSE
  OBVIOUS
<1> DEFINE r == a % b
           s == (a + d) % b
<1>1. r \in 0 .. b - 1 /\ \E q \in Int : a = b * q + r
  BY Remainder
<1>2. a + d \in Int
  OBVIOUS
<1>3. s \in 0 .. b - 1 /\ \E q \in Int : a + d = b * q + s
  BY <1>2, Remainder
<1>4. r = s
  OBVIOUS
<1>5. PICK q \in Int : a = b * q + r
  BY <1>1
<1>6. PICK t \in Int : a + d = b * t + s
  BY <1>3
<1> HIDE DEF r, s
<1> DEFINE x == t - q
<1>7. b * x = d /\ x \in Int
  <2>1. b * (t - q) = b * t - b * q /\ b * t \in Int /\ b * q \in Int
    OBVIOUS
  <2>2. QED
    BY <1>1, <1>3, <1>4, <1>5, <1>6, <2>1
<1> HIDE DEF x
<1>8. x <= 0 \/ x >= 1
  BY <1>7
<1>9. x <= 0 => b * x <= 0
  BY <1>7
<1>10. x >= 1 => b * x >= b
  BY <1>7
<1>11. QED
  BY <1>7, <1>8, <1>9, <1>10

-----------------------------------------------------------------------------
(* Facts about the commands and the registers.                              *)

(* A command that is accepted.                                              *)
LEMMA PushGives ==
  ASSUME NEW c, CtlOk(c), NEW cmd, c.enabled, ~c.abrt, Len(c.tx) < FifoSize,
         NEW d, d = Push(c, cmd)
  PROVE  /\ d.tx = Append(c.tx, cmd) /\ Len(d.tx) = Len(c.tx) + 1 /\ CtlOk(d)
         /\ d.enabled /\ ~d.abrt /\ d.abort = c.abort /\ d.target = c.target /\ d.dmaOn = c.dmaOn
         /\ d.rx = c.rx /\ d.open = c.open /\ d.reading = c.reading /\ d.stopDet = c.stopDet
<1>1. d = [c EXCEPT !.tx = Append(c.tx, cmd)] /\ DOMAIN c = CtlFields
  BY DEF Push, CtlOk
<1>2. CtlOk(d)
  BY PushOk
<1>3. Len(Append(c.tx, cmd)) = Len(c.tx) + 1
  BY PushSeq DEF CtlOk
<1>4. d.tx = Append(c.tx, cmd)
  BY <1>1 DEF CtlFields
<1>5. /\ d.enabled = c.enabled /\ d.abrt = c.abrt /\ d.abort = c.abort /\ d.target = c.target
      /\ d.dmaOn = c.dmaOn /\ d.rx = c.rx /\ d.open = c.open /\ d.reading = c.reading
      /\ d.stopDet = c.stopDet
  <2>1. \A f \in CtlFields \ {"tx"} : d[f] = c[f]
    BY PushOk
  <2>2. QED
    BY <2>1 DEF CtlFields
<1>6. QED
  BY <1>2, <1>3, <1>4, <1>5

(* What is queued, with one command more at the end ...                     *)
LEMMA QueuePush ==
  ASSUME NEW tx, IsSeq(tx), NEW s \in Int, Queued(tx, s), NEW cmd, cmd = Cmd(s + Len(tx) + 1)
  PROVE  Queued(Append(tx, cmd), s)
<1> DEFINE t == Append(tx, cmd)
<1>1. /\ Len(tx) \in Nat /\ Len(t) = Len(tx) + 1 /\ t[Len(tx) + 1] = cmd
      /\ \A i \in 1 .. Len(tx) : t[i] = tx[i]
  BY PushSeq, LengthOfSeq
<1> HIDE DEF t
<1>2. ASSUME NEW i \in 1 .. Len(t) PROVE t[i] = Cmd(s + i)
  <2>1. CASE i = Len(tx) + 1
    <3>1. s + i = s + Len(tx) + 1
      BY <1>1, <2>1
    <3>2. QED
      BY <1>1, <2>1, <3>1
  <2>2. CASE i # Len(tx) + 1
    <3>1. i \in 1 .. Len(tx)
      BY <1>1, <1>2, <2>2
    <3>2. QED
      BY <1>1, <3>1 DEF Queued
  <2>3. QED
    BY <2>1, <2>2
<1>3. QED
  BY <1>2 DEF Queued, t

(* ... and without the first.                                               *)
LEMMA QueuePop ==
  ASSUME NEW tx, IsSeq(tx), tx # <<>>, NEW s \in Int, Queued(tx, s)
  PROVE  Head(tx) = Cmd(s + 1) /\ Queued(Tail(tx), s + 1) /\ Len(Tail(tx)) = Len(tx) - 1
<1> DEFINE t == Tail(tx)
<1>1. /\ Len(tx) \in Nat /\ Len(t) = Len(tx) - 1 /\ Len(tx) >= 1
      /\ \A i \in 1 .. Len(tx) - 1 : t[i] = tx[i + 1]
  BY PopSeq, LengthOfSeq
<1>2. Head(tx) = tx[1]
  BY DEF IsSeq
<1>3. tx[1] = Cmd(s + 1)
  BY <1>1 DEF Queued
<1> HIDE DEF t
<1>4. ASSUME NEW i \in 1 .. Len(t) PROVE t[i] = Cmd(s + 1 + i)
  <2>1. i + 1 \in 1 .. Len(tx) /\ t[i] = tx[i + 1] /\ s + (i + 1) = s + 1 + i
    BY <1>1, <1>4
  <2>2. tx[i + 1] = Cmd(s + (i + 1))
    BY <2>1 DEF Queued
  <2>3. QED
    BY <2>1, <2>2
<1>5. QED
  BY <1>1, <1>2, <1>3, <1>4 DEF Queued, t

(* The commands depend on the call alone.                                   *)
LEMMA SameCall ==
  ASSUME p'.call = p.call
  PROVE  /\ Length' = Length
         /\ \A k : Cmd(k)' = Cmd(k)
         /\ \A tx, s : Queued(tx, s)' <=> Queued(tx, s)
         /\ \A k : Register(k)' = Register(k)
<1>1. Length' = Length
  BY DEF Length
<1>2. \A k : Cmd(k)' = Cmd(k)
  BY <1>1 DEF Cmd, NextByte, Byte, ReadCommand
<1>3. \A tx, s : Queued(tx, s)' <=> Queued(tx, s)
  BY <1>2 DEF Queued
<1>4. \A k : Register(k)' = Register(k)
  BY DEF Register
<1>5. QED
  BY <1>1, <1>2, <1>3, <1>4

(* The fields of the commands.                                              *)
LEMMA CommandFields ==
  ASSUME NEW b, NEW last \in BOOLEAN, NEW cmd
  PROVE  /\ cmd = Byte(b, last) =>
              ~cmd.read /\ cmd.b = b /\ (cmd.stop <=> last) /\ cmd.read \in BOOLEAN
         /\ cmd = ReadCommand(last) =>
              cmd.read /\ (cmd.stop <=> last) /\ cmd.read \in BOOLEAN
<1>1. ASSUME cmd = Byte(b, last)
      PROVE  ~cmd.read /\ cmd.b = b /\ (cmd.stop <=> last) /\ cmd.read \in BOOLEAN
  BY <1>1 DEF Byte
<1>2. ASSUME cmd = ReadCommand(last)
      PROVE  cmd.read /\ (cmd.stop <=> last) /\ cmd.read \in BOOLEAN
  BY <1>2 DEF ReadCommand
<1>3. QED
  BY <1>1, <1>2

(* ... in the order of the call.                                           *)
LEMMA CmdFacts ==
  ASSUME NEW k \in Nat, k >= 1, NEW cmd, cmd = Cmd(k)
  PROVE  /\ k = 1 => ~cmd.read /\ cmd.b = p.call.addr[1] /\ ~cmd.stop
         /\ k >= 2 /\ p.call.op = "write" =>
              ~cmd.read /\ cmd.b = p.call.data[k - 1] /\ (cmd.stop <=> k - 1 = Length)
         /\ k >= 2 /\ p.call.op = "read" => cmd.read /\ (cmd.stop <=> k - 1 = Length)
         /\ cmd.read \in BOOLEAN
<1>1. CASE k = 1
  BY <1>1 DEF Cmd, Byte
<1>2. CASE k # 1 /\ p.call.op = "write"
  <2>1. cmd = Byte(p.call.data[k - 1], k - 1 = Length)
    BY <1>2 DEF Cmd, NextByte
  <2>2. (k - 1 = Length) \in BOOLEAN
    OBVIOUS
  <2> DEFINE b == p.call.data[k - 1]
             last == k - 1 = Length
  <2>3. cmd = Byte(b, last) /\ last \in BOOLEAN
    BY <2>1, <2>2
  <2> HIDE DEF b, last
  <2>4. ~cmd.read /\ cmd.b = b /\ (cmd.stop <=> last) /\ cmd.read \in BOOLEAN
    BY <2>3, CommandFields, ZenonT(60)
  <2>5. k # 1 /\ p.call.op # "read"
    BY <1>2
  <2>6. QED
    BY <2>4, <2>5, Zenon DEF b, last
<1>3. CASE k # 1 /\ p.call.op # "write"
  <2>1. cmd = ReadCommand(k - 1 = Length)
    BY <1>3 DEF Cmd
  <2>2. (k - 1 = Length) \in BOOLEAN
    OBVIOUS
  <2>3. cmd.read /\ (cmd.stop <=> k - 1 = Length) /\ cmd.read \in BOOLEAN
    BY <2>1, <2>2, CommandFields, Zenon
  <2>4. QED
    BY <1>3, <2>3
<1>4. QED
  BY <1>1, <1>2, <1>3

(* The registers of a call are registers, one after the other.              *)
LEMMA RegisterFacts ==
  ASSUME p.call.addr[1] \in Nat, NEW i \in Nat, i >= 1
  PROVE  /\ Register(i) \in 0 .. Registers - 1
         /\ Register(1) = p.call.addr[1] % Registers
         /\ Next1(Register(i)) = Register(i + 1)
<1> DEFINE a == p.call.addr[1] + i - 1
<1>1. a \in Int /\ Registers \in Nat \ {0} /\ p.call.addr[1] + (i + 1) - 1 = a + 1
  BY I2cAssumption
<1>2. p.call.addr[1] + 1 - 1 = p.call.addr[1]
  OBVIOUS
<1>3. a % Registers \in 0 .. Registers - 1 /\ ((a % Registers) + 1) % Registers = (a + 1) % Registers
  BY <1>1, Remainder, RemainderNext
<1>4. QED
  BY <1>1, <1>2, <1>3 DEF Register, Next1

(* Those of a write are different ones.                                     *)
LEMMA RegistersApart ==
  ASSUME p.call.addr[1] \in Nat, NEW i \in Nat, NEW j \in Nat, 1 <= i, i < j, j - i < Registers
  PROVE  Register(i) # Register(j)
<1> DEFINE a == p.call.addr[1] + i - 1
           d == j - i
<1>1. a \in Int /\ Registers \in Nat \ {0} /\ d \in 1 .. Registers - 1
      /\ p.call.addr[1] + j - 1 = a + d
  BY I2cAssumption
<1> HIDE DEF d
<1>2. a % Registers # (a + d) % Registers
  BY <1>1, RemaindersDiffer
<1>3. QED
  BY <1>1, <1>2 DEF Register

(* The numbers of a call.                                                   *)
LEMMA CallNumbers ==
  ASSUME CallsFit, IInv, GoodInv, Good
  PROVE  /\ p.call \in Calls /\ p.call.op \in {"write", "read"} /\ p.call.addr[1] \in Nat
         /\ Length \in Nat /\ Length >= 1 /\ p.pos \in Nat
         /\ p.call.op = "write" => Length <= Registers
         /\ Given \in 1 .. Length + 1
         /\ Len(ctl.tx) \in Nat /\ (Len(ctl.tx) = 0 <=> ctl.tx = <<>>)
         /\ Sent \in 0 .. Length + 1
<1>1. p.call \in Calls /\ p.at \in Places \ {"idle", "init"} /\ p.pos \in Nat
  BY DEF Good, InCall, IInv, CallOk
<1>2. Length \in Nat /\ Length >= 1
  BY <1>1, LengthOk DEF CallsFit
<1>3. /\ p.call.op \in {"write", "read"} /\ p.call.addr[1] \in Nat
      /\ p.call.op = "write" => Length <= Registers
  BY <1>1 DEF CallsFit, CallsProper, DeviceCalls, Good, Length
<1>4. Given \in 1 .. Length + 1
  <2>1. CASE p.at = "dma"
    BY <1>2, <2>1 DEF Given, GoodInv, DmaGood
  <2>2. CASE p.at # "dma"
    BY <1>1, <1>2, <2>2 DEF Given, IInv, CallOk
  <2>3. QED
    BY <2>1, <2>2
<1>5. Len(ctl.tx) \in Nat /\ (Len(ctl.tx) = 0 <=> ctl.tx = <<>>)
  BY LengthOfSeq DEF IInv, CtlOk
<1>6. Sent \in 0 .. Length + 1
  BY <1>2, <1>4, <1>5 DEF Sent, GoodInv, CtlGood
<1>7. QED
  BY <1>1, <1>2, <1>3, <1>4, <1>5, <1>6

(* When time is up, everything has been sent.                               *)
LEMMA NoTimeout ==
  ASSUME IInv, CalmInv, GoodInv, Good, TimeIsUp
  PROVE  ctl.tx = <<>> /\ ~(dma[0].en /\ ctl.dmaOn)
<1>1. ~stall /\ ctl.enabled
  BY DEF CalmInv, GoodInv, Good, InCall, CtlGood
<1>2. ~Filling /\ ~Moving
  BY DEF TimeIsUp
<1>3. ctl.tx = <<>>
  BY <1>1, <1>2 DEF Moving
<1>4. Len(ctl.tx) <= Tdlr
  BY <1>3, EmptyReads, I2cAssumption
<1>5. QED
  BY <1>2, <1>3, <1>4 DEF Filling

(* The commands after the first.                                            *)
LEMMA NextCommand ==
  ASSUME NEW j \in Nat, j >= 1, NEW k, k = j + 1
  PROVE  /\ p.call.op = "write" => Cmd(k) = NextByte(j)
         /\ p.call.op # "write" => Cmd(k) = ReadCommand(j = Length)
<1>1. k # 1 /\ k - 1 = j
  OBVIOUS
<1>2. QED
  BY <1>1 DEF Cmd

(* A command that comes in is not sent yet.                                 *)
LEMMA SentKept ==
  ASSUME Given \in Nat, Len(ctl.tx) \in Nat, Given' = Given + 1, Len(ctl'.tx) = Len(ctl.tx) + 1
  PROVE  Sent' = Sent
BY DEF Sent

(* The next command is accepted, in its turn.                               *)
LEMMA PushGood ==
  ASSUME CallsFit, IInv, GoodInv, Good, Len(ctl.tx) < FifoSize,
         ctl' = Push(ctl, Cmd(Given + 1)), Given' = Given + 1,
         p'.call = p.call, p'.ret = p.ret,
         p.at \notin {"settle", "return"}, p'.at # "return"
  PROVE  /\ CtlGood' /\ Sent' = Sent /\ ctl'.rx = ctl.rx /\ ctl'.dmaOn = ctl.dmaOn
         /\ Len(ctl'.tx) = Len(ctl.tx) + 1
<1> DEFINE cmd == Cmd(Given + 1)
<1>1. /\ CtlOk(ctl) /\ IsSeq(ctl.tx) /\ ctl.enabled /\ ~ctl.abrt /\ ~ctl.abort
      /\ ctl.target = "there" /\ p.ret = 0 /\ Queued(ctl.tx, Sent)
      /\ ctl.open <=> Sent \in 1 .. Length
      /\ ctl.open => ctl.reading \in BOOLEAN /\ (ctl.reading <=> p.call.op = "read" /\ Sent >= 2)
      /\ Sent = Length + 1 => ctl.stopDet
  BY DEF IInv, CtlOk, GoodInv, CtlGood
<1>2. /\ Length \in Nat /\ Given \in Nat /\ Len(ctl.tx) \in Nat /\ Sent \in 0 .. Length + 1
  BY CallNumbers
<1>3. Given + 1 = Sent + Len(ctl.tx) + 1
  BY <1>2 DEF Sent
<1>4. Queued(Append(ctl.tx, cmd), Sent)
  BY <1>1, <1>2, <1>3, QueuePush
<1> HIDE DEF cmd
<1>5. ctl' = Push(ctl, cmd)
  BY DEF cmd
<1>6. /\ ctl'.tx = Append(ctl.tx, cmd) /\ Len(ctl'.tx) = Len(ctl.tx) + 1
      /\ ctl'.enabled /\ ~ctl'.abrt /\ ctl'.abort = ctl.abort /\ ctl'.target = ctl.target
      /\ ctl'.dmaOn = ctl.dmaOn /\ ctl'.rx = ctl.rx /\ ctl'.open = ctl.open
      /\ ctl'.reading = ctl.reading /\ ctl'.stopDet = ctl.stopDet
  BY <1>1, <1>5, PushGives
<1>7. Sent' = Sent
  BY <1>2, <1>6, SentKept, Zenon
<1>8. Length' = Length /\ \A tx, s : Queued(tx, s)' <=> Queued(tx, s)
  BY SameCall
<1>9. Queued(ctl.tx, Sent)'
  <2>1. Queued(ctl'.tx, Sent')
    BY <1>4, <1>6, <1>7
  <2>2. \A k : Cmd(k)' = Cmd(k)
    BY SameCall
  <2>3. QED
    BY <2>1, <2>2 DEF Queued
<1>10. CtlGood'
  <2>1. /\ ctl'.enabled /\ ~ctl'.abrt /\ ~ctl'.abort /\ ctl'.target = "there" /\ p'.ret = 0
        /\ Sent' >= 0
    BY <1>1, <1>2, <1>6, <1>7
  <2>2. ctl'.open <=> Sent' \in 1 .. Length'
    BY <1>1, <1>6, <1>7, <1>8, Zenon
  <2>3. ctl'.open => /\ ctl'.reading \in BOOLEAN
                     /\ ctl'.reading <=> p'.call.op = "read" /\ Sent' >= 2
    BY <1>1, <1>6, <1>7, Zenon
  <2>4. Sent' = Length' + 1 => ctl'.stopDet
    BY <1>1, <1>6, <1>7, <1>8, Zenon
  <2>5. QED
    BY <1>9, <2>1, <2>2, <2>3, <2>4, Zenon DEF CtlGood
<1>11. QED
  BY <1>6, <1>7, <1>10

(* A step that does not touch the device.                                   *)
LEMMA DevKept ==
  ASSUME DevGood, Sent' = Sent, dev' = dev, p'.call = p.call, ctl'.rx = ctl.rx,
         p.call.op = "read" => p'.pos = p.pos /\ p'.buf = p.buf
  PROVE  DevGood'
<1>1. Length' = Length /\ \A k : Register(k)' = Register(k)
  BY SameCall
<1>2. Sent' \in 1 .. Length' => dev'.at = Register(Sent)'
  BY <1>1 DEF DevGood
<1>3. p'.call.op = "write" =>
        \A i \in 1 .. Sent' - 1 : dev'.regs[Register(i)'] = p'.call.data[i]
  BY <1>1 DEF DevGood
<1>4. p'.call.op = "read" =>
       /\ IsSeq(p'.buf) /\ Len(p'.buf) = p'.pos
       /\ \A i \in 1 .. p'.pos : p'.buf[i] = dev'.regs[Register(i)']
       /\ p'.pos > 0 => Sent' > p'.pos
       /\ ctl'.rx = IF Sent' = p'.pos + 2 THEN <<dev'.regs[Register(p.pos + 1)']>> ELSE <<>>
  BY <1>1 DEF DevGood
<1>5. QED
  BY <1>1, <1>2, <1>3, <1>4 DEF DevGood

-----------------------------------------------------------------------------
(* One lemma for each kind of step of such a call.                          *)

(* A byte is written.                                                       *)
LEMMA PutGood ==
  ASSUME CallsFit, PromiseInv, Good, Put
  PROVE  CtlGood' /\ DmaGood' /\ PlaceGood' /\ DevGood'
<1>1. IInv /\ GoodInv /\ DmaGood /\ PlaceGood /\ DevGood
  BY DEF PromiseInv, GoodInv
<1>2. /\ p.at = "write" /\ Len(ctl.tx) < FifoSize /\ ctl' = Push(ctl, NextByte(p.pos + 1))
      /\ dma_mode' = dma_mode /\ dma' = dma /\ dev' = dev
  <2>1. p.at = "write" /\ Len(ctl.tx) # FifoSize
    BY <1>1, LengthOfSeq, I2cAssumption DEF Put, HasRoom, IInv, CtlOk
  <2>2. Len(ctl.tx) <= FifoSize /\ Len(ctl.tx) \in Nat /\ FifoSize \in Nat
    BY <1>1, CallNumbers, I2cAssumption DEF IInv, CtlOk
  <2>3. QED
    BY <2>1, <2>2 DEF Put
<1>3. /\ p.call.op = "write" /\ ~dma_mode /\ ~dma[0].en
  BY <1>1, <1>2 DEF DmaGood, PlaceGood
<1>4. p.pos \in Nat /\ p.pos < Length /\ Length \in Nat
  BY <1>1, <1>2, CallNumbers DEF IInv, CallOk
<1>5. /\ p'.call = p.call /\ p'.ret = p.ret /\ p'.pos = p.pos + 1
      /\ p'.at = IF p.pos + 1 = Length THEN "stop" ELSE "write"
  BY <1>1, <1>2 DEF Put, IInv, CallOk
<1>6. Length' = Length
  BY <1>5, SameCall
<1>7. Given = p.pos + 1 /\ Given' = Given + 1
  <2>1. Given = p.pos + 1
    BY <1>2 DEF Given
  <2>2. Given' = p.pos + 2
    BY <1>4, <1>5, <1>6 DEF Given
  <2>3. QED
    BY <1>4, <2>1, <2>2
<1>8. Cmd(Given + 1) = NextByte(p.pos + 1)
  <2>1. p.pos + 1 \in Nat /\ p.pos + 1 >= 1 /\ Given + 1 = (p.pos + 1) + 1
    BY <1>4, <1>7
  <2>2. QED
    BY <1>3, <2>1, NextCommand
<1>9. ctl' = Push(ctl, Cmd(Given + 1))
  BY <1>2, <1>8
<1>10. CtlGood' /\ Sent' = Sent /\ ctl'.rx = ctl.rx
  BY <1>1, <1>2, <1>5, <1>7, <1>9, PushGood
<1>11. DmaGood' /\ PlaceGood'
  BY <1>2, <1>3, <1>5 DEF DmaGood, PlaceGood
<1>12. DevGood'
  BY <1>1, <1>2, <1>3, <1>5, <1>10, DevKept
<1>13. QED
  BY <1>10, <1>11, <1>12

(* A byte is asked for.                                                     *)
LEMMA AskGood ==
  ASSUME CallsFit, PromiseInv, Good, Ask
  PROVE  CtlGood' /\ DmaGood' /\ PlaceGood' /\ DevGood'
<1>1. IInv /\ GoodInv /\ DmaGood /\ PlaceGood /\ DevGood
  BY DEF PromiseInv, GoodInv
<1>2. /\ p.at = "read" /\ ctl' = Push(ctl, ReadCommand(p.pos + 1 = Length))
      /\ p' = [p EXCEPT !.at = "await"] /\ dma_mode' = dma_mode /\ dma' = dma /\ dev' = dev
  BY DEF Ask
<1>3. p.call.op = "read" /\ ~dma_mode /\ ~dma[0].en
  BY <1>1, <1>2 DEF DmaGood, PlaceGood
<1>4. /\ p.pos \in Nat /\ p.pos < Length /\ Length \in Nat /\ Sent \in Nat
      /\ Len(ctl.tx) \in Nat
  BY <1>1, <1>2, CallNumbers DEF IInv, CallOk
<1>5. /\ p'.call = p.call /\ p'.ret = p.ret /\ p'.pos = p.pos /\ p'.buf = p.buf
      /\ p'.at = "await"
  BY <1>1, <1>2 DEF IInv, CallOk
<1>6. Given = p.pos + 1 /\ Given' = Given + 1
  <2>1. Given = p.pos + 1 /\ Given' = p.pos + 2
    BY <1>2, <1>4, <1>5 DEF Given
  <2>2. QED
    BY <1>4, <2>1
<1>7. Cmd(Given + 1) = ReadCommand(p.pos + 1 = Length)
  <2>1. /\ p.pos + 1 \in Nat /\ p.pos + 1 >= 1 /\ Given + 1 = (p.pos + 1) + 1
        /\ p.call.op # "write"
    BY <1>3, <1>4, <1>6
  <2>2. QED
    BY <2>1, NextCommand
<1>8. Len(ctl.tx) < FifoSize
  <2>1. Given = p.pos + 1 /\ Sent = Given - Len(ctl.tx)
    BY <1>6 DEF Sent
  <2>2. p.pos > 0 => Sent > p.pos
    BY <1>1, <1>3 DEF DevGood
  <2>3. Len(ctl.tx) <= 1
    BY <1>4, <2>1, <2>2
  <2>4. QED
    BY <1>4, <2>3, I2cAssumption
<1>9. ctl' = Push(ctl, Cmd(Given + 1))
  BY <1>2, <1>7
<1>10. CtlGood' /\ Sent' = Sent /\ ctl'.rx = ctl.rx
  BY <1>1, <1>2, <1>5, <1>6, <1>8, <1>9, PushGood
<1>11. DmaGood' /\ PlaceGood'
  BY <1>2, <1>3, <1>5 DEF DmaGood, PlaceGood
<1>12. DevGood'
  BY <1>1, <1>2, <1>5, <1>10, DevKept
<1>13. QED
  BY <1>10, <1>11, <1>12

(* The last byte follows when the channel has given all the others.         *)
LEMMA DmaEndGood ==
  ASSUME CallsFit, PromiseInv, Good, DmaEnd
  PROVE  CtlGood' /\ DmaGood' /\ PlaceGood' /\ DevGood'
<1>1. IInv /\ GoodInv /\ DmaGood /\ PlaceGood /\ DevGood
  BY DEF PromiseInv, GoodInv
<1>2. /\ p.at = "dma" /\ (dma[Channel].done \/ TimeIsUp) /\ ctl' = Push(ctl, LastCommand)
      /\ p' = [p EXCEPT !.at = "stop"] /\ dma_mode' = dma_mode /\ dma' = dma /\ dev' = dev
  BY DEF DmaEnd
<1>3. /\ dma_mode /\ p.call.op = "write" /\ ctl.dmaOn /\ dma[0].left \in 0 .. Length - 1
      /\ dma[0].en <=> dma[0].left > 0
      /\ dma[0].done <=> dma[0].left = 0
      /\ Len(ctl.tx) <= Tdlr + 1
  BY <1>1, <1>2 DEF DmaGood, Good
<1>4. Length \in Nat /\ Length >= 1 /\ Len(ctl.tx) \in Nat
  BY <1>1, CallNumbers
<1>5. dma[0].left = 0
  <2>1. CASE TimeIsUp
    <3>1. ~(dma[0].en /\ ctl.dmaOn)
      BY <1>1, <2>1, NoTimeout DEF PromiseInv
    <3>2. QED
      BY <1>3, <1>4, <3>1
  <2>2. CASE dma[Channel].done
    <3>1. dma[0].done
      BY <1>3, <2>2 DEF Channel
    <3>2. QED
      BY <1>3, <3>1
  <2>3. QED
    BY <1>2, <2>1, <2>2
<1>6. /\ p'.call = p.call /\ p'.ret = p.ret /\ p'.pos = p.pos /\ p'.buf = p.buf
      /\ p'.at = "stop"
  BY <1>1, <1>2 DEF IInv, CallOk
<1>7. Given = Length /\ Given' = Given + 1
  <2>1. Given = Length
    BY <1>2, <1>4, <1>5 DEF Given
  <2>2. Given' = Length + 1
    BY <1>6, SameCall DEF Given
  <2>3. QED
    BY <2>1, <2>2
<1>8. Cmd(Given + 1) = LastCommand
  <2>1. Given + 1 = Length + 1
    BY <1>7
  <2>2. Cmd(Given + 1) = NextByte(Length)
    BY <1>3, <1>4, <2>1, NextCommand
  <2>3. QED
    BY <1>3, <2>2 DEF LastCommand
<1>9. ctl' = Push(ctl, Cmd(Given + 1)) /\ Len(ctl.tx) < FifoSize
  BY <1>2, <1>3, <1>4, <1>8, I2cAssumption
<1>10. CtlGood' /\ Sent' = Sent /\ ctl'.rx = ctl.rx
  BY <1>1, <1>2, <1>6, <1>7, <1>9, PushGood
<1>11. DmaGood' /\ PlaceGood'
  <2>1. ~dma[0].en
    BY <1>3, <1>5
  <2>2. QED
    BY <1>2, <1>3, <1>6, <2>1 DEF DmaGood, PlaceGood
<1>12. DevGood'
  BY <1>1, <1>2, <1>6, <1>10, DevKept
<1>13. QED
  BY <1>10, <1>11, <1>12

(* An item moved.                                                           *)
LEMMA MoveFacts ==
  ASSUME NEW channels, ChannelsOk(channels), channels[0].left \in Nat, NEW after,
         after = Move(channels, 0)
  PROVE  /\ ChannelsOk(after) /\ after[0].left = channels[0].left - 1
         /\ after[0].en <=> channels[0].left > 1
         /\ after[0].done <=> channels[0].left = 1
BY DEF ChannelsOk, Move

(* The channel writes a byte.                                               *)
LEMMA DmaTxGood ==
  ASSUME CallsFit, PromiseInv, Good, DmaTx
  PROVE  CtlGood' /\ DmaGood' /\ PlaceGood' /\ DevGood'
<1>1. IInv /\ GoodInv /\ DmaGood /\ PlaceGood /\ DevGood /\ ChannelsOk(dma)
  BY DEF PromiseInv, GoodInv
<1>2. /\ dma[0].en /\ Len(ctl.tx) <= Tdlr /\ ctl' = Push(ctl, DmaWord)
      /\ dma' = Move(dma, 0) /\ dma_mode' = dma_mode /\ p' = p /\ dev' = dev
  BY DEF DmaTx, Filling
<1>3. /\ p.at = "dma" /\ dma_mode /\ p.from = p.call.data /\ p.call.op = "write"
      /\ dma[0].left \in 0 .. Length - 1 /\ dma[0].left > 0
  BY <1>1, <1>2 DEF DmaGood, Good
<1>4. Length \in Nat /\ Length >= 1 /\ Len(ctl.tx) \in Nat /\ Length = Len(p.call.data)
  BY <1>1, <1>3, CallNumbers DEF Length
<1>5. /\ dma'[0].left = dma[0].left - 1
      /\ dma'[0].en <=> dma[0].left > 1
      /\ dma'[0].done <=> dma[0].left = 1
  BY <1>1, <1>2, <1>3, <1>4, MoveFacts
<1>6. p'.call = p.call /\ p'.ret = p.ret /\ p'.at = "dma" /\ Length' = Length
  BY <1>2, <1>3, SameCall
<1>7. Given = Length - dma[0].left /\ Given' = Given + 1
  <2>1. Given = Length - dma[0].left
    BY <1>3 DEF Given
  <2>2. Given' = Length - dma'[0].left
    BY <1>6 DEF Given
  <2>3. QED
    BY <1>3, <1>4, <1>5, <2>1, <2>2, SMTT(60)
<1>8. DmaWord = Cmd(Given + 1)
  <2> DEFINE g == Length - dma[0].left
  <2>1. g \in Nat /\ g >= 1 /\ g # Length
    BY <1>3, <1>4
  <2>2. DmaWord = Byte(p.call.data[g], FALSE)
    BY <1>3, <1>4 DEF DmaWord
  <2>3. Given = g
    BY <1>7
  <2> HIDE DEF g
  <2>4. Cmd(g + 1) = NextByte(g)
    BY <1>3, <2>1, NextCommand
  <2>5. NextByte(g) = Byte(p.call.data[g], FALSE)
    BY <2>1 DEF NextByte, Byte
  <2>6. QED
    BY <2>2, <2>3, <2>4, <2>5, Zenon
<1>9. ctl' = Push(ctl, Cmd(Given + 1)) /\ Len(ctl.tx) < FifoSize
  BY <1>2, <1>4, <1>8, I2cAssumption
<1>10. /\ CtlGood' /\ Sent' = Sent /\ ctl'.rx = ctl.rx
       /\ Len(ctl'.tx) = Len(ctl.tx) + 1
  BY <1>1, <1>3, <1>6, <1>7, <1>9, PushGood
<1>11. DmaGood'
  <2>1. Len(ctl'.tx) <= Tdlr + 1
    BY <1>2, <1>4, <1>10, I2cAssumption
  <2>2. /\ dma'[0].left \in 0 .. Length - 1
        /\ dma'[0].en <=> dma'[0].left > 0
        /\ dma'[0].done <=> dma'[0].left = 0
    BY <1>3, <1>4, <1>5
  <2>3. p'.from = p'.call.data /\ dma_mode'
    BY <1>2, <1>3
  <2>4. QED
    BY <1>6, <2>1, <2>2, <2>3 DEF DmaGood
<1>12. PlaceGood'
  BY <1>3, <1>6 DEF PlaceGood
<1>13. DevGood'
  BY <1>1, <1>2, <1>10, DevKept
<1>14. QED
  BY <1>10, <1>11, <1>12, <1>13

(* A byte that is taken goes to the buffer.                                 *)
LEMMA GetGood ==
  ASSUME CallsFit, PromiseInv, Good, Get
  PROVE  CtlGood' /\ DmaGood' /\ PlaceGood' /\ DevGood'
<1>1. IInv /\ GoodInv /\ CtlGood /\ DmaGood /\ PlaceGood /\ DevGood
  BY DEF PromiseInv, GoodInv
<1>2. /\ p.at = "await" /\ ctl.rx # <<>> /\ ctl' = [ctl EXCEPT !.rx = Tail(ctl.rx)]
      /\ dma_mode' = dma_mode /\ dma' = dma /\ dev' = dev
  BY DEF Get
<1>3. p.call.op = "read" /\ ~dma_mode /\ ~dma[0].en
  BY <1>1, <1>2 DEF DmaGood, PlaceGood
<1>4. p.pos \in Nat /\ p.pos < Length /\ Length \in Nat /\ Len(ctl.tx) \in Nat
  BY <1>1, <1>2, CallNumbers DEF IInv, CallOk
<1> DEFINE w == dev.regs[Register(p.pos + 1)]
<1>5. /\ IsSeq(p.buf) /\ Len(p.buf) = p.pos
      /\ \A i \in 1 .. p.pos : p.buf[i] = dev.regs[Register(i)]
      /\ Sent = p.pos + 2 /\ ctl.rx = <<w>>
  BY <1>1, <1>2, <1>3 DEF DevGood
<1>6. Head(ctl.rx) = w
  BY <1>5
<1> HIDE DEF w
<1>7. /\ p'.call = p.call /\ p'.ret = p.ret /\ p'.pos = p.pos + 1 /\ p'.buf = Append(p.buf, w)
      /\ p'.at = IF p.pos + 1 = Length THEN "stop" ELSE "read"
  BY <1>1, <1>2, <1>6 DEF Get, IInv, CallOk
<1>8. Length' = Length /\ \A k : Register(k)' = Register(k)
  BY <1>7, SameCall
<1>9. /\ ctl'.tx = ctl.tx /\ ctl'.rx = Tail(ctl.rx) /\ ctl'.enabled = ctl.enabled
      /\ ctl'.abrt = ctl.abrt /\ ctl'.abort = ctl.abort /\ ctl'.target = ctl.target
      /\ ctl'.open = ctl.open /\ ctl'.reading = ctl.reading /\ ctl'.stopDet = ctl.stopDet
  BY <1>1, <1>2 DEF IInv, CtlOk, CtlFields
<1>10. Given' = Given
  <2>1. Given = p.pos + 2
    BY <1>2 DEF Given
  <2>2. Given' = p.pos + 2
    BY <1>4, <1>7, <1>8 DEF Given
  <2>3. QED
    BY <2>1, <2>2
<1>11. Sent' = Sent
  BY <1>9, <1>10 DEF Sent
<1>12. CtlGood'
  <2>1. Queued(ctl.tx, Sent)'
    <3>1. \A k : Cmd(k)' = Cmd(k)
      BY <1>7, SameCall
    <3>2. QED
      BY <1>1, <1>9, <1>11, <3>1 DEF CtlGood, Queued
  <2>2. p.at \notin {"settle", "return"} /\ p'.at \notin {"settle", "return"}
    BY <1>2, <1>7
  <2>3. QED
    BY <1>1, <1>7, <1>8, <1>9, <1>11, <2>1, <2>2, Zenon DEF CtlGood
<1>13. DmaGood' /\ PlaceGood'
  BY <1>2, <1>3, <1>7, <1>8 DEF DmaGood, PlaceGood
<1>14. DevGood'
  <2>1. Sent' \in 1 .. Length' => dev'.at = Register(Sent)'
    BY <1>1, <1>2, <1>8, <1>11 DEF DevGood
  <2>2. IsSeq(p'.buf) /\ Len(p'.buf) = p'.pos
    BY <1>5, <1>7, PushSeq
  <2>3. ASSUME NEW i \in 1 .. p'.pos PROVE p'.buf[i] = dev'.regs[Register(i)]
    <3>1. CASE i = p.pos + 1
      BY <1>2, <1>5, <1>7, <3>1, PushSeq DEF w
    <3>2. CASE i # p.pos + 1
      <4>1. i \in 1 .. p.pos
        BY <1>4, <1>7, <2>3, <3>2
      <4>2. p'.buf[i] = p.buf[i]
        BY <1>5, <1>7, <4>1, PushSeq
      <4>3. QED
        BY <1>2, <1>5, <4>1, <4>2
    <3>3. QED
      BY <3>1, <3>2
  <2>4. Sent' > p'.pos /\ Sent' # p'.pos + 2
    BY <1>4, <1>5, <1>7, <1>11
  <2>5. ctl'.rx = <<>>
    BY <1>5, <1>9
  <2>6. p'.call.op = "read"
    BY <1>3, <1>7
  <2>7. \A i \in 1 .. p'.pos : p'.buf[i] = dev'.regs[Register(i)']
    BY <1>8, <2>3
  <2>8. QED
    BY <1>8, <2>1, <2>2, <2>4, <2>5, <2>6, <2>7 DEF DevGood
<1>15. QED
  BY <1>12, <1>13, <1>14

(* The STOP is seen.                                                        *)
LEMMA SeeStopGood ==
  ASSUME CallsFit, PromiseInv, Good, SeeStop
  PROVE  CtlGood' /\ DmaGood' /\ PlaceGood' /\ DevGood'
<1>1. IInv /\ GoodInv /\ CtlGood /\ DmaGood /\ PlaceGood /\ DevGood
  BY DEF PromiseInv, GoodInv
<1>2. /\ p.at = "stop" /\ ctl' = [ctl EXCEPT !.stopDet = FALSE] /\ p' = [p EXCEPT !.at = "settle"]
      /\ dma_mode' = dma_mode /\ dma' = dma /\ dev' = dev
  BY DEF SeeStop
<1>3. /\ p'.call = p.call /\ p'.ret = p.ret /\ p'.pos = p.pos /\ p'.buf = p.buf
      /\ p'.at = "settle"
  BY <1>1, <1>2 DEF IInv, CallOk
<1>4. Length' = Length /\ \A k : Cmd(k)' = Cmd(k)
  BY <1>3, SameCall
<1>5. /\ ctl'.tx = ctl.tx /\ ctl'.rx = ctl.rx /\ ctl'.enabled = ctl.enabled
      /\ ctl'.abrt = ctl.abrt /\ ctl'.abort = ctl.abort /\ ctl'.target = ctl.target
      /\ ctl'.open = ctl.open /\ ctl'.reading = ctl.reading
  BY <1>1, <1>2 DEF IInv, CtlOk, CtlFields
<1>6. Given' = Given
  BY <1>2, <1>3, <1>4 DEF Given
<1>7. Sent' = Sent
  BY <1>5, <1>6 DEF Sent
<1>8. CtlGood'
  <2>1. Queued(ctl.tx, Sent)'
    BY <1>1, <1>4, <1>5, <1>7 DEF CtlGood, Queued
  <2>2. QED
    BY <1>1, <1>3, <1>4, <1>5, <1>7, <2>1, Zenon DEF CtlGood
<1>9. DmaGood' /\ PlaceGood'
  BY <1>1, <1>2, <1>3, <1>4 DEF DmaGood, PlaceGood
<1>10. DevGood'
  BY <1>1, <1>2, <1>3, <1>5, <1>7, DevKept
<1>11. QED
  BY <1>8, <1>9, <1>10

(* The bus is idle when the call settles.                                   *)
LEMMA SettleGood ==
  ASSUME CallsFit, PromiseInv, Good, Settle
  PROVE  CtlGood' /\ DmaGood' /\ PlaceGood' /\ DevGood'
<1>1. IInv /\ GoodInv /\ CtlGood /\ DmaGood /\ PlaceGood /\ DevGood
  BY DEF PromiseInv, GoodInv
<1>2. /\ p.at = "settle" /\ (BusReady \/ TimeIsUp)
      /\ ctl' = Flushed([Cleared EXCEPT !.abort = ~BusReady]) /\ p' = [p EXCEPT !.at = "return"]
      /\ dma_mode' = dma_mode /\ dma' = dma /\ dev' = dev
  BY DEF Settle
<1>3. /\ p'.call = p.call /\ p'.ret = p.ret /\ p'.pos = p.pos /\ p'.buf = p.buf
      /\ p'.at = "return"
  BY <1>1, <1>2 DEF IInv, CallOk
<1>4. Length' = Length /\ \A k : Register(k)' = Register(k)
  BY <1>3, SameCall
<1>5. ctl.tx = <<>> /\ Len(ctl.tx) = 0
  BY <1>1, <1>2, NoTimeout, EmptyReads DEF BusReady, PromiseInv
<1>6. Length \in Nat
  BY <1>1, CallNumbers
<1>7. Sent = Length + 1 /\ ~ctl.open
  <2>1. Given = Length + 1
    BY <1>2 DEF Given
  <2>2. Sent = Length + 1
    BY <1>5, <1>6, <2>1 DEF Sent
  <2>3. QED
    BY <1>1, <1>6, <2>2 DEF CtlGood
<1>8. BusReady
  BY <1>1, <1>2, <1>5, <1>7 DEF BusReady, Active, Filling, CtlGood, DmaGood
<1>9. /\ ctl'.tx = <<>> /\ ctl'.rx = <<>> /\ ctl'.enabled = ctl.enabled
      /\ ~ctl'.abrt /\ ~ctl'.abort /\ ctl'.target = ctl.target /\ ctl'.open = ctl.open
  <2>1. DOMAIN ctl = CtlFields
    BY <1>1 DEF IInv, CtlOk
  <2>2. QED
    BY <1>2, <1>5, <1>8, <2>1 DEF Flushed, Cleared, CtlFields
<1>10. Given' = Length + 1 /\ Sent' = Length + 1
  <2>1. Given' = Length + 1
    BY <1>3, <1>4 DEF Given
  <2>2. Len(ctl'.tx) = 0
    BY <1>9, EmptyReads
  <2>3. QED
    BY <1>6, <2>1, <2>2 DEF Sent
<1>11. CtlGood'
  <2>1. Queued(ctl.tx, Sent)'
    BY <1>9, EmptyReads DEF Queued
  <2>2. /\ ctl'.enabled /\ ctl'.target = "there" /\ p'.ret = 0 /\ ~ctl'.open
        /\ ~(Sent' \in 1 .. Length') /\ Sent' >= 0
    BY <1>1, <1>3, <1>4, <1>6, <1>7, <1>9, <1>10 DEF CtlGood
  <2>3. QED
    BY <1>3, <1>9, <2>1, <2>2, Zenon DEF CtlGood
<1>12. DmaGood' /\ PlaceGood'
  BY <1>1, <1>2, <1>3, <1>4 DEF DmaGood, PlaceGood
<1>13. ctl'.rx = ctl.rx \/ p.call.op # "read"
  BY <1>1, <1>2, <1>6, <1>7, <1>9 DEF DevGood, PlaceGood
<1>14. DevGood'
  <2>1. CASE p.call.op = "read"
    BY <1>1, <1>2, <1>3, <1>7, <1>10, <1>13, <2>1, DevKept
  <2>2. CASE p.call.op # "read"
    BY <1>1, <1>2, <1>3, <1>4, <1>6, <1>7, <1>10, <2>2 DEF DevGood
  <2>3. QED
    BY <2>1, <2>2
<1>15. QED
  BY <1>11, <1>12, <1>14

(* No timer expires.                                                        *)
LEMMA NeverLate ==
  ASSUME CallsFit, PromiseInv, Good
  PROVE  ~PutTimeout /\ ~GetTimeout /\ ~StopTimeout
<1>1. IInv /\ CalmInv /\ GoodInv /\ CtlGood /\ PlaceGood /\ DevGood
  BY DEF PromiseInv, GoodInv
<1>2. SUFFICES ASSUME PutTimeout \/ GetTimeout \/ StopTimeout PROVE FALSE
  OBVIOUS
<1>3. TimeIsUp
  BY <1>2 DEF PutTimeout, GetTimeout, GivesUp, StopTimeout
<1>4. ctl.tx = <<>> /\ Len(ctl.tx) = 0
  BY <1>1, <1>3, NoTimeout, EmptyReads
<1>5. Length \in Nat /\ p.pos \in Nat /\ Given \in Nat
  BY <1>1, CallNumbers
<1>6. Sent = Given
  BY <1>4, <1>5 DEF Sent
<1>7. ~PutTimeout
  BY <1>4, I2cAssumption DEF PutTimeout
<1>8. ~GetTimeout
  <2>1. SUFFICES ASSUME p.at = "await", ctl.rx = <<>> PROVE FALSE
    BY DEF GetTimeout, GivesUp
  <2>2. p.call.op = "read" /\ Sent = p.pos + 2
    BY <1>1, <1>6, <2>1 DEF PlaceGood, Given
  <2>3. ctl.rx = <<dev.regs[Register(p.pos + 1)]>>
    BY <1>1, <2>2 DEF DevGood
  <2>4. \A w : <<w>> # <<>>
    OBVIOUS
  <2>5. QED
    BY <2>1, <2>3, <2>4, Zenon
<1>9. ~StopTimeout
  <2>1. SUFFICES ASSUME p.at = "stop", ~ctl.stopDet PROVE FALSE
    BY DEF StopTimeout
  <2>2. Sent = Length + 1
    BY <1>6, <2>1 DEF Given
  <2>3. Sent = Length + 1 /\ p.at \notin {"settle", "return"} => ctl.stopDet
    BY <1>1 DEF CtlGood
  <2>4. p.at \notin {"settle", "return"}
    BY <2>1
  <2>5. QED
    BY <2>1, <2>2, <2>3, <2>4, Zenon
<1>10. QED
  BY <1>2, <1>7, <1>8, <1>9

(* Nor before the call: a bus left busy is being aborted, and the abort     *)
(* moves.                                                                   *)
LEMMA NeverBusy ==
  ASSUME CallsFit, PromiseInv, BusBusy
  PROVE  ~Good'
<1>1. /\ p.at = "init" /\ ~BusReady /\ TimeIsUp /\ p' = [p EXCEPT !.at = "return", !.ret = 1]
      /\ IInv /\ CalmInv
  BY DEF BusBusy, PromiseInv
<1>2. ~Filling /\ ~Moving
  BY <1>1 DEF TimeIsUp
<1>3. ctl.abort
  <2>1. SUFFICES ASSUME ~ctl.abort PROVE FALSE
    OBVIOUS
  <2>2. ~ctl.open /\ ctl.tx = <<>>
    BY <1>1, <2>1 DEF IInv, RestInv, Resting
  <2>3. QED
    BY <1>1, <1>2, <2>1, <2>2 DEF BusReady, Active
<1>4. stall
  BY <1>2, <1>3 DEF Moving
<1>5. ~p.calm
  BY <1>1, <1>4 DEF CalmInv
<1>6. p'.calm = p.calm
  BY <1>1 DEF IInv, CallOk
<1>7. QED
  BY <1>5, <1>6 DEF Good

(* A command of the call is carried: what that changes in the controller.   *)
LEMMA CarriedGood ==
  ASSUME CallsFit, PromiseInv, Good, Bus
  PROVE  /\ ctl.tx # <<>> /\ Sent \in 0 .. Length /\ Sent' = Sent + 1
         /\ ctl' = Carried(Cmd(Sent + 1)) /\ dev' = Stepped(Cmd(Sent + 1))
         /\ ctl'.tx = Tail(ctl.tx) /\ ctl'.open = ~Cmd(Sent + 1).stop
         /\ ctl'.reading = Cmd(Sent + 1).read
         /\ ctl'.rx = IF Cmd(Sent + 1).read THEN Append(ctl.rx, dev.regs[dev.at]) ELSE ctl.rx
         /\ ctl'.stopDet = (ctl.stopDet \/ Cmd(Sent + 1).stop)
         /\ ctl'.enabled = ctl.enabled /\ ctl'.abrt = ctl.abrt /\ ctl'.abort = ctl.abort
         /\ ctl'.target = ctl.target
         /\ Queued(Tail(ctl.tx), Sent + 1) /\ Len(Tail(ctl.tx)) = Len(ctl.tx) - 1
<1>1. IInv /\ GoodInv /\ CtlGood
  BY DEF PromiseInv, GoodInv
<1>2. Moving /\ p' = p /\ dma' = dma
  BY DEF Bus
<1>3. ~ctl.abort /\ ctl.target = "there" /\ Queued(ctl.tx, Sent) /\ IsSeq(ctl.tx)
  BY <1>1 DEF CtlGood, IInv, CtlOk
<1>4. ctl.tx # <<>>
  BY <1>2, <1>3 DEF Moving
<1>5. /\ Length \in Nat /\ Given \in 1 .. Length + 1 /\ Len(ctl.tx) \in Nat /\ Sent \in 0 .. Length + 1
      /\ Len(ctl.tx) # 0
  BY <1>1, <1>4, CallNumbers
<1>6. Sent \in 0 .. Length
  BY <1>5 DEF Sent
<1>7. /\ Head(ctl.tx) = Cmd(Sent + 1) /\ Queued(Tail(ctl.tx), Sent + 1)
      /\ Len(Tail(ctl.tx)) = Len(ctl.tx) - 1
  BY <1>3, <1>4, <1>6, QueuePop
<1> DEFINE cmd == Cmd(Sent + 1)
           w == dev.regs[dev.at]
<1>8. ctl' = Carried(cmd) /\ dev' = Stepped(cmd)
  BY <1>3, <1>7 DEF Bus, NotAcknowledged
<1> HIDE DEF cmd, w
<1>9. /\ ctl'.tx = Tail(ctl.tx) /\ ctl'.open = ~cmd.stop /\ ctl'.reading = cmd.read
      /\ ctl'.rx = IF cmd.read THEN Append(ctl.rx, w) ELSE ctl.rx
      /\ ctl'.stopDet = (ctl.stopDet \/ cmd.stop)
      /\ ctl'.enabled = ctl.enabled /\ ctl'.abrt = ctl.abrt /\ ctl'.abort = ctl.abort
      /\ ctl'.target = ctl.target
  BY <1>1, <1>8 DEF Carried, IInv, CtlOk, CtlFields, w
<1>10. Sent' = Sent + 1
  <2>1. Given' = Given
    BY <1>2 DEF Given, Length
  <2>2. Len(ctl'.tx) = Len(ctl.tx) - 1
    BY <1>7, <1>9
  <2>3. QED
    BY <1>5, <2>1, <2>2 DEF Sent
<1>11. QED
  BY <1>4, <1>6, <1>7, <1>8, <1>9, <1>10 DEF cmd, w

(* What the command that is carried is.                                     *)
LEMMA CarriedCommand ==
  ASSUME CallsFit, PromiseInv, Good, Bus, NEW cmd, cmd = Cmd(Sent + 1)
  PROVE  /\ Sent = 0 => ~cmd.read /\ cmd.b = p.call.addr[1] /\ ~cmd.stop
         /\ Sent >= 1 /\ p.call.op = "write" =>
              ~cmd.read /\ cmd.b = p.call.data[Sent] /\ (cmd.stop <=> Sent = Length)
         /\ Sent >= 1 /\ p.call.op = "read" => cmd.read /\ (cmd.stop <=> Sent = Length)
         /\ cmd.read \in BOOLEAN
<1> DEFINE k == Sent + 1
<1>1. k \in Nat /\ k >= 1 /\ k - 1 = Sent /\ (k = 1 <=> Sent = 0) /\ (k >= 2 <=> Sent >= 1)
  <2>1. IInv /\ GoodInv
    BY DEF PromiseInv
  <2>2. Sent \in 0 .. Length + 1 /\ Length \in Nat
    BY <2>1, CallNumbers
  <2>3. QED
    BY <2>2
<1>2. cmd = Cmd(k)
  OBVIOUS
<1> HIDE DEF k
<1>3. /\ k = 1 => ~cmd.read /\ cmd.b = p.call.addr[1] /\ ~cmd.stop
      /\ k >= 2 /\ p.call.op = "write" =>
           ~cmd.read /\ cmd.b = p.call.data[k - 1] /\ (cmd.stop <=> k - 1 = Length)
      /\ k >= 2 /\ p.call.op = "read" => cmd.read /\ (cmd.stop <=> k - 1 = Length)
      /\ cmd.read \in BOOLEAN
  BY <1>1, <1>2, CmdFacts
<1>4. QED
  BY <1>1, <1>3, Zenon

(* The controller and the channel after it.                                 *)
LEMMA BusCtlGood ==
  ASSUME CallsFit, PromiseInv, Good, Bus
  PROVE  CtlGood' /\ DmaGood' /\ PlaceGood'
<1> DEFINE cmd == Cmd(Sent + 1)
<1>1. IInv /\ GoodInv /\ CtlGood /\ DmaGood /\ PlaceGood
  BY DEF PromiseInv, GoodInv
<1>2. p' = p /\ dma' = dma /\ dma_mode' = dma_mode
  BY DEF Bus
<1>3. /\ ctl.tx # <<>> /\ Sent \in 0 .. Length /\ Sent' = Sent + 1
      /\ ctl'.tx = Tail(ctl.tx) /\ ctl'.open = ~cmd.stop /\ ctl'.reading = cmd.read
      /\ ctl'.stopDet = (ctl.stopDet \/ cmd.stop)
      /\ ctl'.enabled = ctl.enabled /\ ctl'.abrt = ctl.abrt /\ ctl'.abort = ctl.abort
      /\ ctl'.target = ctl.target
      /\ Queued(Tail(ctl.tx), Sent + 1) /\ Len(Tail(ctl.tx)) = Len(ctl.tx) - 1
  BY CarriedGood
<1>4. /\ Length \in Nat /\ Length >= 1 /\ Len(ctl.tx) \in Nat /\ p.call.op \in {"write", "read"}
  BY <1>1, CallNumbers
<1>5. /\ Sent = 0 => ~cmd.read /\ ~cmd.stop
      /\ Sent >= 1 => (cmd.stop <=> Sent = Length)
      /\ Sent >= 1 => (cmd.read <=> p.call.op = "read")
      /\ cmd.read \in BOOLEAN
  <2>1. /\ Sent = 0 => ~cmd.read /\ ~cmd.stop
        /\ Sent >= 1 /\ p.call.op = "write" => ~cmd.read /\ (cmd.stop <=> Sent = Length)
        /\ Sent >= 1 /\ p.call.op = "read" => cmd.read /\ (cmd.stop <=> Sent = Length)
        /\ cmd.read \in BOOLEAN
    BY CarriedCommand, Zenon
  <2>2. p.call.op = "write" => p.call.op # "read"
    OBVIOUS
  <2>3. p.call.op = "write" \/ p.call.op = "read"
    BY <1>4
  <2>4. QED
    BY <2>1, <2>2, <2>3, Zenon
<1> HIDE DEF cmd
<1>6. Length' = Length /\ \A k : Cmd(k)' = Cmd(k)
  BY <1>2, SameCall
<1>7. (Sent = 0 \/ Sent >= 1) /\ (Sent = 0 => ~(Sent >= 1) /\ Sent # Length)
  BY <1>3, <1>4
<1>8. CtlGood'
  <2>1. Queued(ctl.tx, Sent)'
    BY <1>3, <1>6 DEF Queued
  <2>2. /\ ctl'.enabled /\ ~ctl'.abrt /\ ~ctl'.abort /\ ctl'.target = "there" /\ p'.ret = 0
        /\ p'.at # "return"
    BY <1>1, <1>2, <1>3 DEF CtlGood
  <2>3. Sent' >= 0 /\ (Sent' \in 1 .. Length' <=> Sent # Length) /\ (Sent' >= 2 <=> Sent >= 1)
    BY <1>3, <1>4, <1>6
  <2>4. ctl'.open <=> Sent' \in 1 .. Length'
    <3>1. ctl'.open <=> Sent # Length
      BY <1>3, <1>5, <1>7, Zenon
    <3>2. QED
      BY <2>3, <3>1, Zenon
  <2>5. ctl'.reading \in BOOLEAN /\ (ctl'.reading <=> p'.call.op = "read" /\ Sent' >= 2)
    <3>1. ctl'.reading <=> p.call.op = "read" /\ Sent >= 1
      BY <1>3, <1>5, <1>7, Zenon
    <3>2. ctl'.reading \in BOOLEAN
      BY <1>3, <1>5, Zenon
    <3>3. QED
      BY <1>2, <2>3, <3>1, <3>2, Zenon
  <2>6. Sent' = Length' + 1 => ctl'.stopDet
    <3>1. Sent' = Length' + 1 <=> Sent = Length
      BY <1>3, <1>4, <1>6
    <3>2. Sent = Length => cmd.stop
      BY <1>5, <1>7, Zenon
    <3>3. QED
      BY <1>3, <3>1, <3>2, Zenon
  <2>7. QED
    BY <2>1, <2>2, <2>3, <2>4, <2>5, <2>6, Zenon DEF CtlGood
<1>9. DmaGood'
  <2>1. Len(ctl.tx) <= Tdlr + 1 => Len(ctl'.tx) <= Tdlr + 1
    BY <1>3, <1>4, I2cAssumption
  <2>2. QED
    BY <1>1, <1>2, <1>6, <2>1 DEF DmaGood
<1>10. PlaceGood'
  BY <1>1, <1>2, <1>6 DEF PlaceGood
<1>11. QED
  BY <1>8, <1>9, <1>10

(* The first command selects the register.                                  *)
LEMMA SelectGood ==
  ASSUME CallsFit, PromiseInv, Good, Bus, Sent = 0
  PROVE  DevGood'
<1> DEFINE cmd == Cmd(Sent + 1)
<1>1. IInv /\ GoodInv /\ CtlGood /\ PlaceGood /\ DevGood /\ DevOk
  BY DEF PromiseInv, GoodInv
<1>2. p' = p
  BY DEF Bus
<1>3. /\ Sent' = Sent + 1 /\ dev' = Stepped(cmd)
      /\ ctl'.rx = IF cmd.read THEN Append(ctl.rx, dev.regs[dev.at]) ELSE ctl.rx
  BY CarriedGood
<1>4. ~cmd.read /\ cmd.b = p.call.addr[1]
  BY CarriedCommand
<1> HIDE DEF cmd
<1>5. Length \in Nat /\ Length >= 1 /\ p.pos \in Nat /\ p.call.addr[1] \in Nat
  BY <1>1, CallNumbers
<1>6. Starts(cmd)
  <2>1. ~(Sent \in 1 .. Length)
    BY <1>5
  <2>2. ~ctl.open
    BY <1>1, <2>1 DEF CtlGood
  <2>3. QED
    BY <2>2 DEF Starts
<1>7. dev' = [dev EXCEPT !.at = cmd.b % Registers]
  BY <1>3, <1>4, <1>6 DEF Stepped
<1>8. dev'.at = Register(1)
  BY <1>1, <1>4, <1>5, <1>7, RegisterFacts DEF DevOk
<1>9. Length' = Length /\ \A k : Register(k)' = Register(k)
  BY <1>2, SameCall
<1>10. Sent' = 1
  BY <1>3
<1>11. p.call.op = "read" =>
         p.pos = 0 /\ IsSeq(p.buf) /\ Len(p.buf) = p.pos /\ ctl.rx = <<>>
  BY <1>1, <1>5 DEF DevGood
<1>12. ctl'.rx = ctl.rx
  BY <1>3, <1>4
<1>13. Sent' \in 1 .. Length' => dev'.at = Register(Sent)'
  BY <1>8, <1>9, <1>10
<1>14. QED
  BY <1>2, <1>9, <1>10, <1>11, <1>12, <1>13 DEF DevGood

(* The next one of a write puts a byte into it.                             *)
LEMMA WrittenGood ==
  ASSUME CallsFit, PromiseInv, Good, Bus, Sent >= 1, p.call.op = "write"
  PROVE  DevGood'
<1> DEFINE cmd == Cmd(Sent + 1)
<1>1. IInv /\ GoodInv /\ CtlGood /\ PlaceGood /\ DevGood /\ DevOk
  BY DEF PromiseInv, GoodInv
<1>2. p' = p
  BY DEF Bus
<1>3. Sent \in 0 .. Length /\ Sent' = Sent + 1 /\ dev' = Stepped(cmd)
  BY CarriedGood
<1>4. ~cmd.read /\ cmd.b = p.call.data[Sent] /\ cmd.read \in BOOLEAN
  BY CarriedCommand
<1> HIDE DEF cmd
<1>5. /\ Length \in Nat /\ Length >= 1 /\ p.call.addr[1] \in Nat /\ Length <= Registers
      /\ Registers \in Nat
  BY <1>1, CallNumbers, I2cAssumption
<1>6. ~Starts(cmd) /\ dev.at = Register(Sent)
  <2>1. Sent \in 1 .. Length
    BY <1>3
  <2>2. ctl.open /\ ctl.reading \in BOOLEAN /\ ~ctl.reading
    <3>1. ctl.open
      BY <1>1, <2>1 DEF CtlGood
    <3>2. ctl.reading \in BOOLEAN /\ (ctl.reading <=> p.call.op = "read" /\ Sent >= 2)
      BY <1>1, <3>1, Zenon DEF CtlGood
    <3>3. p.call.op # "read"
      OBVIOUS
    <3>4. QED
      BY <3>1, <3>2, <3>3, Zenon
  <2>3. ~Starts(cmd)
    BY <1>4, <2>2 DEF Starts
  <2>4. QED
    BY <1>1, <2>1, <2>3 DEF DevGood
<1> DEFINE here == Register(Sent)
           regs == [dev.regs EXCEPT ![here] = cmd.b]
<1>7. dev'.regs = regs /\ dev'.at = Next1(here)
  BY <1>1, <1>3, <1>4, <1>6 DEF Stepped, DevOk
<1>8. here \in 0 .. Registers - 1 /\ Next1(here) = Register(Sent + 1)
  BY <1>3, <1>5, RegisterFacts
<1>9. regs[here] = cmd.b /\ \A r \in 0 .. Registers - 1 : r # here => regs[r] = dev.regs[r]
  BY <1>1, <1>8 DEF DevOk
<1> HIDE DEF here, regs
<1>10. ASSUME NEW i \in 1 .. Sent PROVE regs[Register(i)] = p.call.data[i]
  <2>1. CASE i = Sent
    BY <1>4, <1>9, <2>1 DEF here
  <2>2. CASE i # Sent
    <3>1. i \in Nat /\ Sent \in Nat /\ 1 <= i /\ i < Sent /\ Sent - i < Registers
      BY <1>3, <1>5, <1>10, <2>2
    <3>2. Register(i) # here
      BY <1>5, <3>1, RegistersApart DEF here
    <3>3. Register(i) \in 0 .. Registers - 1
      BY <1>5, <3>1, RegisterFacts
    <3>4. regs[Register(i)] = dev.regs[Register(i)]
      BY <1>9, <3>2, <3>3
    <3>5. i \in 1 .. Sent - 1
      BY <3>1
    <3>6. QED
      BY <1>1, <3>4, <3>5 DEF DevGood
  <2>3. QED
    BY <2>1, <2>2
<1>11. Length' = Length /\ \A k : Register(k)' = Register(k)
  BY <1>2, SameCall
<1>12. Sent' \in 1 .. Length' => dev'.at = Register(Sent)'
  BY <1>3, <1>7, <1>8, <1>11
<1>13. \A i \in 1 .. Sent' - 1 : dev'.regs[Register(i)'] = p'.call.data[i]
  <2>1. 1 .. Sent' - 1 = 1 .. Sent
    BY <1>3
  <2>2. QED
    BY <1>2, <1>7, <1>10, <1>11, <2>1
<1>14. p'.call.op # "read"
  BY <1>2
<1>15. QED
  BY <1>12, <1>13, <1>14 DEF DevGood

(* That of a read has the next byte come in, for which the program waits.   *)
LEMMA ReadGood ==
  ASSUME CallsFit, PromiseInv, Good, Bus, Sent >= 1, p.call.op = "read"
  PROVE  DevGood'
<1> DEFINE cmd == Cmd(Sent + 1)
<1>1. IInv /\ GoodInv /\ CtlGood /\ DmaGood /\ PlaceGood /\ DevGood /\ DevOk
  BY DEF PromiseInv, GoodInv
<1>2. p' = p
  BY DEF Bus
<1>3. /\ Sent \in 0 .. Length /\ Sent' = Sent + 1 /\ dev' = Stepped(cmd)
      /\ ctl.tx # <<>>
      /\ ctl'.rx = IF cmd.read THEN Append(ctl.rx, dev.regs[dev.at]) ELSE ctl.rx
  BY CarriedGood
<1>4. cmd.read
  BY CarriedCommand
<1> HIDE DEF cmd
<1>5. /\ Length \in Nat /\ p.pos \in Nat /\ p.call.addr[1] \in Nat
      /\ Len(ctl.tx) \in Nat /\ Len(ctl.tx) # 0
  BY <1>1, <1>3, CallNumbers
<1>6. dev.at = Register(Sent)
  BY <1>1, <1>3 DEF DevGood
<1>7. dev'.regs = dev.regs /\ dev'.at = Register(Sent + 1)
  <2>1. dev' = [dev EXCEPT !.at = Next1(dev.at)]
    BY <1>3, <1>4 DEF Stepped
  <2>2. dev'.regs = dev.regs /\ dev'.at = Next1(dev.at)
    BY <1>1, <2>1 DEF DevOk
  <2>3. QED
    BY <1>3, <1>5, <1>6, <2>2, RegisterFacts
<1>8. Sent = p.pos + 1
  <2>1. Sent < Given
    BY <1>1, <1>5, CallNumbers DEF Sent
  <2>2. p.pos > 0 => Sent > p.pos
    BY <1>1 DEF DevGood
  <2>3. p.at \in Places \ {"idle", "init", "write", "dma", "return"}
    <3>1. p.at \in Places \ {"idle", "init"}
      BY <1>1 DEF Good, InCall, IInv, CallOk
    <3>2. p.at # "write" /\ p.at # "dma" /\ p.at # "return"
      BY <1>1, <1>3 DEF PlaceGood, DmaGood, Good, CtlGood
    <3>3. QED
      BY <3>1, <3>2
  <2>4. CASE p.at = "read"
    BY <1>3, <1>5, <2>1, <2>2, <2>4 DEF Given
  <2>5. CASE p.at = "await"
    BY <1>3, <1>5, <2>1, <2>2, <2>5 DEF Given
  <2>6. CASE p.at \in {"stop", "settle"}
    <3>1. p.pos = Length /\ Given = Length + 1
      BY <1>1, <2>6 DEF PlaceGood, Given
    <3>2. QED
      BY <1>3, <1>5, <2>1, <2>2, <3>1
  <2>7. QED
    BY <2>3, <2>4, <2>5, <2>6 DEF Places
<1> DEFINE w == dev.regs[Register(p.pos + 1)]
<1>9. dev.regs[dev.at] = w
  BY <1>6, <1>8
<1> HIDE DEF w
<1>10. ctl.rx = <<>>
  BY <1>1, <1>5, <1>8 DEF DevGood
<1>11. ctl'.rx = <<w>>
  BY <1>3, <1>4, <1>9, <1>10
<1>12. Length' = Length /\ \A k : Register(k)' = Register(k)
  BY <1>2, SameCall
<1>13. Sent' \in 1 .. Length' => dev'.at = Register(Sent)'
  BY <1>3, <1>7, <1>12
<1>14. /\ IsSeq(p'.buf) /\ Len(p'.buf) = p'.pos
       /\ \A i \in 1 .. p'.pos : p'.buf[i] = dev'.regs[Register(i)']
  BY <1>1, <1>2, <1>7, <1>12 DEF DevGood
<1>15. Sent' = p'.pos + 2 /\ Sent' > p'.pos
  BY <1>2, <1>3, <1>5, <1>8
<1>16. ctl'.rx = <<dev'.regs[Register(p.pos + 1)']>>
  BY <1>2, <1>7, <1>11, <1>12 DEF w
<1>17. p'.call.op = "read"
  BY <1>2
<1>18. QED
  BY <1>12, <1>13, <1>14, <1>15, <1>16, <1>17 DEF DevGood

(* A channel started leaves the other one alone; what its block is.         *)
LEMMA StartFacts ==
  ASSUME NEW channels, ChannelsOk(channels), NEW ch \in {0, 1}, NEW cfg, NEW len, NEW after,
         after = StartChannel(channels, ch, cfg, len)
  PROVE  /\ ChannelsOk(after) /\ after[ch].en /\ ~after[ch].done
         /\ after[ch].left = BlockTs(len, cfg.src) + 1
         /\ ch = 1 => after[0] = channels[0]
<1> DEFINE left == BlockTs(len, cfg.src) + 1
<1>1. after = ConfigHw(Select(channels, ch), ch, cfg, len)
  BY DEF StartChannel
<1> DEFINE selected == Select(channels, ch)
<1>2. ChannelsOk(selected) /\ (ch = 1 => selected[0] = channels[0])
  <2> DEFINE off == Enable(channels, ch, FALSE)
  <2>1. ChannelsOk(off) /\ (ch = 1 => off[0] = channels[0])
    BY DEF Enable, ChannelsOk
  <2> HIDE DEF off
  <2>2. [off EXCEPT ![ch].done = FALSE] = selected
    BY DEF Select, off
  <2> HIDE DEF selected
  <2>3. QED
    BY <2>1, <2>2 DEF ChannelsOk
<1> HIDE DEF left, selected
<1> DEFINE set == [selected EXCEPT ![ch].done = FALSE, ![ch].cfg = cfg, ![ch].left = left]
<1>3. /\ ChannelsOk(set) /\ ~set[ch].done /\ set[ch].left = left
      /\ ch = 1 => set[0] = selected[0]
  BY <1>2 DEF ChannelsOk
<1>4. after = Enable(set, ch, TRUE)
  BY <1>1 DEF ConfigHw, left, selected
<1> HIDE DEF set
<1>5. /\ ChannelsOk(after) /\ after[ch].en /\ after[ch].done = set[ch].done
      /\ after[ch].left = set[ch].left
      /\ ch = 1 => after[0] = set[0]
  BY <1>3, <1>4 DEF Enable, ChannelsOk
<1>6. QED
  BY <1>2, <1>3, <1>5 DEF left

(* A block of bytes has their number.                                       *)
LEMMA BlockOfBytes ==
  ASSUME NEW len \in 1 .. 2 ^ 22 PROVE BlockTs(len, "bits_8") + 1 = len
BY DEF BlockTs, Width

(* The call begins.                                                         *)
LEMMA BeginGood ==
  ASSUME CallsFit, PromiseInv, Begin, Good'
  PROVE  CtlGood' /\ DmaGood' /\ PlaceGood' /\ DevGood'
<1>1. IInv /\ CalmInv /\ ModeFits /\ ChannelsOk(dma)
  BY DEF PromiseInv
<1>2. /\ p.at = "init" /\ BusReady /\ ctl' = XferInit(Cleared) /\ dma_mode' = dma_mode
      /\ dev' = dev
  BY DEF Begin
<1>3. /\ p.call \in Calls /\ p.pos = 0 /\ p.call.op \in {"write", "read"}
  BY <1>1, <1>2 DEF IInv, CallOk, CallsFit, CallsProper
<1>4. /\ p'.call = p.call /\ p'.ret = p.ret /\ p'.pos = 0 /\ p'.buf = p.buf /\ p'.calm = p.calm
      /\ p'.at = IF dma_mode THEN "dma" ELSE p.call.op
      /\ p'.from = IF dma_mode /\ p.call.op = "write" THEN p.call.data ELSE p.from
  BY <1>1, <1>3 DEF Begin, IInv, CallOk
<1>5. /\ p.calm /\ p.call.addr # <<>> /\ p.call.dev = "there" /\ p.buf = <<>> /\ p.ret = 0
      /\ dma_mode => p.call.op = "write"
  BY <1>1, <1>2, <1>4 DEF Good, CalmInv
<1>6. /\ Length \in Nat /\ Length >= 1
      /\ dma_mode /\ p.call.op = "write" => Length - 1 \in 1 .. 2 ^ 22
  BY <1>1, <1>3, LengthOk DEF CallsFit, ModeFits, DmaCalls, Length
<1>7. Length' = Length /\ \A k : Cmd(k)' = Cmd(k)
  BY <1>4, SameCall
<1> DEFINE c0 == SlaveAddr(Cleared, "there")
           cmd == Byte(p.call.addr[1], FALSE)
<1>8. /\ CtlOk(c0) /\ c0.tx = <<>> /\ c0.rx = <<>> /\ c0.abort = ctl.abort /\ c0.open = ctl.open
      /\ c0.enabled /\ ~c0.abrt /\ c0.target = "there"
  BY <1>1, EmptyReads, I2cAssumption DEF SlaveAddr, Cleared, IInv, CtlOk, CtlFields
<1>9. ctl' = Push(c0, cmd) /\ cmd = Cmd(1)
  BY <1>2, <1>5 DEF XferInit, Cmd
<1> HIDE DEF c0, cmd
<1>10. /\ ctl'.tx = Append(<<>>, cmd) /\ Len(ctl'.tx) = 1 /\ ctl'.rx = <<>>
       /\ ctl'.enabled /\ ~ctl'.abrt /\ ctl'.abort = ctl.abort /\ ctl'.target = "there"
       /\ ctl'.open = ctl.open
  <2>1. Len(c0.tx) = 0 /\ 0 < FifoSize
    BY <1>8, EmptyReads, I2cAssumption
  <2>2. CtlOk(c0) /\ c0.enabled /\ ~c0.abrt /\ Len(c0.tx) < FifoSize /\ ctl' = Push(c0, cmd)
    BY <1>8, <1>9, <2>1
  <2>3. /\ ctl'.tx = Append(c0.tx, cmd) /\ Len(ctl'.tx) = Len(c0.tx) + 1 /\ ctl'.rx = c0.rx
        /\ ctl'.enabled /\ ~ctl'.abrt /\ ctl'.abort = c0.abort /\ ctl'.target = c0.target
        /\ ctl'.open = c0.open
    BY <2>2, PushGives
  <2>4. QED
    BY <1>8, <2>1, <2>3
<1>11. ~ctl.open /\ ~ctl.abort
  BY <1>2, ReadyMeansIdle
<1>12. dma_mode => /\ dma'[0].left = Length - 1 /\ dma'[0].en /\ ~dma'[0].done
  <2>1. SUFFICES ASSUME dma_mode PROVE dma'[0].left = Length - 1 /\ dma'[0].en /\ ~dma'[0].done
    OBVIOUS
  <2> DEFINE cfg == I2cTx(FALSE)
             len == Length - 1
  <2>2. dma' = StartChannel(dma, 0, cfg, len)
    BY <1>5, <2>1 DEF Begin
  <2>3. cfg.src = "bits_8"
    BY DEF I2cTx, FromMemory
  <2> HIDE DEF cfg, len
  <2>4. /\ dma'[0].en /\ ~dma'[0].done
        /\ dma'[0].left = BlockTs(len, "bits_8") + 1
    BY <1>1, <2>2, <2>3, StartFacts
  <2>5. BlockTs(len, "bits_8") + 1 = len
    BY <1>5, <1>6, <2>1, BlockOfBytes DEF len
  <2>6. QED
    BY <2>4, <2>5 DEF len
<1>13. ~dma_mode => ~dma'[0].en
  BY <1>1 DEF Begin, IInv, ModeInv
<1>14. Given' = 1 /\ Sent' = 0
  <2>1. Given' = 1
    BY <1>3, <1>4, <1>6, <1>7, <1>12 DEF Given
  <2>2. QED
    BY <1>10, <2>1 DEF Sent
<1>15. CtlGood'
  <2>1. Queued(ctl.tx, Sent)'
    <3>1. ctl'.tx[1] = cmd
      BY <1>10, LengthOfSeq, PushSeq
    <3>2. \A i \in 1 .. Len(ctl'.tx) : i = 1 /\ Sent' + i = 1
      BY <1>10, <1>14
    <3>3. QED
      BY <1>7, <1>9, <3>1, <3>2 DEF Queued
  <2>2. ~ctl'.open /\ ~ctl'.abort /\ p'.ret = 0 /\ Sent' >= 0
    BY <1>4, <1>5, <1>10, <1>11, <1>14
  <2>3. ~(Sent' \in 1 .. Length') /\ Sent' # Length' + 1
    BY <1>6, <1>7, <1>14
  <2>4. p'.at # "return"
    BY <1>3, <1>4
  <2>5. QED
    BY <1>10, <2>1, <2>2, <2>3, <2>4, Zenon DEF CtlGood
<1>16. DmaGood'
  <2>1. CASE dma_mode
    <3>1. p'.at = "dma" /\ p'.from = p'.call.data /\ dma_mode'
      BY <1>2, <1>4, <1>5, <2>1
    <3>2. /\ dma'[0].left \in 0 .. Length - 1
          /\ dma'[0].en <=> dma'[0].left > 0
          /\ dma'[0].done <=> dma'[0].left = 0
      BY <1>5, <1>6, <1>12, <2>1
    <3>3. Len(ctl'.tx) <= Tdlr + 1
      BY <1>10, I2cAssumption
    <3>4. QED
      BY <1>7, <3>1, <3>2, <3>3 DEF DmaGood
  <2>2. CASE ~dma_mode
    BY <1>2, <1>3, <1>4, <1>13, <2>2 DEF DmaGood
  <2>3. QED
    BY <2>1, <2>2
<1>17. PlaceGood'
  BY <1>3, <1>4, <1>7 DEF PlaceGood
<1>18. DevGood'
  BY <1>4, <1>5, <1>7, <1>10, <1>14, EmptyReads DEF DevGood
<1>19. QED
  BY <1>15, <1>16, <1>17, <1>18

(* The device and the channels keep their shape.                            *)
LEMMA ShapesKept ==
  ASSUME CallsFit, PromiseInv, [Next]_vars
  PROVE  DevOk' /\ ChannelsOk(dma')
<1>1. DevOk /\ ChannelsOk(dma)
  BY DEF PromiseInv
<1>2. DevOk'
  <2>1. CASE dev' = dev
    BY <1>1, <2>1 DEF DevOk
  <2>2. ASSUME NEW cmd, dev' = Stepped(cmd) PROVE DevOk'
    BY <1>1, <2>2 DEF DevOk, Stepped
  <2>3. dev' = dev \/ \E cmd : dev' = Stepped(cmd)
    BY DEF Next, Program, Write, Read, Finish, InitMaster, Start, Begin, BusBusy, Put, PutTimeout,
           Ask, Get, GetTimeout, DmaEnd, SeeStop, StopTimeout, Settle, Return, Bus, Hold, LetGo,
           DmaTx, vars
  <2>4. QED
    BY <2>1, <2>2, <2>3
<1>3. ChannelsOk(dma')
  <2>1. CASE dma' = dma
    BY <1>1, <2>1
  <2>2. ASSUME NEW ch \in {0, 1}, NEW cfg, NEW len, dma' = StartChannel(dma, ch, cfg, len)
        PROVE  ChannelsOk(dma')
    BY <1>1, <2>2, StartFacts
  <2>3. CASE dma' = Move(dma, 0)
    BY <1>1, <2>3 DEF Move, ChannelsOk
  <2>4. CASE Begin
    <3>1. p.call.op \in {"write", "read"}
      BY <2>4 DEF Begin, PromiseInv, IInv, CallOk, CallsFit, CallsProper
    <3>2. CASE ~dma_mode
      BY <2>1, <2>4, <3>2 DEF Begin
    <3>3. CASE dma_mode /\ p.call.op = "write"
      <4>1. dma' = StartChannel(dma, 0, I2cTx(FALSE), Length - 1)
        BY <2>4, <3>3 DEF Begin
      <4>2. QED
        BY <2>2, <4>1
    <3>4. CASE dma_mode /\ p.call.op = "read"
      <4>1. dma' = StartChannel(dma, 1, I2cRx(FALSE), Length)
        BY <2>4, <3>4 DEF Begin
      <4>2. QED
        BY <2>2, <4>1
    <3>5. QED
      BY <3>1, <3>2, <3>3, <3>4
  <2>5. CASE ~Begin
    <3>1. dma' = dma \/ dma' = Move(dma, 0)
      BY <2>5 DEF Next, Program, Write, Read, Finish, InitMaster, Start, BusBusy, Put, PutTimeout,
           Ask, Get, GetTimeout, DmaEnd, SeeStop, StopTimeout, Settle, Return, Bus, Hold, LetGo,
           DmaTx, vars
    <3>2. QED
      BY <2>1, <2>3, <3>1
  <2>6. QED
    BY <2>4, <2>5
<1>4. QED
  BY <1>2, <1>3

(* Who goes on calmly was calm, ...                                         *)
LEMMA CalmKept ==
  ASSUME CallsFit, PromiseInv, [Next]_vars
  PROVE  CalmInv'
<1>1. IInv /\ CalmInv
  BY DEF PromiseInv
<1>2. DOMAIN p = {"call", "at", "pos", "ret", "buf", "calm", "from"}
  BY <1>1 DEF IInv, CallOk
<1>3. ASSUME p.at # "idle", p'.calm = p.calm, p'.call = p.call, stall' = stall, p'.at # "init"
      PROVE  CalmInv'
  BY <1>1, <1>3 DEF CalmInv
<1>4. CASE InitMaster \/ UNCHANGED vars \/ Bus \/ DmaTx
  <2>1. p' = p /\ stall' = stall
    BY <1>4 DEF InitMaster, vars, Bus, DmaTx
  <2>2. QED
    BY <1>1, <2>1 DEF CalmInv
<1>5. CASE Start
  <2>1. stall' = stall
    BY <1>5 DEF Start
  <2>2. PICK c \in Calls :
          p' = [IdleAfter(p.from) EXCEPT !.call = c, !.at = "init",
                                         !.calm = (c.dev = "there" /\ ~stall)]
    BY <1>5 DEF Start
  <2>3. p'.call = c /\ p'.calm = (c.dev = "there" /\ ~stall) /\ p'.buf = <<>> /\ p'.ret = 0
    BY <2>2 DEF IdleAfter
  <2>4. QED
    BY <2>1, <2>3 DEF CalmInv
<1>6. CASE Begin
  <2>1. p.call.op \in {"write", "read"}
    BY <1>1, <1>6 DEF Begin, IInv, CallOk, CallsFit, CallsProper
  <2>2. QED
    BY <1>2, <1>3, <1>6, <2>1 DEF Begin
<1>7. CASE BusBusy \/ PutTimeout \/ GetTimeout \/ DmaEnd \/ SeeStop \/ StopTimeout \/ Settle \/ Ask
  <2>1. /\ p.at \in {"init", "write", "await", "dma", "stop", "settle", "read"} /\ stall' = stall
        /\ \/ p' = [p EXCEPT !.at = "return", !.ret = 1]
           \/ p' = [p EXCEPT !.at = "stop", !.ret = 1]
           \/ \E at \in {"stop", "settle", "return", "await"} : p' = [p EXCEPT !.at = at]
    BY <1>7 DEF BusBusy, PutTimeout, GetTimeout, DmaEnd, SeeStop, StopTimeout, Settle, Ask
  <2>2. QED
    BY <1>2, <1>3, <2>1
<1>8. CASE Put \/ Get
  BY <1>2, <1>3, <1>8 DEF Put, Get
<1>9. CASE Return
  BY <1>9 DEF Return, IdleAfter, CalmInv
<1>10. CASE Hold
  BY <1>2, <1>10 DEF Hold, CalmInv
<1>11. CASE LetGo
  BY <1>1, <1>11 DEF LetGo, CalmInv
<1>12. QED
  BY <1>4, <1>5, <1>6, <1>7, <1>8, <1>9, <1>10, <1>11 DEF Next, Program, Write, Read, Finish

(* ... and whoever is promised something was before, unless his call begins *)
(* with the step.                                                           *)
LEMMA GoodBefore ==
  ASSUME PromiseInv, Good', p.at \notin {"idle", "init"}, p'.calm = p.calm, p'.call = p.call,
         dma_mode' = dma_mode, ctl'.dmaOn => ctl.dmaOn
  PROVE  Good
BY DEF Good, InCall

(* What a step does to a call whose outcome is promised.                    *)
LEMMA GoodKept ==
  ASSUME CallsFit, PromiseInv, [Next]_vars
  PROVE  GoodInv'
<1> SUFFICES ASSUME Good' PROVE CtlGood' /\ DmaGood' /\ PlaceGood' /\ DevGood'
  BY DEF GoodInv
<1>1. IInv /\ CalmInv /\ GoodInv
  BY DEF PromiseInv
<1>2. /\ DOMAIN p = {"call", "at", "pos", "ret", "buf", "calm", "from"}
      /\ CtlOk(ctl) /\ DOMAIN ctl = CtlFields
  BY <1>1 DEF IInv, CallOk, CtlOk
<1>3. p'.at \notin {"idle", "init"} /\ p'.calm
  BY DEF Good, InCall
<1>4. \A cmd : ctl' = Push(ctl, cmd) => ctl'.dmaOn = ctl.dmaOn
  BY <1>2, PushKeeps
<1>5. CASE Begin
  BY <1>5, BeginGood
<1>6. CASE BusBusy
  BY <1>6, NeverBusy
<1>7. CASE InitMaster \/ Start \/ Return
  <2>1. CASE InitMaster \/ Return
    BY <1>3, <2>1 DEF InitMaster, Return, IdleAfter
  <2>2. CASE Start
    <3>1. PICK c \in Calls :
            p' = [IdleAfter(p.from) EXCEPT !.call = c, !.at = "init",
                                           !.calm = (c.dev = "there" /\ ~stall)]
      BY <2>2 DEF Start
    <3>2. p'.at = "init"
      BY <3>1 DEF IdleAfter
    <3>3. QED
      BY <1>3, <3>2
  <2>3. QED
    BY <1>7, <2>1, <2>2
<1>8. CASE Hold
  <2>1. ~p'.calm
    BY <1>2, <1>8 DEF Hold
  <2>2. QED
    BY <1>3, <2>1
<1>9. CASE LetGo
  <2>1. stall /\ p' = p
    BY <1>9 DEF LetGo
  <2>2. QED
    BY <1>1, <1>3, <2>1 DEF CalmInv
<1>10. CASE Put
  <2>1. Good
    BY <1>2, <1>4, <1>10, GoodBefore DEF Put
  <2>2. QED
    BY <1>10, <2>1, PutGood
<1>11. CASE Ask
  <2>1. Good
    BY <1>2, <1>4, <1>11, GoodBefore DEF Ask
  <2>2. QED
    BY <1>11, <2>1, AskGood
<1>12. CASE Get
  <2>1. ctl'.dmaOn = ctl.dmaOn
    BY <1>2, <1>12 DEF Get, CtlFields
  <2>2. Good
    BY <1>2, <1>12, <2>1, GoodBefore DEF Get
  <2>3. QED
    BY <1>12, <2>2, GetGood
<1>13. CASE DmaEnd
  <2>1. Good
    BY <1>2, <1>4, <1>13, GoodBefore DEF DmaEnd
  <2>2. QED
    BY <1>13, <2>1, DmaEndGood
<1>14. CASE SeeStop
  <2>1. ctl'.dmaOn = ctl.dmaOn
    BY <1>2, <1>14 DEF SeeStop, CtlFields
  <2>2. Good
    BY <1>2, <1>14, <2>1, GoodBefore DEF SeeStop
  <2>3. QED
    BY <1>14, <2>2, SeeStopGood
<1>15. CASE Settle
  <2>1. ctl'.dmaOn = ctl.dmaOn
    BY <1>2, <1>15 DEF Settle, Flushed, Cleared, CtlFields
  <2>2. Good
    BY <1>2, <1>15, <2>1, GoodBefore DEF Settle
  <2>3. QED
    BY <1>15, <2>2, SettleGood
<1>16. CASE PutTimeout \/ GetTimeout
  <2>1. Good
    BY <1>2, <1>16, GoodBefore DEF PutTimeout, GetTimeout
  <2>2. QED
    BY <1>16, <2>1, NeverLate
<1>17. CASE StopTimeout
  <2>1. ~ctl'.dmaOn
    BY <1>17, FreshOk DEF StopTimeout, Reset
  <2>2. Good
    BY <1>2, <1>17, <2>1, GoodBefore DEF StopTimeout
  <2>3. QED
    BY <1>17, <2>2, NeverLate
<1>18. CASE Bus
  <2>1. ctl'.dmaOn = ctl.dmaOn
    BY <1>2, <1>18 DEF Bus, Aborted, Carried, CtlFields
  <2>2. p' = p /\ dma_mode' = dma_mode
    BY <1>18 DEF Bus
  <2>3. Good
    BY <1>3, <2>1, <2>2, GoodBefore
  <2>4. CtlGood' /\ DmaGood' /\ PlaceGood'
    BY <1>18, <2>3, BusCtlGood
  <2>5. Sent \in 0 .. Length /\ p.call.op \in {"write", "read"} /\ Length \in Nat
    BY <1>1, <1>18, <2>3, CarriedGood, CallNumbers
  <2>6. DevGood'
    <3>1. CASE Sent = 0
      BY <1>18, <2>3, <3>1, SelectGood
    <3>2. CASE Sent >= 1 /\ p.call.op = "write"
      BY <1>18, <2>3, <3>2, WrittenGood
    <3>3. CASE Sent >= 1 /\ p.call.op = "read"
      BY <1>18, <2>3, <3>3, ReadGood
    <3>4. QED
      BY <2>5, <3>1, <3>2, <3>3
  <2>7. QED
    BY <2>4, <2>6
<1>19. CASE DmaTx
  <2>1. ctl'.dmaOn = ctl.dmaOn /\ p' = p /\ dma_mode' = dma_mode
    BY <1>4, <1>19 DEF DmaTx
  <2>2. Good
    BY <1>3, <2>1, GoodBefore
  <2>3. QED
    BY <1>19, <2>2, DmaTxGood
<1>20. CASE UNCHANGED vars
  <2>1. p' = p /\ ctl' = ctl /\ dma' = dma /\ dev' = dev /\ dma_mode' = dma_mode
    BY <1>20 DEF vars
  <2>2. Good
    BY <1>3, <2>1, GoodBefore
  <2>3. CtlGood /\ DmaGood /\ PlaceGood /\ DevGood
    BY <1>1, <2>2 DEF GoodInv
  <2>4. Length' = Length /\ (\A k : Cmd(k)' = Cmd(k)) /\ \A k : Register(k)' = Register(k)
    BY <2>1, SameCall
  <2>5. Given' = Given
    BY <2>1, <2>4 DEF Given
  <2>6. Sent' = Sent
    BY <2>1, <2>5 DEF Sent
  <2>7. Queued(ctl.tx, Sent)'
    BY <2>1, <2>3, <2>4, <2>6 DEF CtlGood, Queued
  <2>8. CtlGood'
    BY <2>1, <2>3, <2>4, <2>6, <2>7, Zenon DEF CtlGood
  <2>9. DmaGood' /\ PlaceGood'
    BY <2>1, <2>3, <2>4 DEF DmaGood, PlaceGood
  <2>10. DevGood'
    BY <2>1, <2>3, <2>6, DevKept
  <2>11. QED
    BY <2>8, <2>9, <2>10
<1>21. QED
  BY <1>5, <1>6, <1>7, <1>8, <1>9, <1>10, <1>11, <1>12, <1>13, <1>14, <1>15, <1>16, <1>17, <1>18,
     <1>19, <1>20 DEF Next, Program, Write, Read, Finish

-----------------------------------------------------------------------------
(* The theorems about what a call does.                                     *)

(* A call whose outcome is promised is refused nothing, and what it has     *)
(* sent so far is what it was asked to send.                                *)
THEOREM PromiseInvariance ==
  ASSUME CallsFit PROVE Spec /\ ModeFits => []PromiseInv
<1>1. Init /\ ModeFits => PromiseInv
  <2> SUFFICES ASSUME Init, ModeFits PROVE PromiseInv
    OBVIOUS
  <2>1. IInv
    BY InitStep
  <2>2. p = IdleAfter(<<>>) /\ p.at = "idle"
    BY DEF Init, IdleAfter
  <2>3. CalmInv /\ GoodInv
    BY <2>2 DEF CalmInv, GoodInv, Good, InCall
  <2>4. DevOk /\ ChannelsOk(dma)
    BY DEF Init, DevOk, ChannelsOk, IdleChannel
  <2>5. QED
    BY <2>1, <2>3, <2>4 DEF PromiseInv
<1>2. PromiseInv /\ IInv' /\ [Next]_vars => PromiseInv'
  <2> SUFFICES ASSUME PromiseInv, IInv', [Next]_vars PROVE PromiseInv'
    OBVIOUS
  <2>1. dma_mode' = dma_mode
    BY DEF Next, Program, Write, Read, Finish, InitMaster, Start, Begin, BusBusy, Put, PutTimeout,
           Ask, Get, GetTimeout, DmaEnd, SeeStop, StopTimeout, Settle, Return, Bus, Hold, LetGo,
           DmaTx, vars
  <2>2. ModeFits'
    BY <2>1 DEF PromiseInv, ModeFits
  <2>3. QED
    BY <2>2, ShapesKept, CalmKept, GoodKept DEF PromiseInv
<1>3. Spec => []IInv
  BY Invariance DEF CallsFit
<1>4. QED
  BY <1>1, <1>2, <1>3, PTL DEF Spec

(* However the calls before it ended, a call during which the device is     *)
(* there and lets the clock go returns 0, and what it read or wrote is in   *)
(* the registers it named.                                                  *)
THEOREM CallsAreTrue ==
  ASSUME CallsFit PROVE Spec /\ ModeFits => []TrueToDevice
<1>1. PromiseInv => TrueToDevice
  <2> SUFFICES ASSUME PromiseInv, p.at = "return", Promised PROVE
         /\ p.ret = 0
         /\ p.call.op = "write" => \A i \in 1 .. Length : dev.regs[Register(i)] = p.call.data[i]
         /\ p.call.op = "read" => p.buf = [i \in 1 .. Length |-> dev.regs[Register(i)]]
    BY DEF TrueToDevice
  <2>1. Good
    BY DEF Promised, Good, InCall
  <2>2. IInv /\ GoodInv /\ CtlGood /\ PlaceGood /\ DevGood
    BY <2>1 DEF PromiseInv, GoodInv
  <2>3. Length \in Nat
    BY <2>1, <2>2, CallNumbers
  <2>4. Sent = Length + 1
    <3>1. Given = Length + 1
      BY DEF Given
    <3>2. Len(ctl.tx) = 0
      BY <2>2, EmptyReads DEF CtlGood
    <3>3. QED
      BY <2>3, <3>1, <3>2 DEF Sent
  <2>5. p.call.op = "write" => \A i \in 1 .. Length : dev.regs[Register(i)] = p.call.data[i]
    <3>1. 1 .. Sent - 1 = 1 .. Length
      BY <2>3, <2>4
    <3>2. QED
      BY <2>2, <3>1 DEF DevGood
  <2>6. p.call.op = "read" => p.buf = [i \in 1 .. Length |-> dev.regs[Register(i)]]
    <3>1. SUFFICES ASSUME p.call.op = "read"
                   PROVE  p.buf = [i \in 1 .. Length |-> dev.regs[Register(i)]]
      OBVIOUS
    <3>2. /\ IsSeq(p.buf) /\ Len(p.buf) = Length
          /\ \A i \in 1 .. Length : p.buf[i] = dev.regs[Register(i)]
      BY <2>2, <3>1 DEF DevGood, PlaceGood
    <3>3. p.buf \in [1 .. Length -> {p.buf[i] : i \in DOMAIN p.buf}]
      BY <3>2 DEF IsSeq
    <3>4. QED
      BY <3>2, <3>3
  <2>7. p.ret = 0
    BY <2>2 DEF CtlGood
  <2>8. QED
    BY <2>5, <2>6, <2>7
<1>2. QED
  BY <1>1, PromiseInvariance, PTL
=============================================================================
