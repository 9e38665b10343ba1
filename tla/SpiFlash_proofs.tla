----------------------------- MODULE SpiFlash_proofs -----------------------------
(***************************************************************************)
(* No received word is lost, whatever the geometry of the chip, the depth  *)
(* of the FIFOs and the calls: the loops of cdl_spi.c need not watch the   *)
(* receive FIFO because spi_xfer_packet never puts more words on the way   *)
(* than it holds.  And the calls of cdl_spi_flash.c, over the packets, the *)
(* FIFOs, the DMA channels and a chip that takes its time, keep the        *)
(* promises of a NOR memory (FlashMemory): KeepsPromises.                  *)
(*                                                                         *)
(* A packet is under way between three counters.  By CPU they are the      *)
(* words written, the words read, and the two FIFOs between them; by DMA   *)
(* what the two channels have left takes the place of the first two        *)
(* (IInv).  The words the chip has and those the transmit FIFO holds are   *)
(* the first of the exchange, in its order (WireInv); the answers in the   *)
(* driver's buffer and in the receive FIFO are true (AnswerInv); what the  *)
(* chip's operation is going to change, a call in progress or one that     *)
(* gave up has asked for (ChipInv); and as long as none gave up, the chip  *)
(* is only busy with what the script waits for, and what is behind the     *)
(* driver's position is done (CleanInv).                                   *)
(***************************************************************************)
EXTENDS SpiFlash, SeqFacts

(* Calls of the flash driver, none longer than the chip.                    *)
CallsWithin ==
  Calls \subseteq [op : {"erase", "write", "read"}, addr : Nat, len : 0 .. Cap, data : {0, 1}]
(* A packet fits the 22 bits of a channel's block size.                     *)
BlocksFit == FifoSize <= 2^22

-----------------------------------------------------------------------------
(* The invariant.                                                           *)

AllCalls == [op : {"none", "probe", "erase", "write", "read"}, addr : Nat, len : 0 .. Cap,
             data : {0, 1}]
Steps == {"wren", "rsten", "rst", "status", "id", "rdst", "rdst1", "wrst", "erase", "program",
          "read"}

(* The driver is at a step of its script, at a position inside its call.    *)
DriverOk(e) ==
  /\ DOMAIN e = {"call", "probed", "script", "pc", "pos", "buf", "st", "st1", "elapsed"}
  /\ e.call \in AllCalls /\ e.pos \in 0 .. e.call.len
  /\ e.script \in Seq(Steps) /\ e.pc \in 0 .. Len(e.script)
  /\ e.call # NoCall => e.pc >= 1
ChipOk(c) == DOMAIN c = {"maker", "cells", "guard", "st1", "wel", "sel", "words", "doing", "slow"}

(* A channel that runs has something left to move and is not done.          *)
ChannelOk(k) ==
  /\ DOMAIN k = {"en", "done", "cfg", "left"}
  /\ k.en \in BOOLEAN /\ k.done \in BOOLEAN /\ k.left \in Int
  /\ k.en => ~k.done /\ k.left >= 1
ChannelsOk(c) == DOMAIN c = {0, 1} /\ \A ch \in {0, 1} : ChannelOk(c[ch])
Left(c, ch) == IF c[ch].en THEN c[ch].left ELSE 0

(* The FIFOs hold sequences and have not overrun.                           *)
FifosOk ==
  /\ IsSeq(txFifo) /\ IsSeq(rxFifo)
  /\ Len(txFifo) <= FifoSize /\ Len(rxFifo) <= FifoSize
  /\ lost = FALSE

(* Between packets nothing moves.                                           *)
Quiet ==
  x.at = "none" =>
    /\ x = NoPacket /\ ~chip.sel /\ chip.words = <<>>
    /\ txFifo = <<>> /\ rxFifo = <<>> /\ ~dma[0].en /\ ~dma[1].en

(* A packet belongs to a call and fits the FIFO.                            *)
PacketOk ==
  /\ DOMAIN x = {"phase", "base", "len", "tx", "rx", "at"}
  /\ x.at \in {"none", "tx", "rx", "dma", "end"}
  /\ x.base \in Nat
  /\ x.len \in 0 .. FifoSize /\ x.tx \in 0 .. x.len /\ x.rx \in 0 .. x.len
  /\ x.at # "none" =>
       d.call # NoCall /\ ~Refused(d.call) /\ x.phase \in {"cmd", "data"} /\ x.len >= 1

(* By CPU: what was written and not read is all that can be on the way.     *)
CpuInv ==
  mode = "cpu" =>
    /\ x.at # "dma" /\ ~dma[0].en /\ ~dma[1].en
    /\ Len(txFifo) + Len(rxFifo) <= x.tx - x.rx
    /\ x.at = "end" => x.rx = x.len

(* By DMA: the receive channel has room for all that the transmit channel   *)
(* has sent and will send.                                                  *)
DmaInv ==
  mode = "dma" =>
    /\ x.at \notin {"tx", "rx"} /\ x.rx = 0
    /\ Len(txFifo) + Len(rxFifo) + Left(dma, 0) <= Left(dma, 1)
    /\ Left(dma, 1) <= FifoSize
    /\ x.at # "none" => x.tx = x.len - Left(dma, 0)
    /\ x.at = "end" => ~dma[1].en

IInv ==
  /\ mode \in {"cpu", "dma"}
  /\ DriverOk(d) /\ ChipOk(chip) /\ ChannelsOk(dma)
  /\ FifosOk /\ Quiet /\ PacketOk /\ CpuInv /\ DmaInv
-----------------------------------------------------------------------------
(* Facts about the channels.                                                *)

(* A channel that is started has all of its items left.                     *)
LEMMA ChannelStarts ==
  ASSUME NEW c, ChannelsOk(c), NEW ch \in {0, 1}, NEW cfg, cfg.src = "bits_8",
         NEW len \in Nat, len >= 1, len <= 2^22
  PROVE  /\ ChannelsOk(StartChannel(c, ch, cfg, len))
         /\ Left(StartChannel(c, ch, cfg, len), ch) = len
         /\ \A o \in {0, 1} : o # ch => StartChannel(c, ch, cfg, len)[o] = c[o]
<1>1. Width["bits_8"] = 1
  BY DEF Width
<1>2. BlockTs(len, "bits_8") + 1 = len
  BY <1>1 DEF BlockTs
<1> DEFINE c1 == Select(c, ch)
<1>3. /\ ChannelsOk(c1) /\ \A o \in {0, 1} : o # ch => c1[o] = c[o]
  BY DEF ChannelsOk, ChannelOk, Select, Enable
<1> HIDE DEF c1
<1> DEFINE c2 == ConfigHw(c1, ch, cfg, len)
<1>4. /\ DOMAIN c2 = {0, 1} /\ \A o \in {0, 1} : o # ch => c2[o] = c1[o]
      /\ DOMAIN c2[ch] = {"en", "done", "cfg", "left"}
      /\ c2[ch].en = TRUE /\ c2[ch].done = FALSE /\ c2[ch].left = len
      /\ c2[ch].en /\ ~c2[ch].done /\ c2[ch].en \in BOOLEAN /\ c2[ch].done \in BOOLEAN
  BY <1>2, <1>3 DEF ChannelsOk, ChannelOk, ConfigHw, Enable
<1> HIDE DEF c2
<1>5. ChannelsOk(c2)
  <2>1. ChannelOk(c2[ch])
    BY <1>4 DEF ChannelOk
  <2>2. ASSUME NEW o \in {0, 1}, o # ch PROVE ChannelOk(c2[o])
    BY <1>3, <1>4, <2>2 DEF ChannelsOk
  <2>3. QED
    BY <1>4, <2>1, <2>2 DEF ChannelsOk
<1>6. Left(c2, ch) = len
  BY <1>4 DEF Left
<1>7. QED
  BY <1>3, <1>4, <1>5, <1>6 DEF StartChannel, c1, c2

(* A channel that moves an item has one less left.                          *)
LEMMA ChannelMoves ==
  ASSUME NEW c, ChannelsOk(c), NEW ch \in {0, 1}, c[ch].en
  PROVE  /\ ChannelsOk(Move(c, ch))
         /\ Left(Move(c, ch), ch) = Left(c, ch) - 1
         /\ \A o \in {0, 1} : o # ch => Move(c, ch)[o] = c[o]
<1> DEFINE c2 == Move(c, ch)
<1>1. /\ DOMAIN c2 = {0, 1} /\ \A o \in {0, 1} : o # ch => c2[o] = c[o]
      /\ DOMAIN c2[ch] = {"en", "done", "cfg", "left"}
      /\ c2[ch].en = (c[ch].left > 1) /\ c2[ch].done = (c[ch].left = 1)
      /\ c2[ch].left = c[ch].left - 1
  BY DEF ChannelsOk, ChannelOk, Move
<1> HIDE DEF c2
<1>2. ChannelsOk(c2) /\ Left(c2, ch) = Left(c, ch) - 1
  BY <1>1 DEF ChannelsOk, ChannelOk, Left
<1>3. QED
  BY <1>1, <1>2 DEF c2

(* A channel has items left exactly while it runs.                          *)
LEMMA LeftOver ==
  ASSUME NEW c, ChannelsOk(c), NEW ch \in {0, 1}
  PROVE  /\ Left(c, ch) \in Nat /\ (Left(c, ch) = 0 <=> ~c[ch].en)
         /\ c[ch].done => ~c[ch].en
BY DEF ChannelsOk, ChannelOk, Left

(* Both channels of a packet in DMA mode.                                   *)
LEMMA BothStart ==
  ASSUME ChannelsOk(dma), NEW len \in Nat, len >= 1, len <= 2^22, StartDma(len)
  PROVE  /\ ChannelsOk(dma')
         /\ mode = "cpu" => dma' = dma
         /\ mode # "cpu" => Left(dma', 0) = len /\ Left(dma', 1) = len
<1>1. CASE mode = "cpu"
  BY <1>1 DEF StartDma
<1>2. CASE mode # "cpu"
  <2> DEFINE c1 == StartChannel(dma, 0, SpiTx(8), len)
             c2 == StartChannel(c1, 1, SpiRx(8), len)
  <2>1. SpiTx(8).src = "bits_8" /\ SpiRx(8).src = "bits_8"
    BY DEF SpiTx, SpiRx, SpiWidth, FromMemory, ToMemory
  <2>2. ChannelsOk(c1) /\ Left(c1, 0) = len
    BY <2>1, ChannelStarts
  <2>3. ChannelsOk(c2) /\ Left(c2, 1) = len /\ c2[0] = c1[0]
    <3> HIDE DEF c1
    <3>1. ChannelsOk(c2) /\ Left(c2, 1) = len
      BY <2>1, <2>2, ChannelStarts, SMTT(60)
    <3>2. \A o \in {0, 1} : o # 1 => c2[o] = c1[o]
      BY <2>1, <2>2, ChannelStarts
    <3>3. QED
      BY <3>1, <3>2
  <2>4. dma' = c2
    BY <1>2 DEF StartDma
  <2> HIDE DEF c1, c2
  <2>5. Left(c2, 0) = len
    BY <2>2, <2>3 DEF Left
  <2>6. QED
    BY <1>2, <2>3, <2>4, <2>5
<1>3. QED
  BY <1>1, <1>2
-----------------------------------------------------------------------------
(* Facts about the script.                                                  *)

(* A sector, a page or the whole call.                                      *)
LEMMA ChunkNat ==
  ASSUME NEW e, DriverOk(e) PROVE Chunk(e.call, e.pos) \in Nat
<1>1. e.call.len \in Nat /\ e.pos \in Nat /\ e.pos <= e.call.len
  BY FlashAssumption DEF DriverOk, AllCalls
<1>2. QED
  BY <1>1, FlashAssumption DEF Chunk, Least

(* A step of a script is one of its commands.                               *)
LEMMA StepKnown ==
  ASSUME DriverOk(d), d.call # NoCall PROVE d.script[d.pc] \in Steps
<1>1. d.script \in Seq(Steps) /\ d.pc \in 1 .. Len(d.script)
  BY DEF DriverOk
<1>2. QED
  BY <1>1, ElementOfSeq

(* A command has a word at least, and a data phase that is made has one.    *)
LEMMA PhaseLengths ==
  ASSUME DriverOk(d), d.call # NoCall
  PROVE  /\ PhaseLen("cmd") \in Nat /\ PhaseLen("cmd") >= 1
         /\ PhaseLen("data") \in Nat
         /\ Job.in > 0 \/ Job.out # <<>> => PhaseLen("data") >= 1
<1> DEFINE step == d.script[d.pc]
           n == Chunk(d.call, d.pos)
           out == [i \in 1 .. n |-> Data(d.call, d.pos + i - 1)]
           st2 == Status2(chip.maker)
<1>1. step \in Steps
  BY StepKnown
<1>2. IsSeq(out)
  <2>1. n \in Nat
    BY ChunkNat
  <2> DEFINE S == {Data(d.call, d.pos + i - 1) : i \in 1 .. n}
  <2>2. out \in [1 .. n -> S]
    OBVIOUS
  <2> HIDE DEF S, out, n
  <2>3. QED
    BY <2>1, <2>2, FunctionIsSeq
<1>3. Len(<<1, d.st>> \o st2) \in Nat /\ Len(<<1, d.st>> \o st2) >= 1
  <2> DEFINE S == {1, d.st, d.st1}
  <2>1. <<1, d.st>> \in Seq(S) /\ Len(<<1, d.st>>) = 2 /\ <<>> \in Seq(S) /\ <<d.st1>> \in Seq(S)
    OBVIOUS
  <2>2. st2 \in Seq(S)
    BY <2>1 DEF Status2
  <2> HIDE DEF st2, S
  <2>3. Len(<<1, d.st>> \o st2) = 2 + Len(st2) /\ Len(st2) \in Nat
    BY <2>1, <2>2, ConcatProperties, LenProperties
  <2>4. QED
    BY <2>3
<1>4. d.call.len \in Nat
  BY FlashAssumption DEF DriverOk, AllCalls
<1>5. Len(Job.cmd) \in Nat /\ Len(Job.cmd) >= 1
  <2>1. \/ Job.cmd = <<1, d.st>> \o st2
        \/ \E a : Job.cmd = <<a>>
        \/ \E a, b : Job.cmd = <<a, b>>
        \/ \E a, b, c : Job.cmd = <<a, b, c>>
    BY <1>1 DEF Job, Exchange, Steps
  <2> HIDE DEF st2
  <2>2. QED
    BY <1>3, <2>1
<1>6. Job.in \in Nat
  BY <1>1, <1>4 DEF Job, Exchange, Steps
<1>7. Job.out = <<>> \/ Job.out = out
  BY <1>1 DEF Job, Exchange, Steps
<1> HIDE DEF step, n, out, st2
<1>8. IsSeq(Job.out)
  BY <1>2, <1>7, LengthOfSeq
<1>9. QED
  BY <1>5, <1>6, <1>8, LengthOfSeq DEF PhaseLen
(* The driver at rest, and at its next step.                                *)
LEMMA IdleOk ==
  ASSUME NEW p PROVE DriverOk(IdleDriver(p)) /\ IdleDriver(p).call = NoCall
<1>1. NoCall \in AllCalls /\ NoCall.len = 0
  BY FlashAssumption DEF NoCall, AllCalls
<1>2. <<>> \in Seq(Steps) /\ Len(<<>>) = 0
  BY EmptySeq
<1>3. QED
  BY <1>1, <1>2 DEF DriverOk, IdleDriver

(* Going on in a script stays in it.                                        *)
LEMMA GoesOn ==
  ASSUME NEW e, DriverOk(e), e.call # NoCall
  PROVE  DriverOk(GoOn(e))
<1>1. /\ Chunk(e.call, e.pos) \in Nat /\ e.call.len \in Nat /\ e.pos \in Nat
      /\ e.script \in Seq(Steps) /\ Len(e.script) \in Nat /\ e.pc \in 1 .. Len(e.script)
  BY ChunkNat, LenProperties, FlashAssumption DEF DriverOk, AllCalls
<1> DEFINE pos == e.pos + Chunk(e.call, e.pos)
<1>2. CASE e.pc < Len(e.script)
  BY <1>1, <1>2 DEF GoOn, DriverOk
<1>3. CASE ~(e.pc < Len(e.script)) /\ pos < e.call.len
  BY <1>1, <1>3 DEF GoOn, DriverOk
<1>4. CASE ~(e.pc < Len(e.script)) /\ ~(pos < e.call.len)
  BY <1>4, IdleOk DEF GoOn
<1>5. QED
  BY <1>2, <1>3, <1>4

(* Whatever the exchange was, the driver goes on, stays or rests.           *)
LEMMA AfterOk ==
  ASSUME DriverOk(d), d.call # NoCall PROVE DriverOk(AfterExchange)
<1> DEFINE e == IF d.call.op = "read" THEN d ELSE [d EXCEPT !.buf = <<>>]
           e1 == [e EXCEPT !.st = d.buf[1]]
           e2 == [e EXCEPT !.st1 = d.buf[1]]
<1>1. DriverOk(e) /\ e.call # NoCall
  BY DEF DriverOk
<1>2. DriverOk(e1) /\ e1.call # NoCall /\ DriverOk(e2) /\ e2.call # NoCall
  <2> HIDE DEF e
  <2>1. QED
    BY <1>1 DEF DriverOk
<1> HIDE DEF e, e1, e2
<1>3. DriverOk(GoOn(e)) /\ DriverOk(GoOn(e1)) /\ DriverOk(GoOn(e2)) /\ DriverOk(IdleDriver(TRUE))
  BY <1>1, <1>2, GoesOn, IdleOk
<1>4. DriverOk(AfterStatus(e))
  BY <1>1, <1>3 DEF AfterStatus
<1>5. AfterExchange \in {AfterStatus(e), GoOn(e), GoOn(e1), GoOn(e2)}
  BY DEF AfterExchange, e, e1, e2
<1>6. QED
  BY <1>3, <1>4, <1>5

(* What the driver receives changes its buffer only.                        *)
LEMMA ReceiveOk ==
  ASSUME DriverOk(d), NEW w
  PROVE  DriverOk(Receive(w)) /\ Receive(w).call = d.call
BY DEF DriverOk, Receive

(* A call begins with the first step of its script.                         *)
LEMMA StartOk ==
  ASSUME NEW c \in AllCalls, c.op # "none",
         d' = [IdleDriver(d.probed) EXCEPT !.call = c, !.script = Script(c, chip.maker), !.pc = 1]
  PROVE  DriverOk(d')
<1>1. Script(c, chip.maker) \in Seq(Steps) /\ Len(Script(c, chip.maker)) >= 1
  <2>1. c.op \in {"probe", "erase", "write", "read"}
    BY DEF AllCalls
  <2>2. EraseScript \in Seq(Steps) /\ Len(EraseScript) >= 1
    BY DEF EraseScript, Steps
  <2>3. WriteScript \in Seq(Steps) /\ Len(WriteScript) >= 1
    BY DEF WriteScript, Steps
  <2>4. <<"read">> \in Seq(Steps) /\ Len(<<"read">>) >= 1
    BY DEF Steps
  <2>5. ProbeScript(chip.maker) \in Seq(Steps) /\ Len(ProbeScript(chip.maker)) >= 1
    <3> DEFINE a == <<"wren", "rsten", "rst", "status", "id", "rdst">>
               b == IF chip.maker = "winbond" THEN <<"rdst1">> ELSE <<>>
               e == <<"wren", "wrst", "status">>
    <3>1. a \in Seq(Steps) /\ Len(a) = 6 /\ e \in Seq(Steps) /\ Len(e) = 3
      BY DEF Steps
    <3>2. b \in Seq(Steps)
      <4>1. <<"rdst1">> \in Seq(Steps) /\ <<>> \in Seq(Steps)
        BY DEF Steps
      <4>2. QED
        BY <4>1
    <3> HIDE DEF a, b, e
    <3>3. a \o b \in Seq(Steps) /\ Len(a \o b) >= 6 /\ Len(a \o b) \in Nat
      BY <3>1, <3>2, ConcatSeq
    <3>4. (a \o b) \o e \in Seq(Steps) /\ Len((a \o b) \o e) >= 1
      BY <3>1, <3>3, ConcatSeq
    <3>5. QED
      BY <3>4 DEF ProbeScript, a, b, e
  <2>6. QED
    BY <2>1, <2>2, <2>3, <2>4, <2>5 DEF Script
<1>2. c.len \in Nat
  BY FlashAssumption DEF AllCalls
<1>3. QED
  BY <1>1, <1>2, LenProperties DEF DriverOk, IdleDriver
-----------------------------------------------------------------------------
(* One lemma for each kind of step.                                         *)

(* The initial states.                                                      *)
LEMMA InitStep == Init => IInv
<1> SUFFICES ASSUME Init PROVE IInv
  OBVIOUS
<1>1. mode \in {"cpu", "dma"} /\ DriverOk(d)
  BY IdleOk DEF Init
<1>2. ChipOk(chip) /\ ~chip.sel /\ chip.words = <<>>
  BY DEF Init, ChipOk
<1>3. ChannelsOk(dma) /\ ~dma[0].en /\ ~dma[1].en
  <2>1. ChannelOk(IdleChannel) /\ ~IdleChannel.en
    BY DEF ChannelOk, IdleChannel
  <2>2. dma = [ch \in {0, 1} |-> IdleChannel]
    BY DEF Init
  <2>3. QED
    BY <2>1, <2>2 DEF ChannelsOk
<1>4. txFifo = <<>> /\ rxFifo = <<>> /\ lost = FALSE /\ x = NoPacket
  BY DEF Init
<1>5. FifosOk
  BY <1>4, LengthOfSeq, FlashAssumption DEF FifosOk
<1>6. Quiet
  BY <1>2, <1>3, <1>4 DEF Quiet
<1>7. PacketOk
  BY <1>4, FlashAssumption DEF PacketOk, NoPacket
<1>8. Left(dma, 0) = 0 /\ Left(dma, 1) = 0
  BY <1>3 DEF Left
<1>9. CpuInv /\ DmaInv
  BY <1>3, <1>4, <1>8, LengthOfSeq, FlashAssumption DEF CpuInv, DmaInv, NoPacket
<1>10. QED
  BY <1>1, <1>2, <1>3, <1>5, <1>6, <1>7, <1>9 DEF IInv

(* At the end of a packet every word of it has been read.                   *)
LEMMA EndEmpty ==
  ASSUME IInv, x.at \in {"none", "end"}
  PROVE  txFifo = <<>> /\ rxFifo = <<>> /\ ~dma[0].en /\ ~dma[1].en
<1>1. CASE x.at = "none"
  BY <1>1 DEF IInv, Quiet
<1>2. CASE x.at = "end" /\ mode = "cpu"
  <2>1. Len(txFifo) + Len(rxFifo) <= x.tx - x.len /\ x.tx <= x.len /\ x.tx \in Int /\ x.len \in Int
    BY <1>2, FlashAssumption DEF IInv, CpuInv, PacketOk
  <2>2. Len(txFifo) = 0 /\ Len(rxFifo) = 0
    BY <2>1, LengthOfSeq DEF IInv, FifosOk
  <2>3. QED
    BY <1>2, <2>2, LengthOfSeq DEF IInv, FifosOk, CpuInv
<1>3. CASE x.at = "end" /\ mode = "dma"
  <2>1. Left(dma, 1) = 0 /\ Left(dma, 0) \in Nat
    BY <1>3, LeftOver DEF IInv, DmaInv
  <2>2. Len(txFifo) = 0 /\ Len(rxFifo) = 0 /\ Left(dma, 0) = 0
    BY <1>3, <2>1, LengthOfSeq DEF IInv, FifosOk, DmaInv
  <2>3. QED
    BY <1>3, <2>1, <2>2, LengthOfSeq, LeftOver DEF IInv, FifosOk
<1>4. QED
  BY <1>1, <1>2, <1>3 DEF IInv

(* A packet starts with nothing on the way.                                 *)
LEMMA PacketStarts ==
  ASSUME IInv, BlocksFit, x.at \in {"none", "end"}, d.call # NoCall, ~Refused(d.call),
         NEW phase \in {"cmd", "data"}, NEW base \in Nat,
         PhaseLen(phase) \in Nat, base < PhaseLen(phase),
         x' = Packet(phase, base), StartDma(x'.len), ChipOk(chip'),
         mode' = mode, d' = d, lost' = lost, txFifo' = <<>>, rxFifo' = <<>>
  PROVE  IInv'
<1> DEFINE len == PacketLen(PhaseLen(phase) - base)
<1>1. len \in Nat /\ len >= 1 /\ len <= FifoSize /\ len <= 2^22
  BY FlashAssumption DEF PacketLen, Least, BlocksFit
<1>2. /\ DOMAIN x' = {"phase", "base", "len", "tx", "rx", "at"}
      /\ x'.phase = phase /\ x'.base = base /\ x'.len = len /\ x'.tx = 0 /\ x'.rx = 0
      /\ x'.at = IF mode = "cpu" THEN "tx" ELSE "dma"
  BY DEF Packet
<1> HIDE DEF len
<1>3. /\ ChannelsOk(dma')
      /\ mode = "cpu" => dma' = dma
      /\ mode # "cpu" => Left(dma', 0) = len /\ Left(dma', 1) = len
  BY <1>1, <1>2, BothStart DEF IInv
<1>4. ~dma[0].en /\ ~dma[1].en
  BY EndEmpty
<1>5. FifosOk'
  BY LengthOfSeq, FlashAssumption DEF IInv, FifosOk
<1>6. Quiet'
  BY <1>2 DEF Quiet
<1>7. PacketOk'
  <2>1. Refused(d.call)' <=> Refused(d.call)
    BY DEF Refused
  <2>2. QED
    BY <1>1, <1>2, <2>1, FlashAssumption DEF PacketOk
<1>8. CpuInv'
  <2> SUFFICES ASSUME mode' = "cpu"
               PROVE  /\ x'.at # "dma" /\ ~dma'[0].en /\ ~dma'[1].en
                      /\ Len(txFifo') + Len(rxFifo') <= x'.tx - x'.rx
                      /\ x'.at = "end" => x'.rx = x'.len
    BY DEF CpuInv
  <2>1. mode = "cpu" /\ x'.at = "tx" /\ dma' = dma
    BY <1>2, <1>3
  <2>2. QED
    BY <1>2, <1>4, <2>1, LengthOfSeq
<1>9. DmaInv'
  BY <1>1, <1>2, <1>3, LengthOfSeq, FlashAssumption DEF DmaInv
<1>10. mode' \in {"cpu", "dma"} /\ DriverOk(d')
  BY DEF IInv
<1>11. QED
  BY <1>3, <1>5, <1>6, <1>7, <1>8, <1>9, <1>10 DEF IInv

(* The command, its further packets and the data phase.                     *)
LEMMA StartSteps ==
  ASSUME IInv, BlocksFit, StartCommand \/ NextPacket \/ StartData PROVE IInv'
<1>1. CASE StartCommand
  <2>1. /\ x.at = "none" /\ d.call # NoCall /\ ~Refused(d.call)
        /\ x' = Packet("cmd", 0) /\ StartDma(x'.len)
        /\ UNCHANGED <<mode, d, txFifo, rxFifo, lost>>
    BY <1>1 DEF StartCommand
  <2>2. ChipOk(chip')
    BY <1>1 DEF StartCommand, ChipOk, IInv
  <2>3. PhaseLen("cmd") \in Nat /\ 0 < PhaseLen("cmd")
    BY <2>1, PhaseLengths DEF IInv
  <2>4. txFifo = <<>> /\ rxFifo = <<>>
    BY <2>1, EndEmpty
  <2>5. QED
    BY <2>1, <2>2, <2>3, <2>4, PacketStarts
<1>2. CASE NextPacket
  <2>1. /\ x.at = "end" /\ x.base + x.len < PhaseLen(x.phase)
        /\ x' = Packet(x.phase, x.base + x.len) /\ StartDma(x'.len)
        /\ UNCHANGED <<mode, d, txFifo, rxFifo, lost, chip>>
    BY <1>2 DEF NextPacket
  <2>2. d.call # NoCall /\ ~Refused(d.call) /\ x.base + x.len \in Nat
    BY <2>1, FlashAssumption DEF IInv, PacketOk
  <2>3. x.phase \in {"cmd", "data"}
    BY <2>1 DEF IInv, PacketOk
  <2>4. PhaseLen(x.phase) \in Nat
    BY <2>2, <2>3, PhaseLengths DEF IInv
  <2>5. txFifo = <<>> /\ rxFifo = <<>>
    BY <2>1, EndEmpty
  <2>6. ChipOk(chip')
    BY <2>1 DEF IInv
  <2>7. QED
    BY <2>1, <2>2, <2>3, <2>4, <2>5, <2>6, PacketStarts
<1>3. CASE StartData
  <2>1. /\ x.at = "end" /\ txFifo = <<>> /\ (Job.in > 0 \/ Job.out # <<>>)
        /\ x' = Packet("data", 0) /\ StartDma(x'.len) /\ rxFifo' = <<>>
        /\ UNCHANGED <<mode, d, txFifo, lost, chip>>
    BY <1>3 DEF StartData
  <2>2. d.call # NoCall /\ ~Refused(d.call)
    BY <2>1 DEF IInv, PacketOk
  <2>3. PhaseLen("data") \in Nat /\ 0 < PhaseLen("data")
    BY <2>1, <2>2, PhaseLengths DEF IInv
  <2>4. ChipOk(chip')
    BY <2>1 DEF IInv
  <2>5. QED
    BY <2>1, <2>2, <2>3, <2>4, PacketStarts
<1>4. QED
  BY <1>1, <1>2, <1>3
(* What a packet that goes on needs of its call.                            *)
LEMMA SameCall ==
  ASSUME PacketOk, d'.call = d.call, DOMAIN x' = DOMAIN x, x'.phase = x.phase,
         x'.base = x.base, x'.len = x.len, x.at # "none",
         x'.at \in {"tx", "rx", "dma", "end"}, x'.tx \in 0 .. x.len, x'.rx \in 0 .. x.len
  PROVE  PacketOk'
<1>1. Refused(d.call)' <=> Refused(d.call)
  BY DEF Refused
<1>2. QED
  BY <1>1 DEF PacketOk

(* The CPU writes a word, or turns to reading.                              *)
LEMMA TxPollStep == IInv /\ TxPoll => IInv'
<1> SUFFICES ASSUME IInv, TxPoll PROVE IInv'
  OBVIOUS
<1>1. /\ x.at = "tx" /\ mode' = mode /\ d' = d /\ rxFifo' = rxFifo
      /\ lost' = lost /\ dma' = dma /\ chip' = chip
  BY DEF TxPoll
<1>2. mode = "cpu"
  BY <1>1 DEF IInv, DmaInv
<1>3. /\ Len(txFifo) \in Nat /\ Len(rxFifo) \in Nat
      /\ x.len \in Nat /\ x.tx \in 0 .. x.len /\ x.rx \in 0 .. x.len
  BY LengthOfSeq, FlashAssumption DEF IInv, FifosOk, PacketOk
<1>4. DriverOk(d') /\ ChipOk(chip') /\ ChannelsOk(dma') /\ mode' \in {"cpu", "dma"}
  BY <1>1 DEF IInv
<1>5. DmaInv'
  BY <1>1, <1>2 DEF DmaInv
<1>6. CASE x.tx < x.len /\ Len(txFifo) < FifoSize
  <2> DEFINE w == Word(x.base + x.tx + 1)
  <2>1. txFifo' = Append(txFifo, w) /\ x' = [x EXCEPT !.tx = x.tx + 1]
    BY <1>6 DEF TxPoll
  <2> HIDE DEF w
  <2>2. IsSeq(txFifo') /\ Len(txFifo') = Len(txFifo) + 1
    BY <2>1, PushSeq DEF IInv, FifosOk
  <2>3. /\ DOMAIN x' = DOMAIN x /\ x'.phase = x.phase /\ x'.base = x.base /\ x'.len = x.len
        /\ x'.at = "tx" /\ x'.tx = x.tx + 1 /\ x'.rx = x.rx
    BY <1>1, <2>1 DEF IInv, PacketOk
  <2>4. FifosOk'
    BY <1>1, <1>3, <1>6, <2>2, FlashAssumption DEF IInv, FifosOk
  <2>5. Quiet'
    BY <2>3 DEF Quiet
  <2>6. PacketOk'
    BY <1>1, <1>3, <1>6, <2>3, SameCall DEF IInv
  <2>7. CpuInv'
    BY <1>1, <1>2, <1>3, <2>2, <2>3 DEF IInv, CpuInv
  <2>8. QED
    BY <1>4, <1>5, <2>4, <2>5, <2>6, <2>7 DEF IInv
<1>7. CASE ~(x.tx < x.len /\ Len(txFifo) < FifoSize)
  <2>1. txFifo' = txFifo /\ x' = [x EXCEPT !.at = "rx"]
    BY <1>7 DEF TxPoll
  <2>2. /\ DOMAIN x' = DOMAIN x /\ x'.phase = x.phase /\ x'.base = x.base /\ x'.len = x.len
        /\ x'.at = "rx" /\ x'.tx = x.tx /\ x'.rx = x.rx
    BY <2>1 DEF IInv, PacketOk
  <2>3. FifosOk'
    BY <1>1, <2>1 DEF IInv, FifosOk
  <2>4. Quiet'
    BY <2>2 DEF Quiet
  <2>5. PacketOk'
    BY <1>1, <1>3, <2>2, SameCall DEF IInv
  <2>6. CpuInv'
    BY <1>1, <1>2, <2>1, <2>2 DEF IInv, CpuInv
  <2>7. QED
    BY <1>4, <1>5, <2>3, <2>4, <2>5, <2>6 DEF IInv
<1>8. QED
  BY <1>6, <1>7

(* The CPU reads a word.                                                    *)
LEMMA RxPollStep == IInv /\ RxPoll => IInv'
<1> SUFFICES ASSUME IInv, RxPoll PROVE IInv'
  OBVIOUS
<1>1. /\ x.at = "rx" /\ rxFifo # <<>> /\ rxFifo' = Tail(rxFifo) /\ d' = Receive(Head(rxFifo))
      /\ mode' = mode /\ txFifo' = txFifo /\ lost' = lost /\ dma' = dma /\ chip' = chip
  BY DEF RxPoll
<1>2. mode = "cpu"
  BY <1>1 DEF IInv, DmaInv
<1>3. /\ Len(txFifo) \in Nat /\ Len(rxFifo) \in Nat
      /\ x.len \in Nat /\ x.tx \in 0 .. x.len /\ x.rx \in 0 .. x.len
      /\ Len(txFifo) + Len(rxFifo) <= x.tx - x.rx
  BY <1>2, LengthOfSeq, FlashAssumption DEF IInv, FifosOk, PacketOk, CpuInv
<1>4. IsSeq(rxFifo') /\ Len(rxFifo') = Len(rxFifo) - 1 /\ Len(rxFifo) >= 1
  BY <1>1, PopSeq DEF IInv, FifosOk
<1>5. /\ DOMAIN x' = DOMAIN x /\ x'.phase = x.phase /\ x'.base = x.base /\ x'.len = x.len
      /\ x'.tx = x.tx /\ x'.rx = x.rx + 1 /\ x'.at \in {"tx", "rx", "end"}
      /\ x'.at = "end" => x'.rx = x'.len
  BY <1>1 DEF RxPoll, IInv, PacketOk
<1>6. DriverOk(d') /\ d'.call = d.call
  BY <1>1, ReceiveOk DEF IInv
<1>7. ChipOk(chip') /\ ChannelsOk(dma') /\ mode' \in {"cpu", "dma"}
  BY <1>1 DEF IInv
<1>8. FifosOk'
  BY <1>1, <1>3, <1>4, FlashAssumption DEF IInv, FifosOk
<1>9. Quiet'
  BY <1>5 DEF Quiet
<1>10. PacketOk'
  BY <1>1, <1>3, <1>4, <1>5, <1>6, SameCall DEF IInv
<1>11. CpuInv'
  BY <1>1, <1>2, <1>3, <1>4, <1>5 DEF IInv, CpuInv
<1>12. DmaInv'
  BY <1>1, <1>2 DEF DmaInv
<1>13. QED
  BY <1>6, <1>7, <1>8, <1>9, <1>10, <1>11, <1>12 DEF IInv

(* A channel that runs belongs to a packet in DMA mode.                     *)
LEMMA RunningChannel ==
  ASSUME IInv, NEW ch \in {0, 1}, dma[ch].en
  PROVE  /\ mode = "dma" /\ x.at # "none" /\ x.rx = 0
         /\ x.len \in Nat /\ x.tx = x.len - Left(dma, 0) /\ x.tx \in 0 .. x.len
         /\ Len(txFifo) \in Nat /\ Len(rxFifo) \in Nat
         /\ Left(dma, 0) \in Nat /\ Left(dma, 1) \in Nat /\ Left(dma, ch) >= 1
<1>1. mode = "dma"
  BY DEF IInv, CpuInv
<1>2. x.at # "none"
  BY DEF IInv, Quiet
<1>3. Left(dma, 0) \in Nat /\ Left(dma, 1) \in Nat /\ Left(dma, ch) >= 1
  BY LeftOver DEF IInv
<1>4. Len(txFifo) \in Nat /\ Len(rxFifo) \in Nat
  BY LengthOfSeq DEF IInv, FifosOk
<1>5. x.len \in Nat /\ x.tx \in 0 .. x.len
  BY FlashAssumption DEF IInv, PacketOk
<1>6. QED
  BY <1>1, <1>2, <1>3, <1>4, <1>5 DEF IInv, DmaInv

(* The transmit channel moves a word.                                       *)
LEMMA DmaTxStep == IInv /\ DmaTx => IInv'
<1> SUFFICES ASSUME IInv, DmaTx PROVE IInv'
  OBVIOUS
<1> DEFINE w == Word(x.base + x.tx + 1)
<1>1. /\ dma[0].en /\ Len(txFifo) < FifoSize
      /\ txFifo' = Append(txFifo, w) /\ x' = [x EXCEPT !.tx = x.tx + 1] /\ dma' = Move(dma, 0)
      /\ mode' = mode /\ d' = d /\ rxFifo' = rxFifo /\ lost' = lost /\ chip' = chip
  BY DEF DmaTx
<1> HIDE DEF w
<1>2. /\ mode = "dma" /\ x.at # "none" /\ x.rx = 0
      /\ x.len \in Nat /\ x.tx = x.len - Left(dma, 0) /\ x.tx \in 0 .. x.len
      /\ Len(txFifo) \in Nat /\ Len(rxFifo) \in Nat
      /\ Left(dma, 0) \in Nat /\ Left(dma, 1) \in Nat /\ Left(dma, 0) >= 1
  BY <1>1, RunningChannel
<1>3. /\ ChannelsOk(dma') /\ Left(dma', 0) = Left(dma, 0) - 1
      /\ dma'[1] = dma[1] /\ Left(dma', 1) = Left(dma, 1)
  <2>1. /\ ChannelsOk(dma') /\ Left(dma', 0) = Left(dma, 0) - 1 /\ dma'[1] = dma[1]
    BY <1>1, ChannelMoves DEF IInv
  <2>2. QED
    BY <2>1 DEF Left
<1>4. IsSeq(txFifo') /\ Len(txFifo') = Len(txFifo) + 1
  BY <1>1, PushSeq DEF IInv, FifosOk
<1>5. /\ DOMAIN x' = DOMAIN x /\ x'.phase = x.phase /\ x'.base = x.base /\ x'.len = x.len
      /\ x'.at = x.at /\ x'.tx = x.tx + 1 /\ x'.rx = x.rx
  BY <1>1 DEF IInv, PacketOk
<1>6. DriverOk(d') /\ ChipOk(chip') /\ mode' \in {"cpu", "dma"}
  BY <1>1 DEF IInv
<1>7. FifosOk'
  BY <1>1, <1>2, <1>4, FlashAssumption DEF IInv, FifosOk
<1>8. Quiet'
  BY <1>2, <1>5 DEF Quiet
<1>9. x.at \in {"tx", "rx", "dma", "end"}
  BY <1>2 DEF IInv, PacketOk
<1>10. PacketOk'
  BY <1>1, <1>2, <1>5, <1>9, SameCall, SMTT(60) DEF IInv
<1>11. CpuInv'
  BY <1>1, <1>2 DEF CpuInv
<1>12. DmaInv'
  BY <1>1, <1>2, <1>3, <1>4, <1>5, SMTT(60) DEF IInv, DmaInv
<1>13. QED
  BY <1>3, <1>6, <1>7, <1>8, <1>10, <1>11, <1>12 DEF IInv

(* The receive channel moves a word.                                        *)
LEMMA DmaRxStep == IInv /\ DmaRx => IInv'
<1> SUFFICES ASSUME IInv, DmaRx PROVE IInv'
  OBVIOUS
<1>1. /\ dma[1].en /\ rxFifo # <<>>
      /\ rxFifo' = Tail(rxFifo) /\ d' = Receive(Head(rxFifo)) /\ dma' = Move(dma, 1)
      /\ mode' = mode /\ x' = x /\ txFifo' = txFifo /\ lost' = lost /\ chip' = chip
  BY DEF DmaRx
<1>2. /\ mode = "dma" /\ x.at # "none" /\ x.rx = 0
      /\ x.len \in Nat /\ x.tx = x.len - Left(dma, 0) /\ x.tx \in 0 .. x.len
      /\ Len(txFifo) \in Nat /\ Len(rxFifo) \in Nat
      /\ Left(dma, 0) \in Nat /\ Left(dma, 1) \in Nat /\ Left(dma, 1) >= 1
  BY <1>1, RunningChannel
<1>3. /\ ChannelsOk(dma') /\ Left(dma', 1) = Left(dma, 1) - 1 /\ Left(dma', 0) = Left(dma, 0)
  <2>1. /\ ChannelsOk(dma') /\ Left(dma', 1) = Left(dma, 1) - 1 /\ dma'[0] = dma[0]
    BY <1>1, ChannelMoves DEF IInv
  <2>2. QED
    BY <2>1 DEF Left
<1>4. IsSeq(rxFifo') /\ Len(rxFifo') = Len(rxFifo) - 1 /\ Len(rxFifo) >= 1
  BY <1>1, PopSeq DEF IInv, FifosOk
<1>5. DriverOk(d') /\ d'.call = d.call
  BY <1>1, ReceiveOk DEF IInv
<1>6. ChipOk(chip') /\ mode' \in {"cpu", "dma"}
  BY <1>1 DEF IInv
<1>7. FifosOk'
  BY <1>1, <1>2, <1>4, FlashAssumption DEF IInv, FifosOk
<1>8. Quiet'
  BY <1>1, <1>2 DEF Quiet
<1>9. x.at \in {"tx", "rx", "dma", "end"} /\ x.at # "end"
  BY <1>1, <1>2 DEF IInv, PacketOk, DmaInv
<1>10. PacketOk'
  BY <1>1, <1>2, <1>5, <1>9, SameCall DEF IInv
<1>11. CpuInv'
  BY <1>1, <1>2 DEF CpuInv
<1>12. DmaInv'
  BY <1>1, <1>2, <1>3, <1>4, <1>9, FlashAssumption DEF IInv, DmaInv
<1>13. QED
  BY <1>3, <1>5, <1>6, <1>7, <1>8, <1>10, <1>11, <1>12 DEF IInv
(* The program sees that both channels are done.                            *)
LEMMA DmaPollStep == IInv /\ DmaPoll => IInv'
<1> SUFFICES ASSUME IInv, DmaPoll PROVE IInv'
  OBVIOUS
<1>1. /\ x.at = "dma" /\ dma[1].done /\ x' = [x EXCEPT !.at = "end"]
      /\ mode' = mode /\ d' = d /\ txFifo' = txFifo /\ rxFifo' = rxFifo
      /\ lost' = lost /\ dma' = dma /\ chip' = chip
  BY DEF DmaPoll
<1>2. /\ DOMAIN x' = DOMAIN x /\ x'.phase = x.phase /\ x'.base = x.base /\ x'.len = x.len
      /\ x'.at = "end" /\ x'.tx = x.tx /\ x'.rx = x.rx
  BY <1>1 DEF IInv, PacketOk
<1>3. ~dma[1].en
  BY <1>1, LeftOver DEF IInv
<1>4. mode = "dma"
  BY <1>1 DEF IInv, CpuInv
<1>5. DriverOk(d') /\ ChipOk(chip') /\ ChannelsOk(dma') /\ mode' \in {"cpu", "dma"} /\ FifosOk'
  BY <1>1 DEF IInv, FifosOk
<1>6. PacketOk'
  <2>1. x.tx \in 0 .. x.len /\ x.rx \in 0 .. x.len
    BY DEF IInv, PacketOk
  <2>2. QED
    BY <1>1, <1>2, <2>1, SameCall DEF IInv
<1>7. Quiet' /\ CpuInv'
  BY <1>1, <1>2, <1>4 DEF Quiet, CpuInv
<1>8. DmaInv'
  BY <1>1, <1>2, <1>3, <1>4 DEF IInv, DmaInv
<1>9. QED
  BY <1>5, <1>6, <1>7, <1>8 DEF IInv

(* There is room for the answer (NoOverrun).                                *)
LEMMA RoomForAnswer ==
  ASSUME IInv, txFifo # <<>> PROVE Len(rxFifo) < FifoSize
<1>1. Len(txFifo) >= 1 /\ Len(txFifo) \in Nat /\ Len(rxFifo) \in Nat /\ FifoSize \in Nat
  <2>1. Len(txFifo) \in Nat /\ Len(rxFifo) \in Nat /\ Len(txFifo) # 0
    BY LengthOfSeq DEF IInv, FifosOk
  <2> QED BY <2>1, FlashAssumption
<1>2. x.len \in 0 .. FifoSize /\ x.tx \in 0 .. x.len /\ x.rx \in 0 .. x.len
  BY DEF IInv, PacketOk
<1>3. Left(dma, 0) \in Nat /\ Left(dma, 1) \in Nat
  BY LeftOver DEF IInv
<1>4. CASE mode = "cpu"
  BY <1>1, <1>2, <1>4 DEF IInv, CpuInv
<1>5. CASE mode = "dma"
  BY <1>1, <1>3, <1>5 DEF IInv, DmaInv
<1> QED BY <1>4, <1>5 DEF IInv

(* The bus carries a word out and one in, for which there is room.          *)
LEMMA WireStep == IInv /\ Wire => IInv'
<1> SUFFICES ASSUME IInv, Wire PROVE IInv'
  OBVIOUS
<1>1. /\ txFifo # <<>> /\ txFifo' = Tail(txFifo)
      /\ chip' = [chip EXCEPT !.words = Append(chip.words, Head(txFifo))]
      /\ mode' = mode /\ d' = d /\ x' = x /\ dma' = dma
  BY DEF Wire
<1>2. IsSeq(txFifo') /\ Len(txFifo') = Len(txFifo) - 1 /\ Len(txFifo) >= 1
  BY <1>1, PopSeq DEF IInv, FifosOk
<1>3. Len(txFifo) \in Nat /\ Len(rxFifo) \in Nat /\ FifoSize \in Nat
  BY LengthOfSeq, FlashAssumption DEF IInv, FifosOk
<1>5. Left(dma, 0) \in Nat /\ Left(dma, 1) \in Nat
  BY LeftOver DEF IInv
<1>6. Len(rxFifo) < FifoSize
  BY <1>1, RoomForAnswer
<1>7. rxFifo' = Append(rxFifo, Reply) /\ lost' = lost
  BY <1>6 DEF Wire
<1>8. IsSeq(rxFifo') /\ Len(rxFifo') = Len(rxFifo) + 1
  <2> DEFINE w == Reply
  <2>1. rxFifo' = Append(rxFifo, w)
    BY <1>7
  <2> HIDE DEF w
  <2>2. QED
    BY <2>1, PushSeq DEF IInv, FifosOk
<1>9. FifosOk'
  BY <1>2, <1>3, <1>6, <1>7, <1>8 DEF IInv, FifosOk
<1>10. DriverOk(d') /\ ChipOk(chip') /\ ChannelsOk(dma') /\ mode' \in {"cpu", "dma"}
  BY <1>1 DEF IInv, ChipOk
<1>11. x.at # "none"
  BY <1>1 DEF IInv, Quiet
<1>12. Quiet' /\ PacketOk'
  <2>1. Refused(d.call)' <=> Refused(d.call)
    BY <1>1 DEF Refused
  <2>2. QED
    BY <1>1, <1>11, <2>1 DEF IInv, Quiet, PacketOk
<1>13. CpuInv'
  BY <1>1, <1>2, <1>3, <1>8 DEF IInv, CpuInv
<1>14. DmaInv'
  BY <1>1, <1>2, <1>3, <1>5, <1>8 DEF IInv, DmaInv
<1>15. QED
  BY <1>9, <1>10, <1>12, <1>13, <1>14 DEF IInv

(* Steps that leave the packet and the FIFOs alone: the chip finishes, time *)
(* passes, a call starts or is refused.                                     *)
LEMMA NothingMoves ==
  ASSUME IInv, mode' = mode, x' = x, txFifo' = txFifo, rxFifo' = rxFifo, lost' = lost,
         dma' = dma, ChipOk(chip'), chip'.sel = chip.sel, chip'.words = chip.words,
         DriverOk(d'), x.at # "none" => d'.call = d.call
  PROVE  IInv'
<1>1. FifosOk' /\ Quiet' /\ CpuInv' /\ DmaInv'
  BY DEF IInv, FifosOk, Quiet, CpuInv, DmaInv
<1>2. PacketOk'
  <2>1. CASE x.at = "none"
    BY <2>1 DEF IInv, PacketOk
  <2>2. CASE x.at # "none"
    <3>1. Refused(d.call)' <=> Refused(d.call)
      BY <2>2 DEF Refused
    <3>2. QED
      BY <2>2, <3>1 DEF IInv, PacketOk
  <2>3. QED
    BY <2>1, <2>2
<1>3. QED
  BY <1>1, <1>2 DEF IInv

(* The chip finishes what it is doing.                                      *)
LEMMA ChipDoneStep == IInv /\ ChipDone => IInv'
<1> SUFFICES ASSUME IInv, ChipDone PROVE IInv'
  OBVIOUS
<1>1. /\ mode' = mode /\ d' = d /\ x' = x /\ txFifo' = txFifo /\ rxFifo' = rxFifo
      /\ lost' = lost /\ dma' = dma
  BY DEF ChipDone
<1>2. ChipOk(chip') /\ chip'.sel = chip.sel /\ chip'.words = chip.words
  BY DEF ChipDone, IInv, ChipOk
<1>3. DriverOk(d')
  BY <1>1 DEF IInv
<1>4. QED
  BY <1>1, <1>2, <1>3, NothingMoves

(* The time the driver waits for the chip passes.                           *)
LEMMA TimePassesStep == IInv /\ TimePasses => IInv'
<1> SUFFICES ASSUME IInv, TimePasses PROVE IInv'
  OBVIOUS
<1>1. /\ mode' = mode /\ x' = x /\ txFifo' = txFifo /\ rxFifo' = rxFifo
      /\ lost' = lost /\ dma' = dma /\ chip' = chip /\ d' = [d EXCEPT !.elapsed = TRUE]
  BY DEF TimePasses
<1>2. DriverOk(d') /\ d'.call = d.call
  BY <1>1 DEF IInv, DriverOk
<1>3. ChipOk(chip')
  BY <1>1 DEF IInv
<1>4. QED
  BY <1>1, <1>2, <1>3, NothingMoves

(* A call starts.                                                           *)
LEMMA StartStep ==
  ASSUME IInv, NEW c \in AllCalls, c.op # "none", Start(c) PROVE IInv'
<1>1. /\ mode' = mode /\ x' = x /\ txFifo' = txFifo /\ rxFifo' = rxFifo
      /\ lost' = lost /\ dma' = dma /\ chip' = chip /\ d.call = NoCall
      /\ d' = [IdleDriver(d.probed) EXCEPT !.call = c, !.script = Script(c, chip.maker), !.pc = 1]
  BY DEF Start
<1>2. DriverOk(d')
  BY <1>1, StartOk
<1>3. x.at = "none"
  BY <1>1 DEF IInv, PacketOk
<1>4. ChipOk(chip')
  BY <1>1 DEF IInv
<1>5. QED
  BY <1>1, <1>2, <1>3, <1>4, NothingMoves

(* A call is refused before anything is sent.                               *)
LEMMA RefuseStep == IInv /\ Refuse => IInv'
<1> SUFFICES ASSUME IInv, Refuse PROVE IInv'
  OBVIOUS
<1>1. /\ mode' = mode /\ x' = x /\ txFifo' = txFifo /\ rxFifo' = rxFifo
      /\ lost' = lost /\ dma' = dma /\ chip' = chip /\ Refused(d.call)
      /\ d' = IdleDriver(d.probed)
  BY DEF Refuse
<1>2. x.at = "none"
  BY <1>1 DEF IInv, PacketOk
<1>3. DriverOk(d') /\ ChipOk(chip')
  BY <1>1, IdleOk DEF IInv
<1>4. QED
  BY <1>1, <1>2, <1>3, NothingMoves

(* The end of an exchange leaves nothing behind.                            *)
LEMMA EndOfExchangeStep == IInv /\ EndOfExchange => IInv'
<1> SUFFICES ASSUME IInv, NEW isSlow \in BOOLEAN, EndExchange(isSlow) PROVE IInv'
  BY DEF EndOfExchange
<1>1. /\ x.at = "end" /\ rxFifo' = <<>> /\ x' = NoPacket /\ d' = AfterExchange
      /\ mode' = mode /\ txFifo' = txFifo /\ lost' = lost /\ dma' = dma
      /\ chip' = [Command EXCEPT !.sel = FALSE, !.words = <<>>, !.slow = @ \/ isSlow]
  BY DEF EndExchange
<1>2. txFifo = <<>> /\ ~dma[0].en /\ ~dma[1].en
  BY <1>1, EndEmpty
<1>3. ChipOk(Command)
  BY DEF Command, IInv, ChipOk
<1>4. ChipOk(chip') /\ chip'.sel = FALSE /\ chip'.words = <<>>
  <2> HIDE DEF Command
  <2>1. QED
    BY <1>1, <1>3 DEF ChipOk
<1>5. DriverOk(d')
  <2>1. d.call # NoCall
    BY <1>1 DEF IInv, PacketOk
  <2>2. QED
    BY <1>1, <2>1, AfterOk DEF IInv
<1>6. FifosOk'
  BY <1>1, <1>2, LengthOfSeq, FlashAssumption DEF IInv, FifosOk
<1>7. Quiet'
  BY <1>1, <1>2, <1>4 DEF Quiet
<1>8. PacketOk'
  BY <1>1, FlashAssumption DEF PacketOk, NoPacket
<1>9. Left(dma, 0) = 0 /\ Left(dma, 1) = 0
  BY <1>2 DEF Left
<1>10. CpuInv' /\ DmaInv'
  BY <1>1, <1>2, <1>9, LengthOfSeq, FlashAssumption DEF CpuInv, DmaInv, NoPacket
<1>11. QED
  BY <1>1, <1>4, <1>5, <1>6, <1>7, <1>8, <1>10 DEF IInv

-----------------------------------------------------------------------------
(* The theorems.                                                            *)

(* The invariant holds in every reachable state.                            *)
THEOREM Invariance ==
  ASSUME CallsWithin, BlocksFit PROVE Spec => []IInv
<1>1. Init => IInv
  BY InitStep
<1>2. IInv /\ [Next]_vars => IInv'
  <2> SUFFICES ASSUME IInv, [Next]_vars PROVE IInv'
    OBVIOUS
  <2>1. CASE StartProbe
    <3>1. Probe \in AllCalls /\ Probe.op # "none"
      BY FlashAssumption DEF Probe, NoCall, AllCalls
    <3>2. QED
      BY <2>1, <3>1, StartStep DEF StartProbe
  <2>2. CASE StartCall
    <3>1. PICK c \in Calls : Start(c)
      BY <2>2 DEF StartCall
    <3>2. c \in AllCalls /\ c.op # "none"
      BY DEF CallsWithin, AllCalls
    <3>3. QED
      BY <3>1, <3>2, StartStep
  <2>3. CASE StartCommand \/ NextPacket \/ StartData
    BY <2>3, StartSteps
  <2>4. CASE TxPoll
    BY <2>4, TxPollStep
  <2>5. CASE RxPoll
    BY <2>5, RxPollStep
  <2>6. CASE DmaPoll
    BY <2>6, DmaPollStep
  <2>7. CASE EndOfExchange
    BY <2>7, EndOfExchangeStep
  <2>8. CASE Refuse
    BY <2>8, RefuseStep
  <2>9. CASE DmaTx
    BY <2>9, DmaTxStep
  <2>10. CASE DmaRx
    BY <2>10, DmaRxStep
  <2>11. CASE Wire
    BY <2>11, WireStep
  <2>12. CASE ChipDone
    BY <2>12, ChipDoneStep
  <2>13. CASE TimePasses
    BY <2>13, TimePassesStep
  <2>14. CASE UNCHANGED vars
    <3>1. /\ mode' = mode /\ x' = x /\ txFifo' = txFifo /\ rxFifo' = rxFifo
          /\ lost' = lost /\ dma' = dma /\ chip' = chip /\ d' = d
      BY <2>14 DEF vars
    <3>2. ChipOk(chip') /\ DriverOk(d')
      BY <3>1 DEF IInv
    <3>3. QED
      BY <3>1, <3>2, NothingMoves
  <2>15. QED
    BY <2>1, <2>2, <2>3, <2>4, <2>5, <2>6, <2>7, <2>8, <2>9, <2>10, <2>11, <2>12, <2>13, <2>14
       DEF Next, Program
<1>3. QED
  BY <1>1, <1>2, PTL DEF Spec

(* No received word is lost, by CPU or by DMA, for every depth of the FIFOs *)
(* and every call.                                                          *)
THEOREM NoWordLost ==
  ASSUME CallsWithin, BlocksFit PROVE Spec => []NoOverrun
<1>1. IInv => NoOverrun
  BY DEF IInv, FifosOk, NoOverrun
<1>2. QED
  BY <1>1, Invariance, PTL

(* The driver stays inside its call and script, and between exchanges       *)
(* nothing is selected, queued or moving.                                   *)
THEOREM TypeCorrect ==
  ASSUME CallsWithin, BlocksFit PROVE Spec => []TypeOK
<1>1. IInv => TypeOK
  <2> SUFFICES ASSUME IInv PROVE TypeOK
    OBVIOUS
  <2>1. d.pos \in 0 .. Cap /\ d.pc \in 0 .. Len(d.script)
    BY FlashAssumption DEF IInv, DriverOk, AllCalls
  <2>2. Len(txFifo) <= FifoSize /\ Len(rxFifo) <= FifoSize
    BY DEF IInv, FifosOk
  <2>3. x.tx <= x.len /\ x.rx <= x.len
    BY FlashAssumption DEF IInv, PacketOk
  <2>4. QED
    BY <2>1, <2>2, <2>3 DEF IInv, Quiet, TypeOK
<1>2. QED
  BY <1>1, Invariance, PTL

-----------------------------------------------------------------------------
(* What the calls promise.                                                  *)

CallsInside ==
  \A c \in Calls : /\ c.op # "erase" => c.len >= 1 /\ c.addr + c.len <= Cap
                   /\ c.op = "erase" => c.addr + c.len < AddrMod
(* A page lies in a sector.                                                 *)
PagesFit == SectorSize % PageSize = 0

CallsFit == CallsWithin /\ CallsInside /\ BlocksFit /\ PagesFit

Step == d.script[d.pc]
Cells == 0 .. Cap - 1

(* The words of the exchange in their order, the command's and the data's.  *)
Wired(i) ==
  IF i <= Len(Job.cmd) THEN Job.cmd[i] ELSE IF Job.out # <<>> THEN Job.out[i - Len(Job.cmd)] ELSE 0
Before == IF x.phase = "data" THEN Len(Job.cmd) ELSE 0

(* The chip has the first of them, the transmit FIFO the next.              *)
WireInv ==
  x.at # "none" =>
    /\ chip.sel /\ IsSeq(chip.words)
    /\ x.base + x.len <= PhaseLen(x.phase)
    /\ x.phase = "data" => Job.in > 0 \/ Job.out # <<>>
    /\ Len(chip.words) + Len(txFifo) = Before + x.base + x.tx
    /\ \A i \in 1 .. Len(chip.words) : chip.words[i] = Wired(i)
    /\ \A i \in 1 .. Len(txFifo) : txFifo[i] = Wired(Len(chip.words) + i)

(* What answer j says.                                                      *)
Told(j, v) ==
  /\ Step = "status" => v % 2 = 1 \/ ~Busy
  /\ Step = "rdst" => (v = 0 => chip.guard = {})
  /\ late = {} /\ Step = "read" => v = chip.cells[d.call.addr + j - 1]

(* The answers to the data phase are in the buffer and in the receive FIFO. *)
Reading == x.at # "none" /\ x.phase = "data" /\ Job.in > 0
AnswerInv ==
  /\ IsSeq(d.buf)
  /\ ~Reading => d.buf = <<>>
  /\ Reading =>
       /\ Len(d.buf) + Len(rxFifo) = Len(chip.words) - Len(Job.cmd)
       /\ \A j \in 1 .. Len(d.buf) : Told(j, d.buf[j])
       /\ \A j \in 1 .. Len(rxFifo) : Told(Len(d.buf) + j, rxFifo[j])

(* The driver follows the script of the call, a sector or page at a time.   *)
CallInv ==
  d.call # NoCall =>
    /\ d.call = Probe \/ d.call \in Calls
    /\ d.script = Script(d.call, chip.maker)
    /\ Refused(d.call) => d.pc = 1
    /\ d.call.op = "erase" => d.pos % SectorSize = 0 /\ (Refused(d.call) \/ d.pos < d.call.len)
    /\ d.call.op = "write" => d.pos % PageSize = 0 /\ d.pos < d.call.len
    /\ d.call.op \in {"read", "probe"} => d.pos = 0
    /\ d.call.op = "probe" /\ d.pc > 6 => (d.st = 0 => chip.guard = {})

(* What the chip's operation leaves in cell i, and what it may leave there. *)
Leaves(e, i) ==
  CASE e.doing.op = "erase" -> IF Sector(i) = Sector(e.doing.at) THEN 1 ELSE e.cells[i]
    [] e.doing.op = "program" ->
         IF /\ i \div PageSize = e.doing.at \div PageSize
            /\ ((i - e.doing.at) % PageSize) + 1 <= Len(e.doing.ws)
         THEN e.cells[i] * e.doing.ws[((i - e.doing.at) % PageSize) + 1] ELSE e.cells[i]
    [] OTHER -> e.cells[i]
Asked(i, v) == i \in Abstract!Reach(d.call) /\ Abstract!MayLeave(d.call, i, v)
ChipInv ==
  /\ chip.cells \in [Cells -> {0, 1}]
  /\ chip.doing.op \in {"none", "erase", "program", "wrst"}
  /\ chip.doing.op = "wrst" => (chip.doing.ws[1] = 0 => chip.guard = {})
  /\ chip.slow => chip.doing.op \in {"erase", "program"}
  /\ \A i \in Cells :
       /\ Leaves(chip, i) \in {0, 1}
       /\ Leaves(chip, i) # chip.cells[i] => i \in late \/ Asked(i, Leaves(chip, i))

(* As long as no call gave up: the chip is busy only with what the script   *)
(* has asked for and waits for; a timeout is one of a call that may change  *)
(* cells; what is behind the driver is done.                                *)
Operation ==
  IF d.call.op = "erase" THEN [op |-> "erase", at |-> d.call.addr + d.pos, ws |-> <<>>]
  ELSE [op |-> "program", at |-> d.call.addr + d.pos,
        ws |-> [i \in 1 .. Chunk(d.call, d.pos) |-> Data(d.call, d.pos + i - 1)]]
Modifies == d.call.op \in {"erase", "write"}
BusyInv ==
  Busy => /\ d.call # NoCall /\ Step = "status"
          /\ \/ d.call.op = "probe" /\ chip.doing.op = "wrst"
             \/ /\ Modifies /\ chip.doing = Operation
                /\ Sector(d.call.addr + d.pos) \notin chip.guard
ElapsedInv == d.elapsed => Modifies /\ Abstract!Reach(d.call) # {}
DoneCell(i) ==
  IF d.call.op = "erase" THEN chip.cells[i] = 1
  ELSE Abstract!Aligned(d.call) => chip.cells[i] <= Data(d.call, i - d.call.addr)
DoneTo(q) ==
  \A i \in Abstract!Reach(d.call) \cap Abstract!Extent(d.call) : i < d.call.addr + q => DoneCell(i)
DoneInv ==
  Modifies /\ ~Refused(d.call) =>
    /\ DoneTo(d.pos)
    /\ Step \in {"erase", "program"} => chip.wel
    /\ Step = "status" /\ ~Busy => DoneTo(d.pos + Chunk(d.call, d.pos))
CleanInv == late = {} => BusyInv /\ ElapsedInv /\ DoneInv

FlashInv == IInv /\ WireInv /\ AnswerInv /\ CallInv /\ ChipInv /\ CleanInv

-----------------------------------------------------------------------------
(* Facts about the scripts.                                                 *)

(* The script of a probe, with the second status byte and without.          *)
LEMMA ProbeSteps ==
  ASSUME NEW maker, NEW s, s = ProbeScript(maker)
  PROVE  /\ s[1] = "wren" /\ s[2] = "rsten" /\ s[3] = "rst" /\ s[4] = "status" /\ s[5] = "id"
         /\ s[6] = "rdst"
         /\ IF maker = "winbond"
            THEN Len(s) = 10 /\ s[7] = "rdst1" /\ s[8] = "wren" /\ s[9] = "wrst" /\ s[10] = "status"
            ELSE Len(s) = 9 /\ s[7] = "wren" /\ s[8] = "wrst" /\ s[9] = "status"
<1> DEFINE a == <<"wren", "rsten", "rst", "status", "id", "rdst">>
           b == IF maker = "winbond" THEN <<"rdst1">> ELSE <<>>
           e == <<"wren", "wrst", "status">>
           ab == a \o b
<1>1. /\ a \in Seq(Steps) /\ Len(a) = 6 /\ a[1] = "wren" /\ a[2] = "rsten" /\ a[3] = "rst"
      /\ a[4] = "status" /\ a[5] = "id" /\ a[6] = "rdst"
  BY DEF Steps
<1>2. e \in Seq(Steps) /\ Len(e) = 3 /\ e[1] = "wren" /\ e[2] = "wrst" /\ e[3] = "status"
  BY DEF Steps
<1>3. b \in Seq(Steps) /\ IF maker = "winbond" THEN Len(b) = 1 /\ b[1] = "rdst1" ELSE Len(b) = 0
  <2>1. <<"rdst1">> \in Seq(Steps) /\ Len(<<"rdst1">>) = 1 /\ <<"rdst1">>[1] = "rdst1"
    BY DEF Steps
  <2>2. <<>> \in Seq(Steps) /\ Len(<<>>) = 0
    OBVIOUS
  <2> QED BY <2>1, <2>2
<1>4. s = ab \o e
  BY DEF ProbeScript
<1> HIDE DEF a, b, e
<1>5. /\ ab \in Seq(Steps) /\ Len(ab) = 6 + Len(b) /\ Len(b) \in {0, 1}
      /\ \A i \in 1 .. 6 : ab[i] = a[i]
      /\ Len(b) = 1 => ab[7] = b[1]
  <2>1. /\ ab \in Seq(Steps) /\ Len(ab) = Len(a) + Len(b)
        /\ \A i \in 1 .. Len(a) + Len(b) : ab[i] = IF i <= Len(a) THEN a[i] ELSE b[i - Len(a)]
    BY <1>1, <1>3, ConcatProperties
  <2> HIDE DEF ab
  <2> QED BY <1>1, <1>3, <2>1
<1> HIDE DEF ab
<1>6. /\ Len(s) = 9 + Len(b)
      /\ \A i \in 1 .. 6 : s[i] = a[i]
      /\ Len(b) = 1 => s[7] = b[1]
      /\ s[7 + Len(b)] = e[1] /\ s[8 + Len(b)] = e[2] /\ s[9 + Len(b)] = e[3]
  <2>1. /\ Len(s) = Len(ab) + Len(e)
        /\ \A i \in 1 .. Len(ab) + Len(e) : s[i] = IF i <= Len(ab) THEN ab[i] ELSE e[i - Len(ab)]
    <3>1. ab \in Seq(Steps) /\ e \in Seq(Steps)
      BY <1>2, <1>5
    <3> DEFINE t == ab \o e
    <3>2. /\ Len(t) = Len(ab) + Len(e)
          /\ \A i \in 1 .. Len(ab) + Len(e) : t[i] = IF i <= Len(ab) THEN ab[i] ELSE e[i - Len(ab)]
      BY <3>1, ConcatProperties
    <3> HIDE DEF t
    <3>3. s = t
      BY <1>4 DEF t
    <3> QED BY <3>2, <3>3, Zenon
  <2>2. \A i \in 1 .. 3 : s[6 + Len(b) + i] = e[i]
    <3>1. CASE Len(b) = 0
      BY <1>2, <1>5, <2>1, <3>1
    <3>2. CASE Len(b) = 1
      BY <1>2, <1>5, <2>1, <3>2
    <3> QED BY <1>5, <3>1, <3>2
  <2>3. s[7 + Len(b)] = e[1] /\ s[8 + Len(b)] = e[2] /\ s[9 + Len(b)] = e[3]
    BY <1>5, <2>2
  <2> QED BY <1>2, <1>5, <2>1, <2>3
<1>7. CASE maker = "winbond"
  <2>1. Len(b) = 1
    BY <1>3, <1>7
  <2> QED BY <1>1, <1>2, <1>3, <1>6, <1>7, <2>1
<1>8. CASE maker # "winbond"
  <2>1. Len(b) = 0
    BY <1>3, <1>8
  <2> QED BY <1>1, <1>2, <1>6, <1>8, <2>1
<1> QED BY <1>7, <1>8

(* Which step comes at which place.                                         *)
LEMMA StepPlaces ==
  ASSUME DriverOk(d), CallInv, CallsWithin, d.call # NoCall
  PROVE  /\ d.call.op \in {"probe", "erase", "write", "read"}
         /\ d.pc \in 1 .. Len(d.script) /\ Len(d.script) \in Nat
         /\ d.call.op = "erase" =>
              /\ Len(d.script) = 3 /\ d.script[1] = "wren" /\ d.script[2] = "erase"
              /\ d.script[3] = "status"
         /\ d.call.op = "write" =>
              /\ Len(d.script) = 3 /\ d.script[1] = "wren" /\ d.script[2] = "program"
              /\ d.script[3] = "status"
         /\ d.call.op = "read" => Len(d.script) = 1 /\ d.script[1] = "read"
         /\ d.call.op = "probe" =>
              /\ Len(d.script) >= 9 /\ Step \notin {"erase", "program", "read"}
              /\ d.script[Len(d.script)] = "status"
              /\ Step = "wrst" => d.pc > 6 /\ d.pc < Len(d.script) /\ d.script[d.pc + 1] = "status"
              /\ Step = "rdst" => d.pc = 6
              /\ d.pc = 6 => Step = "rdst"
<1>1. d.call \in AllCalls /\ d.pc \in 1 .. Len(d.script) /\ d.script \in Seq(Steps)
  BY DEF DriverOk
<1>2. d.call.op \in {"probe", "erase", "write", "read"}
  BY DEF CallInv, CallsWithin, Probe, NoCall
<1>3. d.script = Script(d.call, chip.maker)
  BY DEF CallInv
<1>4. Len(d.script) \in Nat
  BY <1>1, LenProperties
<1>5. CASE d.call.op = "erase"
  <2>1. d.script = <<"wren", "erase", "status">>
    BY <1>3, <1>5 DEF Script, EraseScript
  <2> QED BY <1>1, <1>4, <1>5, <2>1
<1>6. CASE d.call.op = "write"
  <2>1. d.script = <<"wren", "program", "status">>
    BY <1>3, <1>6 DEF Script, WriteScript
  <2> QED BY <1>1, <1>4, <1>6, <2>1
<1>7. CASE d.call.op = "read"
  <2>1. d.script = <<"read">>
    BY <1>3, <1>7 DEF Script
  <2> QED BY <1>1, <1>4, <1>7, <2>1
<1>8. CASE d.call.op = "probe"
  <2>1. d.script = ProbeScript(chip.maker)
    BY <1>3, <1>8 DEF Script
  <2>2. CASE chip.maker = "winbond"
    <3>1. /\ d.script[1] = "wren" /\ d.script[2] = "rsten" /\ d.script[3] = "rst"
          /\ d.script[4] = "status" /\ d.script[5] = "id" /\ d.script[6] = "rdst"
          /\ Len(d.script) = 10 /\ d.script[7] = "rdst1" /\ d.script[8] = "wren"
          /\ d.script[9] = "wrst" /\ d.script[10] = "status"
      BY <2>1, <2>2, ProbeSteps
    <3>2. d.pc \in {1, 2, 3, 4, 5, 6, 7, 8, 9, 10}
      BY <1>1, <3>1
    <3> QED BY <1>8, <3>1, <3>2 DEF Step
  <2>3. CASE chip.maker # "winbond"
    <3>1. /\ d.script[1] = "wren" /\ d.script[2] = "rsten" /\ d.script[3] = "rst"
          /\ d.script[4] = "status" /\ d.script[5] = "id" /\ d.script[6] = "rdst"
          /\ Len(d.script) = 9 /\ d.script[7] = "wren" /\ d.script[8] = "wrst"
          /\ d.script[9] = "status"
      BY <2>1, <2>3, ProbeSteps
    <3>2. d.pc \in {1, 2, 3, 4, 5, 6, 7, 8, 9}
      BY <1>1, <3>1
    <3> QED BY <1>8, <3>1, <3>2 DEF Step
  <2> QED BY <2>2, <2>3
<1> QED BY <1>1, <1>2, <1>4, <1>5, <1>6, <1>7, <1>8

-----------------------------------------------------------------------------
(* Facts about the exchanges.                                               *)

(* What each step exchanges.                                                *)
LEMMA Jobs ==
  ASSUME DriverOk(d), d.call # NoCall
  PROVE  /\ Step = "status" => Job.cmd = <<5>> /\ Job.in = 1 /\ Job.out = <<>>
         /\ Step = "rdst" => Job.cmd = <<5>> /\ Job.in = 1 /\ Job.out = <<>>
         /\ Step = "read" => /\ Job.cmd = <<11, d.call.addr + d.pos, 0>>
                             /\ Job.in = d.call.len /\ Job.out = <<>>
         /\ Step = "erase" => Job.cmd = <<32, d.call.addr + d.pos>> /\ Job.in = 0 /\ Job.out = <<>>
         /\ Step = "program" =>
              /\ Job.cmd = <<2, d.call.addr + d.pos>> /\ Job.in = 0
              /\ Job.out = [i \in 1 .. Chunk(d.call, d.pos) |-> Data(d.call, d.pos + i - 1)]
         /\ Step = "wren" => Job.cmd = <<6>> /\ Job.in = 0 /\ Job.out = <<>>
         /\ Step = "wrst" => /\ Job.cmd[1] = 1 /\ Job.cmd[2] = d.st /\ Len(Job.cmd) >= 2
                             /\ Job.in = 0 /\ Job.out = <<>>
         /\ Step \notin {"erase", "program", "wrst"} => Job.cmd[1] \notin {1, 2, 32}
         /\ Step # "wren" => Job.cmd[1] # 6
         /\ IsSeq(Job.cmd) /\ Len(Job.cmd) \in Nat /\ Len(Job.cmd) >= 1
         /\ Job.in \in Nat /\ IsSeq(Job.out) /\ (Job.in > 0 => Job.out = <<>>)
         /\ PhaseLen("cmd") = Len(Job.cmd)
         /\ Job.in > 0 => PhaseLen("data") = Job.in
         /\ Job.in = 0 => PhaseLen("data") = Len(Job.out)
<1> DEFINE st2 == Status2(chip.maker)
           ws == <<1, d.st>> \o st2
           out == [i \in 1 .. Chunk(d.call, d.pos) |-> Data(d.call, d.pos + i - 1)]
<1>1. Step \in Steps
  BY StepKnown DEF Step
<1>2. IsSeq(ws) /\ Len(ws) \in Nat /\ Len(ws) >= 2 /\ ws[1] = 1 /\ ws[2] = d.st
  <2> DEFINE S == {1, d.st, d.st1}
  <2>1. <<1, d.st>> \in Seq(S) /\ Len(<<1, d.st>>) = 2 /\ <<>> \in Seq(S) /\ <<d.st1>> \in Seq(S)
    OBVIOUS
  <2>2. st2 \in Seq(S)
    BY <2>1 DEF Status2
  <2> HIDE DEF st2, S
  <2>3. /\ ws \in Seq(S) /\ Len(ws) = 2 + Len(st2) /\ Len(st2) \in Nat
        /\ \A i \in 1 .. 2 : ws[i] = <<1, d.st>>[i]
    BY <2>1, <2>2, ConcatProperties, LenProperties
  <2>4. ws[1] = 1 /\ ws[2] = d.st
    BY <2>3
  <2> HIDE DEF ws
  <2> QED BY <2>3, <2>4, SeqIsSeq
<1>3. IsSeq(out)
  <2>1. Chunk(d.call, d.pos) \in Nat
    BY ChunkNat
  <2> DEFINE n == Chunk(d.call, d.pos)
             S == {Data(d.call, d.pos + i - 1) : i \in 1 .. n}
  <2>2. out \in [1 .. n -> S]
    OBVIOUS
  <2> HIDE DEF S, out, n
  <2> QED BY <2>1, <2>2, FunctionIsSeq DEF n
<1>4. d.call.len \in Nat
  BY FlashAssumption DEF DriverOk, AllCalls
<1> HIDE DEF st2, ws, out
<1>5. /\ Step = "status" => Job = Exchange(<<5>>, <<>>, 1)
      /\ Step = "rdst" => Job = Exchange(<<5>>, <<>>, 1)
      /\ Step = "rdst1" => Job = Exchange(<<53>>, <<>>, 1)
      /\ Step = "id" => Job = Exchange(<<159>>, <<>>, 1)
      /\ Step = "read" => Job = Exchange(<<11, d.call.addr + d.pos, 0>>, <<>>, d.call.len)
      /\ Step = "erase" => Job = Exchange(<<32, d.call.addr + d.pos>>, <<>>, 0)
      /\ Step = "program" => Job = Exchange(<<2, d.call.addr + d.pos>>, out, 0)
      /\ Step = "wren" => Job = Exchange(<<6>>, <<>>, 0)
      /\ Step = "rsten" => Job = Exchange(<<102>>, <<>>, 0)
      /\ Step = "rst" => Job = Exchange(<<153>>, <<>>, 0)
      /\ Step = "wrst" => Job = Exchange(ws, <<>>, 0)
  BY DEF Job, Step, ws, st2, out
<1>6. IsSeq(<<>>) /\ Len(<<>>) = 0
  BY LengthOfSeq
<1>7. /\ IsSeq(Job.cmd) /\ Len(Job.cmd) \in Nat /\ Len(Job.cmd) >= 1
      /\ Job.in \in Nat /\ IsSeq(Job.out) /\ (Job.in > 0 => Job.out = <<>>)
  <2>1. \A a : IsSeq(<<a>>) /\ Len(<<a>>) \in Nat /\ Len(<<a>>) >= 1
    BY DEF IsSeq
  <2>2. \A a, b : IsSeq(<<a, b>>) /\ Len(<<a, b>>) \in Nat /\ Len(<<a, b>>) >= 1
    BY DEF IsSeq
  <2>3. \A a, b, c : IsSeq(<<a, b, c>>) /\ Len(<<a, b, c>>) \in Nat /\ Len(<<a, b, c>>) >= 1
    BY DEF IsSeq
  <2>4. \/ Job.cmd = ws
        \/ \E a : Job.cmd = <<a>>
        \/ \E a, b : Job.cmd = <<a, b>>
        \/ \E a, b, c : Job.cmd = <<a, b, c>>
    BY <1>1, <1>5 DEF Exchange, Steps
  <2>5. IsSeq(Job.cmd) /\ Len(Job.cmd) \in Nat /\ Len(Job.cmd) >= 1
    <3>1. Len(ws) >= 1
      BY <1>2
    <3>2. ASSUME NEW w, w = Job.cmd PROVE IsSeq(w) /\ Len(w) \in Nat /\ Len(w) >= 1
      BY <1>2, <2>1, <2>2, <2>3, <2>4, <3>1, <3>2, Zenon
    <3> QED BY <3>2, Zenon
  <2>6. Job.in \in Nat /\ (Job.out = <<>> \/ (Job.out = out /\ Job.in = 0))
    BY <1>1, <1>4, <1>5 DEF Exchange, Steps
  <2> QED BY <1>3, <1>6, <2>5, <2>6
<1>8. /\ PhaseLen("cmd") = Len(Job.cmd)
      /\ Job.in > 0 => PhaseLen("data") = Job.in
      /\ Job.in = 0 => PhaseLen("data") = Len(Job.out)
  BY <1>7 DEF PhaseLen
<1>9. /\ Step = "status" => Job.cmd = <<5>> /\ Job.in = 1 /\ Job.out = <<>>
      /\ Step = "rdst" => Job.cmd = <<5>> /\ Job.in = 1 /\ Job.out = <<>>
      /\ Step = "read" => /\ Job.cmd = <<11, d.call.addr + d.pos, 0>>
                          /\ Job.in = d.call.len /\ Job.out = <<>>
      /\ Step = "erase" => Job.cmd = <<32, d.call.addr + d.pos>> /\ Job.in = 0 /\ Job.out = <<>>
      /\ Step = "program" => Job.cmd = <<2, d.call.addr + d.pos>> /\ Job.in = 0 /\ Job.out = out
      /\ Step = "wren" => Job.cmd = <<6>> /\ Job.in = 0 /\ Job.out = <<>>
      /\ Step = "wrst" => Job.cmd = ws /\ Job.in = 0 /\ Job.out = <<>>
  BY <1>5 DEF Exchange
<1>10. Step = "wrst" => Job.cmd[1] = 1 /\ Job.cmd[2] = d.st /\ Len(Job.cmd) >= 2
  BY <1>2, <1>9
<1>11. Step \notin {"erase", "program", "wrst"} => Job.cmd[1] \notin {1, 2, 32}
  BY <1>1, <1>5 DEF Exchange, Steps
<1>12. Step # "wren" => Job.cmd[1] # 6
  BY <1>1, <1>2, <1>5 DEF Exchange, Steps
<1> QED BY <1>7, <1>8, <1>9, <1>10, <1>11, <1>12 DEF out

-----------------------------------------------------------------------------
(* What steps leave alone.                                                  *)

SameDriver ==
  /\ d'.call = d.call /\ d'.script = d.script /\ d'.pc = d.pc /\ d'.pos = d.pos
  /\ d'.st = d.st /\ d'.st1 = d.st1 /\ d'.elapsed = d.elapsed
SameChip ==
  /\ chip'.maker = chip.maker /\ chip'.cells = chip.cells /\ chip'.guard = chip.guard
  /\ chip'.wel = chip.wel /\ chip'.doing = chip.doing /\ chip'.slow = chip.slow

(* The cells a call may touch depend on the call and the protection.        *)
LEMMA ReachStays ==
  ASSUME d'.call = d.call, chip'.guard = chip.guard
  PROVE  Abstract!Reach(d.call)' = Abstract!Reach(d.call)
BY DEF Abstract!Reach, Abstract!Sector, Abstract!Legal, Abstract!Extent, Abstract!Cells

(* The exchange depends on the place in the script.                         *)
LEMMA SameJob ==
  ASSUME d'.call = d.call, d'.script = d.script, d'.pc = d.pc, d'.pos = d.pos,
         d'.st = d.st, d'.st1 = d.st1, chip'.maker = chip.maker
  PROVE  /\ Step' = Step /\ Job' = Job
         /\ PhaseLen("cmd")' = PhaseLen("cmd") /\ PhaseLen("data")' = PhaseLen("data")
<1>1. Step' = Step
  BY DEF Step
<1>2. Job' = Job
  BY DEF Job, Status2
<1>3. PhaseLen("cmd")' = PhaseLen("cmd") /\ PhaseLen("data")' = PhaseLen("data")
  BY <1>2 DEF PhaseLen
<1> QED BY <1>1, <1>2, <1>3

(* Steps that only move words leave the call and the chip as they are.      *)
LEMMA WorkStays ==
  ASSUME CallInv, ChipInv, CleanInv, SameDriver, SameChip, late' = late
  PROVE  CallInv' /\ ChipInv' /\ CleanInv'
<1> DEFINE reach == Abstract!Reach(d.call)
<1>1. reach' = reach
  BY ReachStays DEF SameDriver, SameChip
<1>2. Step' = Step
  BY DEF Step, SameDriver
<1>3. Refused(d.call)' <=> Refused(d.call)
  BY DEF Refused, SameDriver
<1>4. Busy' <=> Busy
  BY DEF Busy, SameChip
<1>5. CallInv'
  BY <1>3 DEF CallInv, SameDriver, SameChip
<1>6. \A i : Leaves(chip, i)' = Leaves(chip, i)
  BY DEF Leaves, SameChip
<1>7. ChipInv'
  <2>1. \A i, v : Asked(i, v)' <=> Asked(i, v)
    BY <1>1 DEF Asked, SameDriver
  <2> QED BY <1>6, <2>1 DEF ChipInv, SameChip
<1>8. CleanInv'
  <2>1. Operation' = Operation
    BY DEF Operation, SameDriver
  <2>2. \A q : DoneTo(q)' <=> DoneTo(q)
    BY <1>1 DEF DoneTo, DoneCell, SameDriver, SameChip
  <2>3. BusyInv' <=> BusyInv
    BY <1>2, <1>4, <2>1 DEF BusyInv, Modifies, SameDriver, SameChip
  <2>4. ElapsedInv' <=> ElapsedInv
    BY <1>1 DEF ElapsedInv, Modifies, SameDriver
  <2>5. DoneInv' <=> DoneInv
    BY <1>2, <1>3, <1>4, <2>2 DEF DoneInv, Modifies, SameDriver, SameChip
  <2> QED BY <2>3, <2>4, <2>5 DEF CleanInv
<1> QED BY <1>5, <1>7, <1>8

(* What was told stays true.                                                *)
LEMMA ToldStays ==
  ASSUME NEW j, NEW v, Told(j, v), d'.call = d.call, Step' = Step, chip'.cells = chip.cells,
         chip'.guard = chip.guard, chip'.doing = chip.doing, late' = late
  PROVE  Told(j, v)'
BY DEF Told, Busy

-----------------------------------------------------------------------------
(* The packets of an exchange.                                              *)

(* The fields of the packet in progress.                                    *)
LEMMA PacketFields ==
  ASSUME IInv, x.at # "none"
  PROVE  /\ x.phase \in {"cmd", "data"} /\ x.base \in Nat /\ x.len \in Nat /\ x.len >= 1
         /\ x.tx \in 0 .. x.len /\ d.call # NoCall /\ ~Refused(d.call) /\ DriverOk(d)
         /\ x.at = "end" => x.tx = x.len
<1>1. /\ x.phase \in {"cmd", "data"} /\ x.base \in Nat /\ x.len \in Nat /\ x.len >= 1
      /\ x.tx \in 0 .. x.len /\ d.call # NoCall /\ ~Refused(d.call) /\ DriverOk(d)
      /\ x.rx \in Int
  BY FlashAssumption DEF IInv, PacketOk
<1>2. ASSUME x.at = "end" PROVE x.tx = x.len
  <2>1. txFifo = <<>> /\ rxFifo = <<>> /\ ~dma[0].en
    BY <1>2, EndEmpty
  <2>2. CASE mode = "cpu"
    <3>1. 0 + 0 <= x.tx - x.rx /\ x.rx = x.len
      BY <1>2, <2>1, <2>2, LengthOfSeq DEF IInv, CpuInv
    <3> QED BY <1>1, <3>1
  <2>3. CASE mode = "dma"
    <3>1. Left(dma, 0) = 0
      BY <2>1 DEF Left
    <3> QED BY <1>1, <1>2, <2>3, <3>1 DEF IInv, DmaInv
  <2> QED BY <2>2, <2>3 DEF IInv
<1> QED BY <1>1, <1>2

(* A packet of a phase is not longer than the rest of it.                   *)
LEMMA PacketOf ==
  ASSUME NEW phase \in {"cmd", "data"}, NEW base \in Nat, PhaseLen(phase) \in Nat,
         base < PhaseLen(phase), x' = Packet(phase, base)
  PROVE  /\ x'.at # "none" /\ x'.at # "end" /\ x'.phase = phase /\ x'.base = base /\ x'.tx = 0
         /\ x'.len \in Int /\ base + x'.len <= PhaseLen(phase)
<1> DEFINE n == PhaseLen(phase)
<1>1. /\ x'.phase = phase /\ x'.base = base /\ x'.len = PacketLen(n - base) /\ x'.tx = 0
      /\ x'.at = IF mode = "cpu" THEN "tx" ELSE "dma"
  BY DEF Packet
<1> HIDE DEF n
<1>2. PacketLen(n - base) <= n - base /\ PacketLen(n - base) \in Int
  BY FlashAssumption DEF PacketLen, Least, n
<1>3. x'.at # "none" /\ x'.at # "end"
  BY <1>1
<1> QED BY <1>1, <1>2, <1>3 DEF n

(* A word that is sent is the next of the exchange.                         *)
LEMMA WordIsNext ==
  ASSUME IInv, WireInv, x.at # "none", x.tx < x.len, NEW k \in Int, k = x.base + x.tx + 1
  PROVE  Word(k) = Wired(Before + x.base + x.tx + 1)
<1>1. /\ x.phase \in {"cmd", "data"} /\ x.base \in Nat /\ x.len \in Nat
      /\ x.tx \in 0 .. x.len /\ d.call # NoCall /\ DriverOk(d)
  BY PacketFields
<1>2. Len(Job.cmd) \in Nat /\ PhaseLen("cmd") = Len(Job.cmd)
  BY <1>1, Jobs
<1>3. x.base + x.len <= PhaseLen(x.phase)
  BY DEF WireInv
<1> DEFINE m == Len(Job.cmd)
<1>4. CASE x.phase = "cmd"
  <2>1. Before + x.base + x.tx + 1 = k /\ k <= m
    <3>1. Before = 0 /\ x.base + x.len <= m /\ m \in Nat
      BY <1>2, <1>3, <1>4 DEF Before
    <3> HIDE DEF m
    <3> QED BY <1>1, <1>2, <3>1
  <2> HIDE DEF m
  <2>2. Wired(k) = Job.cmd[k]
    BY <2>1 DEF Wired, m
  <2> QED BY <1>4, <2>1, <2>2 DEF Word
<1>5. CASE x.phase = "data"
  <2> DEFINE i == Before + x.base + x.tx + 1
  <2>1. ~(i <= m) /\ i - m = k
    <3>1. Before = m
      BY <1>5 DEF Before
    <3>2. m \in Nat
      BY <1>2
    <3> HIDE DEF m
    <3> QED BY <1>1, <3>1, <3>2
  <2> HIDE DEF m, i
  <2>2. Wired(i) = IF Job.out # <<>> THEN Job.out[k] ELSE 0
    BY <2>1 DEF Wired, m
  <2>3. Word(k) = IF Job.out # <<>> THEN Job.out[k] ELSE 0
    BY <1>5 DEF Word
  <2> QED BY <2>2, <2>3 DEF i
<1> QED BY <1>1, <1>4, <1>5

(* A command starts.                                                        *)
LEMMA StartCommandKeeps ==
  ASSUME FlashInv, StartCommand, IInv' PROVE FlashInv'
<1>1. /\ d.call # NoCall /\ ~Refused(d.call) /\ x.at = "none"
      /\ x' = Packet("cmd", 0) /\ chip' = [chip EXCEPT !.sel = TRUE]
      /\ d' = d /\ txFifo' = txFifo /\ rxFifo' = rxFifo /\ late' = late
  BY DEF StartCommand
<1>2. ChipOk(chip) /\ DriverOk(d) /\ txFifo = <<>> /\ chip.words = <<>>
  BY <1>1, EndEmpty DEF FlashInv, IInv, Quiet
<1>3. SameDriver /\ SameChip /\ chip'.sel = TRUE /\ chip'.words = <<>> /\ chip'.maker = chip.maker
  BY <1>1, <1>2 DEF SameDriver, SameChip, ChipOk
<1>4. CallInv' /\ ChipInv' /\ CleanInv'
  BY <1>1, <1>3, WorkStays DEF FlashInv
<1>5. Step' = Step /\ Job' = Job /\ PhaseLen("cmd")' = PhaseLen("cmd")
  BY <1>3, SameJob DEF SameDriver
<1>6. PhaseLen("cmd") \in Nat /\ 0 < PhaseLen("cmd")
  BY <1>1, <1>2, PhaseLengths
<1>7. /\ x'.at # "none" /\ x'.phase = "cmd" /\ x'.base = 0 /\ x'.tx = 0
      /\ 0 + x'.len <= PhaseLen("cmd")
  BY <1>1, <1>6, PacketOf
<1>8. Len(<<>>) = 0 /\ IsSeq(<<>>)
  BY LengthOfSeq
<1>9. WireInv'
  <2>1. Before' = 0
    BY <1>7 DEF Before
  <2>2. Len(chip'.words) = 0 /\ Len(txFifo') = 0 /\ IsSeq(chip'.words)
    BY <1>1, <1>2, <1>3, <1>8
  <2>3. PhaseLen(x.phase)' = PhaseLen("cmd")
    BY <1>5, <1>7 DEF PhaseLen
  <2> QED BY <1>3, <1>7, <2>1, <2>2, <2>3 DEF WireInv
<1>10. AnswerInv'
  BY <1>1, <1>7 DEF FlashInv, AnswerInv, Reading
<1> QED BY <1>4, <1>9, <1>10 DEF FlashInv

(* The next packet of a phase starts.                                       *)
LEMMA NextPacketKeeps ==
  ASSUME FlashInv, NextPacket, IInv' PROVE FlashInv'
<1>1. /\ x.at = "end" /\ x.base + x.len < PhaseLen(x.phase)
      /\ x' = Packet(x.phase, x.base + x.len)
      /\ d' = d /\ txFifo' = txFifo /\ rxFifo' = rxFifo /\ late' = late /\ chip' = chip
  BY DEF NextPacket
<1>2. /\ x.phase \in {"cmd", "data"} /\ x.base \in Nat /\ x.len \in Nat /\ x.tx = x.len
      /\ d.call # NoCall /\ DriverOk(d)
  BY <1>1, PacketFields DEF FlashInv
<1>3. SameDriver /\ SameChip
  BY <1>1 DEF SameDriver, SameChip
<1>4. CallInv' /\ ChipInv' /\ CleanInv'
  BY <1>1, <1>3, WorkStays DEF FlashInv
<1>5. /\ Step' = Step /\ Job' = Job
      /\ PhaseLen("cmd")' = PhaseLen("cmd") /\ PhaseLen("data")' = PhaseLen("data")
  BY <1>3, SameJob DEF SameDriver, SameChip
<1>6. PhaseLen(x.phase) \in Nat /\ x.base + x.len \in Nat
  BY <1>2, PhaseLengths
<1>7. /\ x'.at # "none" /\ x'.phase = x.phase /\ x'.base = x.base + x.len /\ x'.tx = 0
      /\ x'.base + x'.len <= PhaseLen(x.phase)
  BY <1>1, <1>2, <1>6, PacketOf
<1>8. Before' = Before /\ \A i : Wired(i)' = Wired(i)
  BY <1>5, <1>7 DEF Before, Wired
<1>9. WireInv'
  <2>1. PhaseLen(x.phase)' = PhaseLen(x.phase)
    BY <1>2, <1>5, <1>7 DEF PhaseLen
  <2>2. Before + x.base + x.tx = Before' + x'.base + x'.tx
    <3>1. Before \in Nat
      BY <1>2, Jobs DEF Before
    <3> QED BY <1>2, <1>7, <1>8, <3>1
  <2> QED BY <1>1, <1>5, <1>7, <1>8, <2>1, <2>2 DEF FlashInv, WireInv
<1>10. AnswerInv'
  <2>1. Reading' <=> Reading
    BY <1>1, <1>5, <1>7 DEF Reading
  <2>2. \A j, v : Told(j, v)' <=> Told(j, v)
    BY <1>1, <1>5 DEF Told, Busy
  <2> QED BY <1>1, <1>5, <2>1, <2>2 DEF FlashInv, AnswerInv
<1> QED BY <1>4, <1>9, <1>10 DEF FlashInv

(* The data phase starts.                                                   *)
LEMMA StartDataKeeps ==
  ASSUME FlashInv, StartData, IInv' PROVE FlashInv'
<1>1. /\ x.at = "end" /\ x.base + x.len = PhaseLen(x.phase) /\ txFifo = <<>>
      /\ x.phase = "cmd" /\ (Job.in > 0 \/ Job.out # <<>>)
      /\ x' = Packet("data", 0)
      /\ d' = d /\ txFifo' = txFifo /\ rxFifo' = <<>> /\ late' = late /\ chip' = chip
  BY DEF StartData
<1>2. x.base \in Nat /\ x.len \in Nat /\ x.tx = x.len /\ d.call # NoCall /\ DriverOk(d)
  BY <1>1, PacketFields DEF FlashInv
<1>3. SameDriver /\ SameChip
  BY <1>1 DEF SameDriver, SameChip
<1>4. CallInv' /\ ChipInv' /\ CleanInv'
  BY <1>1, <1>3, WorkStays DEF FlashInv
<1>5. /\ Step' = Step /\ Job' = Job
      /\ PhaseLen("cmd")' = PhaseLen("cmd") /\ PhaseLen("data")' = PhaseLen("data")
  BY <1>3, SameJob DEF SameDriver, SameChip
<1>6. PhaseLen("data") \in Nat /\ 0 < PhaseLen("data") /\ PhaseLen("cmd") = Len(Job.cmd)
  BY <1>1, <1>2, PhaseLengths, Jobs
<1>7. /\ x'.at # "none" /\ x'.phase = "data" /\ x'.base = 0 /\ x'.tx = 0
      /\ 0 + x'.len <= PhaseLen("data") /\ x'.len \in Int
  BY <1>1, <1>6, PacketOf
<1>8. \A i : Wired(i)' = Wired(i)
  BY <1>5 DEF Wired
<1>9. Len(chip.words) = Len(Job.cmd) /\ Len(txFifo) = 0 /\ Len(Job.cmd) \in Nat
  <2>1. Len(chip.words) + Len(txFifo) = Before + x.base + x.tx /\ IsSeq(chip.words)
    BY <1>1 DEF FlashInv, WireInv
  <2>2. Before = 0
    BY <1>1 DEF Before
  <2>3. Len(chip.words) \in Nat /\ Len(txFifo) = 0
    BY <1>1, <2>1, LengthOfSeq
  <2> QED BY <1>1, <1>2, <1>6, <2>1, <2>2, <2>3
<1>10. WireInv'
  <2>1. Before' = Len(Job.cmd)
    BY <1>5, <1>7 DEF Before
  <2>2. Len(chip'.words) + Len(txFifo') = Before' + x'.base + x'.tx
    BY <1>1, <1>7, <1>9, <2>1
  <2>3. PhaseLen(x.phase)' = PhaseLen("data")
    BY <1>5, <1>7 DEF PhaseLen
  <2> QED BY <1>1, <1>5, <1>7, <1>8, <2>2, <2>3 DEF FlashInv, WireInv
<1>11. AnswerInv'
  <2>1. d.buf = <<>> /\ IsSeq(d.buf)
    BY <1>1 DEF FlashInv, AnswerInv, Reading
  <2>2. Len(d'.buf) = 0 /\ Len(rxFifo') = 0
    BY <1>1, <2>1, LengthOfSeq
  <2> QED BY <1>1, <1>5, <1>9, <2>1, <2>2 DEF AnswerInv
<1> QED BY <1>4, <1>10, <1>11 DEF FlashInv

-----------------------------------------------------------------------------
(* The words of a packet.                                                   *)

(* What stays when the driver, the chip and the receive FIFO do.            *)
LEMMA AnswersStay ==
  ASSUME AnswerInv, d' = d, chip' = chip, rxFifo' = rxFifo, late' = late,
         x.at # "none", x'.at # "none", x'.phase = x.phase
  PROVE  AnswerInv'
<1>1. Step' = Step /\ Job' = Job
  BY SameJob
<1>2. Reading' <=> Reading
  BY <1>1 DEF Reading
<1>3. \A j, v : Told(j, v)' <=> Told(j, v)
  BY <1>1 DEF Told, Busy
<1> QED BY <1>1, <1>2, <1>3 DEF AnswerInv

(* One that moves from one count to the other, one more in all.             *)
LEMMA OneMoved ==
  ASSUME NEW p \in Int, NEW q \in Int, NEW e, p + q = e PROVE (p + 1) + (q - 1) = e
OBVIOUS
(* One more.                                                                *)
LEMMA OneMore ==
  ASSUME NEW p \in Int, NEW q \in Int PROVE p + (q + 1) = (p + q) + 1
OBVIOUS

(* The CPU or the channel sends a word.                                     *)
LEMMA SendKeeps ==
  ASSUME FlashInv, IInv', x.at # "none", x.tx < x.len, NEW k \in Int, k = x.base + x.tx + 1,
         txFifo' = Append(txFifo, Word(k)), x'.at # "none", x'.phase = x.phase,
         x'.base = x.base, x'.len = x.len, x'.tx = x.tx + 1,
         d' = d, rxFifo' = rxFifo, chip' = chip, late' = late
  PROVE  FlashInv'
<1>1. CallInv' /\ ChipInv' /\ CleanInv'
  BY WorkStays DEF FlashInv, SameDriver, SameChip
<1>2. AnswerInv'
  BY AnswersStay DEF FlashInv
<1>3. Step' = Step /\ Job' = Job
  BY SameJob
<1>4. PhaseLen(x.phase)' = PhaseLen(x.phase)
  BY <1>3 DEF PhaseLen
<1>5. Before' = Before /\ \A i : Wired(i)' = Wired(i)
  BY <1>3 DEF Before, Wired
<1>6. x.base \in Nat /\ x.tx \in Int /\ d.call # NoCall /\ DriverOk(d) /\ x.len \in Nat
  BY PacketFields DEF FlashInv
<1>7. Before \in Nat
  BY <1>6, Jobs DEF Before
<1> DEFINE w == Word(k)
           n == Len(chip.words)
           m == Len(txFifo)
<1>8. w = Wired(Before + x.base + x.tx + 1)
  BY WordIsNext DEF FlashInv
<1>9. /\ IsSeq(chip.words) /\ n \in Nat /\ n + m = Before + x.base + x.tx
      /\ \A i \in 1 .. m : txFifo[i] = Wired(n + i)
  BY LengthOfSeq DEF FlashInv, WireInv
<1> DEFINE t == Append(txFifo, w)
<1>10. /\ IsSeq(txFifo) /\ m \in Nat /\ Len(t) = m + 1 /\ t[m + 1] = w
       /\ \A i \in 1 .. m : t[i] = txFifo[i]
  BY PushSeq, LengthOfSeq DEF FlashInv, IInv, FifosOk
<1>11. txFifo' = t
  OBVIOUS
<1> HIDE DEF w, t, n, m
<1>12. ASSUME NEW i \in 1 .. Len(t) PROVE t[i] = Wired(n + i)
  <2>1. CASE i = m + 1
    <3>1. n + i = Before + x.base + x.tx + 1
      BY <1>6, <1>7, <1>9, <1>10, <2>1
    <3> QED BY <1>8, <1>10, <2>1, <3>1
  <2>2. CASE i # m + 1
    <3>1. i \in 1 .. m
      BY <1>10, <1>12, <2>2
    <3> QED BY <1>9, <1>10, <3>1
  <2> QED BY <2>1, <2>2
<1>13. WireInv'
  <2>1. n + Len(t) = Before + x.base + (x.tx + 1)
    <3>1. n \in Int /\ m \in Int /\ Before \in Int /\ x.base \in Int /\ x.tx \in Int
      BY <1>6, <1>7, <1>9, <1>10
    <3>2. n + m = Before + x.base + x.tx
      BY <1>9
    <3>3. n + (m + 1) = (n + m) + 1
      BY <3>1, OneMore, Zenon
    <3>4. Before + x.base \in Int
      BY <3>1
    <3>5. Before + x.base + (x.tx + 1) = (Before + x.base + x.tx) + 1
      BY <3>1, <3>4, OneMore, Zenon
    <3> QED BY <1>10, <3>2, <3>3, <3>5, Zenon
  <2>2. n = Len(chip.words)
    BY DEF n
  <2> QED BY <1>3, <1>4, <1>5, <1>11, <1>12, <2>1, <2>2 DEF FlashInv, WireInv
<1> QED BY <1>1, <1>2, <1>13 DEF FlashInv

(* The program looks, and nothing moves.                                    *)
LEMMA LookKeeps ==
  ASSUME FlashInv, IInv', x.at # "none", x'.at # "none", x'.phase = x.phase,
         x'.base = x.base, x'.len = x.len, x'.tx = x.tx,
         d' = d, txFifo' = txFifo, rxFifo' = rxFifo, chip' = chip, late' = late
  PROVE  FlashInv'
<1>1. CallInv' /\ ChipInv' /\ CleanInv'
  BY WorkStays DEF FlashInv, SameDriver, SameChip
<1>2. AnswerInv'
  BY AnswersStay DEF FlashInv
<1>3. Step' = Step /\ Job' = Job
  BY SameJob
<1>4. PhaseLen(x.phase)' = PhaseLen(x.phase)
  BY <1>3 DEF PhaseLen
<1>5. Before' = Before /\ \A i : Wired(i)' = Wired(i)
  BY <1>3 DEF Before, Wired
<1>6. WireInv'
  BY <1>3, <1>4, <1>5 DEF FlashInv, WireInv
<1> QED BY <1>1, <1>2, <1>6 DEF FlashInv

(* The CPU fills the transmit FIFO.                                         *)
LEMMA TxPollKeeps ==
  ASSUME FlashInv, TxPoll, IInv' PROVE FlashInv'
<1>1. /\ x.at = "tx" /\ d' = d /\ rxFifo' = rxFifo /\ chip' = chip /\ late' = late
      /\ DOMAIN x = {"phase", "base", "len", "tx", "rx", "at"}
  BY DEF TxPoll, FlashInv, IInv, PacketOk
<1>2. CASE x.tx < x.len /\ Len(txFifo) < FifoSize
  <2>1. txFifo' = Append(txFifo, Word(x.base + x.tx + 1)) /\ x' = [x EXCEPT !.tx = x.tx + 1]
    BY <1>2 DEF TxPoll
  <2>2. /\ x'.at = x.at /\ x'.phase = x.phase /\ x'.base = x.base /\ x'.len = x.len
        /\ x'.tx = x.tx + 1
    BY <1>1, <2>1
  <2>3. x.base + x.tx + 1 \in Int
    BY <1>1, PacketFields DEF FlashInv
  <2> QED BY <1>1, <1>2, <2>1, <2>2, <2>3, SendKeeps
<1>3. CASE ~(x.tx < x.len /\ Len(txFifo) < FifoSize)
  <2>1. txFifo' = txFifo /\ x' = [x EXCEPT !.at = "rx"]
    BY <1>3 DEF TxPoll
  <2>2. /\ x'.at = "rx" /\ x'.phase = x.phase /\ x'.base = x.base /\ x'.len = x.len
        /\ x'.tx = x.tx
    BY <1>1, <2>1
  <2> QED BY <1>1, <2>1, <2>2, LookKeeps
<1> QED BY <1>2, <1>3

(* The transmit channel moves a word.                                       *)
LEMMA DmaTxKeeps ==
  ASSUME FlashInv, DmaTx, IInv' PROVE FlashInv'
<1>1. /\ dma[0].en /\ d' = d /\ rxFifo' = rxFifo /\ chip' = chip /\ late' = late
      /\ txFifo' = Append(txFifo, Word(x.base + x.tx + 1)) /\ x' = [x EXCEPT !.tx = x.tx + 1]
      /\ DOMAIN x = {"phase", "base", "len", "tx", "rx", "at"}
  BY DEF DmaTx, FlashInv, IInv, PacketOk
<1>2. x.at # "none" /\ x.tx < x.len
  <2>1. /\ x.at # "none" /\ x.len \in Nat /\ x.tx = x.len - Left(dma, 0)
        /\ Left(dma, 0) \in Nat /\ Left(dma, 0) >= 1
    BY <1>1, RunningChannel DEF FlashInv
  <2> QED BY <2>1
<1>3. /\ x'.at = x.at /\ x'.phase = x.phase /\ x'.base = x.base /\ x'.len = x.len
      /\ x'.tx = x.tx + 1
  BY <1>1
<1>4. x.base + x.tx + 1 \in Int
  BY <1>2, PacketFields DEF FlashInv
<1> QED BY <1>1, <1>2, <1>3, <1>4, SendKeeps

(* The program sees that both channels are done.                            *)
LEMMA DmaPollKeeps ==
  ASSUME FlashInv, DmaPoll, IInv' PROVE FlashInv'
<1>1. /\ x.at = "dma" /\ d' = d /\ rxFifo' = rxFifo /\ txFifo' = txFifo /\ chip' = chip
      /\ late' = late /\ x' = [x EXCEPT !.at = "end"]
      /\ DOMAIN x = {"phase", "base", "len", "tx", "rx", "at"}
  BY DEF DmaPoll, FlashInv, IInv, PacketOk
<1>2. /\ x'.at = "end" /\ x'.phase = x.phase /\ x'.base = x.base /\ x'.len = x.len
      /\ x'.tx = x.tx
  BY <1>1
<1> QED BY <1>1, <1>2, LookKeeps

(* The driver or the channel takes an answer.                               *)
LEMMA TakeKeeps ==
  ASSUME FlashInv, IInv', x.at # "none", rxFifo # <<>>, rxFifo' = Tail(rxFifo),
         d' = Receive(Head(rxFifo)), x'.at # "none", x'.phase = x.phase,
         x'.base = x.base, x'.len = x.len, x'.tx = x.tx,
         txFifo' = txFifo, chip' = chip, late' = late
  PROVE  FlashInv'
<1>1. DOMAIN d = {"call", "probed", "script", "pc", "pos", "buf", "st", "st1", "elapsed"}
  BY DEF FlashInv, IInv, DriverOk
<1> DEFINE w == Head(rxFifo)
<1>2. /\ SameDriver
      /\ d'.buf = IF x.phase = "data" /\ Job.in > 0 THEN Append(d.buf, w) ELSE d.buf
  BY <1>1 DEF Receive, SameDriver
<1> HIDE DEF w
<1>3. CallInv' /\ ChipInv' /\ CleanInv'
  BY <1>2, WorkStays DEF FlashInv, SameChip
<1>4. Step' = Step /\ Job' = Job
  BY <1>2, SameJob DEF SameDriver
<1>5. PhaseLen(x.phase)' = PhaseLen(x.phase)
  BY <1>4 DEF PhaseLen
<1>6. Before' = Before /\ \A i : Wired(i)' = Wired(i)
  BY <1>4 DEF Before, Wired
<1>7. WireInv'
  BY <1>4, <1>5, <1>6 DEF FlashInv, WireInv
<1>8. Reading' <=> Reading
  BY <1>4 DEF Reading
<1>9. \A j, v : Told(j, v)' <=> Told(j, v)
  BY <1>2, <1>4 DEF Told, Busy, SameDriver
<1>10. CASE ~Reading
  <2>1. d'.buf = d.buf
    BY <1>2, <1>10 DEF Reading
  <2> QED BY <1>3, <1>7, <1>8, <1>10, <2>1 DEF FlashInv, AnswerInv
<1>11. CASE Reading
  <2> DEFINE b == d.buf
             c == Append(b, w)
             r == rxFifo
             s == Tail(rxFifo)
  <2>1. d'.buf = c /\ rxFifo' = s
    BY <1>2, <1>11 DEF Reading
  <2>2. /\ IsSeq(b) /\ Len(b) + Len(r) = Len(chip.words) - Len(Job.cmd)
        /\ \A j \in 1 .. Len(b) : Told(j, b[j])
        /\ \A j \in 1 .. Len(r) : Told(Len(b) + j, r[j])
    BY <1>11 DEF FlashInv, AnswerInv
  <2>3. /\ IsSeq(c) /\ Len(c) = Len(b) + 1 /\ c[Len(b) + 1] = w /\ Len(b) \in Nat
        /\ \A j \in 1 .. Len(b) : c[j] = b[j]
    BY <2>2, PushSeq, LengthOfSeq
  <2>4. /\ IsSeq(s) /\ Len(s) = Len(r) - 1 /\ Len(r) >= 1 /\ Len(r) \in Nat
        /\ \A j \in 1 .. Len(r) - 1 : s[j] = r[j + 1]
    BY PopSeq, LengthOfSeq DEF FlashInv, IInv, FifosOk
  <2>5. w = r[1]
    BY DEF w
  <2> HIDE DEF b, c, r, s
  <2>6. ASSUME NEW j \in 1 .. Len(c) PROVE Told(j, c[j])
    <3>1. CASE j = Len(b) + 1
      <4>1. Told(Len(b) + 1, r[1])
        BY <2>2, <2>4
      <4> QED BY <2>3, <2>5, <3>1, <4>1
    <3>2. CASE j # Len(b) + 1
      <4>1. j \in 1 .. Len(b)
        BY <2>3, <2>6, <3>2
      <4> QED BY <2>2, <2>3, <4>1
    <3> QED BY <3>1, <3>2
  <2>7. ASSUME NEW j \in 1 .. Len(s) PROVE Told(Len(c) + j, s[j])
    <3>1. j + 1 \in 1 .. Len(r) /\ j \in 1 .. Len(r) - 1 /\ Len(b) + (j + 1) = Len(c) + j
      BY <2>3, <2>4, <2>7
    <3> QED BY <2>2, <2>4, <3>1
  <2>8. Len(c) + Len(s) = Len(chip.words) - Len(Job.cmd)
    <3>1. Len(b) \in Int /\ Len(r) \in Int
      BY <2>3, <2>4
    <3>2. Len(b) + Len(r) = Len(chip.words) - Len(Job.cmd)
      BY <2>2
    <3>3. (Len(b) + 1) + (Len(r) - 1) = Len(chip.words) - Len(Job.cmd)
      BY <3>1, <3>2, OneMoved
    <3> QED BY <2>3, <2>4, <3>3, Zenon
  <2>9. AnswerInv'
    BY <1>4, <1>8, <1>9, <1>11, <2>1, <2>3, <2>6, <2>7, <2>8 DEF AnswerInv
  <2> QED BY <1>3, <1>7, <2>9 DEF FlashInv
<1> QED BY <1>10, <1>11

(* The CPU reads a word.                                                    *)
LEMMA RxPollKeeps ==
  ASSUME FlashInv, RxPoll, IInv' PROVE FlashInv'
<1>1. /\ x.at = "rx" /\ rxFifo # <<>> /\ rxFifo' = Tail(rxFifo) /\ d' = Receive(Head(rxFifo))
      /\ txFifo' = txFifo /\ chip' = chip /\ late' = late
  BY DEF RxPoll
<1>2. /\ x'.at # "none" /\ x'.phase = x.phase /\ x'.base = x.base /\ x'.len = x.len
      /\ x'.tx = x.tx
  BY DEF RxPoll, FlashInv, IInv, PacketOk
<1> QED BY <1>1, <1>2, TakeKeeps

(* The receive channel moves a word.                                        *)
LEMMA DmaRxKeeps ==
  ASSUME FlashInv, DmaRx, IInv' PROVE FlashInv'
<1>1. /\ dma[1].en /\ rxFifo # <<>> /\ rxFifo' = Tail(rxFifo) /\ d' = Receive(Head(rxFifo))
      /\ txFifo' = txFifo /\ chip' = chip /\ late' = late /\ x' = x
  BY DEF DmaRx
<1>2. x.at # "none"
  BY <1>1, RunningChannel DEF FlashInv
<1> QED BY <1>1, <1>2, TakeKeeps

-----------------------------------------------------------------------------
(* The bus.                                                                 *)

(* The status tells whether the chip is busy and whether it is protected.   *)
LEMMA StatusTells ==
  /\ StatusWord % 2 = 1 \/ ~Busy
  /\ StatusWord = 0 => chip.guard = {}
<1>1. StatusWord \in {0, 1, 4, 5} /\ (Busy => StatusWord \in {1, 5})
      /\ (StatusWord = 0 => chip.guard = {})
  BY DEF StatusWord
<1> DEFINE w == StatusWord
<1> HIDE DEF w
<1>2. w \in {1, 5} => w % 2 = 1
  OBVIOUS
<1> QED BY <1>1, <1>2 DEF w

(* What the chip answers to the next word of a data phase.                  *)
LEMMA ReplyTells ==
  ASSUME FlashInv, CallsFit, Reading, txFifo # <<>>
  PROVE  Told(Len(d.buf) + Len(rxFifo) + 1, Reply)
<1> DEFINE n == Len(chip.words)
           m == Len(Job.cmd)
           at == d.call.addr
<1>1. /\ x.at # "none" /\ x.phase = "data" /\ Job.in > 0
      /\ x.base \in Nat /\ x.len \in Nat /\ x.tx \in 0 .. x.len /\ d.call # NoCall /\ DriverOk(d)
  BY PacketFields DEF Reading, FlashInv
<1>2. /\ m \in Nat /\ m >= 1 /\ PhaseLen("data") = Job.in /\ Job.in \in Nat
  BY <1>1, Jobs
<1>3. /\ IsSeq(d.buf) /\ Len(d.buf) + Len(rxFifo) = n - m
  BY DEF FlashInv, AnswerInv
<1>4. /\ Len(d.buf) \in Nat /\ Len(rxFifo) \in Nat /\ Len(txFifo) \in Nat /\ Len(txFifo) # 0
      /\ n \in Nat
  BY <1>1, <1>3, LengthOfSeq DEF FlashInv, IInv, FifosOk, WireInv
<1>5. /\ n + Len(txFifo) = m + x.base + x.tx /\ x.base + x.len <= Job.in
      /\ \A i \in 1 .. n : chip.words[i] = Wired(i)
  BY <1>1, <1>2 DEF FlashInv, WireInv, Before
<1> HIDE DEF n, m
<1>6. n >= m /\ n + 1 <= m + Job.in
  <2>1. n >= m
    BY <1>2, <1>3, <1>4
  <2>2. x.tx \in Int /\ x.tx <= x.len /\ Len(txFifo) >= 1
    BY <1>1, <1>4
  <2> QED BY <1>1, <1>2, <1>4, <1>5, <2>1, <2>2, SMTT(60)
<1>7. chip.words[1] = Job.cmd[1] /\ n + 1 # 1
  <2>1. 1 \in 1 .. n /\ 1 <= m
    BY <1>2, <1>4, <1>6
  <2>2. Wired(1) = Job.cmd[1]
    BY <2>1 DEF Wired, m
  <2> QED BY <1>4, <1>5, <1>6, <1>2, <2>1, <2>2
<1>8. CASE Step \in {"status", "rdst"}
  <2>1. Job.cmd[1] = 5
    BY <1>1, <1>8, Jobs
  <2>2. Reply = StatusWord
    BY <1>7, <2>1 DEF Reply, n
  <2> QED BY <1>8, <2>2, StatusTells DEF Told
<1>9. CASE late = {} /\ Step = "read"
  <2>1. ~Busy
    BY <1>9 DEF FlashInv, CleanInv, BusyInv
  <2>2. d.call.op = "read"
    <3>1. CallsWithin /\ CallInv
      BY DEF CallsFit, FlashInv
    <3> QED BY <1>1, <1>9, <3>1, StepPlaces DEF Step
  <2>3. d.pos = 0 /\ d.call \in Calls /\ d.call.addr \in Nat /\ d.call.len \in Nat
        /\ d.call.addr + d.call.len <= Cap
    <3>1. d.pos = 0 /\ d.call \in Calls
      <4>1. Probe.op = "probe"
        BY DEF Probe, NoCall
      <4> QED BY <1>1, <2>2, <4>1 DEF FlashInv, CallInv
    <3>2. d.call.addr \in Nat /\ d.call.len \in Nat
      BY <1>1, FlashAssumption DEF DriverOk, AllCalls
    <3> QED BY <2>2, <3>1, <3>2 DEF CallsFit, CallsInside
  <2>4. Job.cmd = <<11, at + 0, 0>> /\ Job.in = d.call.len
    BY <1>1, <1>9, <2>3, Jobs
  <2>5. m = 3 /\ Job.cmd[1] = 11 /\ Job.cmd[2] = at
    BY <2>3, <2>4 DEF m
  <2>6. chip.words[2] = at
    <3>1. 2 \in 1 .. n /\ 2 <= m
      BY <1>4, <1>6, <2>5
    <3>2. Wired(2) = Job.cmd[2]
      BY <3>1 DEF Wired, m
    <3> QED BY <1>5, <2>5, <3>1, <3>2
  <2>7. Reply = chip.cells[(at + (n + 1) - 4) % Cap]
    <3>1. n + 1 > 3
      BY <1>4, <1>6, <2>5
    <3> QED BY <1>7, <2>1, <2>5, <2>6, <3>1 DEF Reply, n
  <2> DEFINE k == at + (n + 1) - 4
             j == Len(d.buf) + Len(rxFifo) + 1
  <2>8. k \in Int /\ k >= 0 /\ k < Cap /\ k = at + j - 1
    <3>1. j = n - 3 + 1
      BY <1>3, <2>5
    <3>2. n >= 3 /\ n + 1 <= 3 + d.call.len
      BY <1>6, <2>4, <2>5
    <3>3. Cap \in Int
      BY FlashAssumption
    <3> HIDE DEF j
    <3> QED BY <1>4, <2>3, <3>1, <3>2, <3>3, SMTT(60)
  <2> HIDE DEF k, j
  <2>9. k % Cap = k
    <3>1. Cap \in Nat \ {0} /\ k = Cap * 0 + k /\ k \in 0 .. Cap - 1
      BY <2>8, FlashAssumption
    <3> QED BY <2>8, <3>1, Quotient
  <2>10. Reply = chip.cells[at + j - 1]
    BY <2>7, <2>8, <2>9 DEF k
  <2> QED BY <1>9, <2>10 DEF Told, j
<1>10. CASE Step \notin {"status", "rdst"} /\ ~(late = {} /\ Step = "read")
  BY <1>10 DEF Told
<1> QED BY <1>8, <1>9, <1>10

(* The bus carries a word out and its answer in.                            *)
LEMMA WireKeeps ==
  ASSUME FlashInv, CallsFit, Wire, IInv' PROVE FlashInv'
<1> DEFINE w == Head(txFifo)
           u == Reply
           s == chip.words
           t == txFifo
           r == rxFifo
           n == Len(s)
<1>1. /\ t # <<>> /\ txFifo' = Tail(t) /\ d' = d /\ x' = x /\ late' = late
      /\ chip' = [chip EXCEPT !.words = Append(s, w)]
  BY DEF Wire
<1>2. rxFifo' = Append(r, u)
  <2>1. Len(rxFifo) < FifoSize
    BY <1>1, RoomForAnswer DEF FlashInv
  <2> QED BY <2>1 DEF Wire
<1>3. x.at # "none"
  BY <1>1 DEF FlashInv, IInv, Quiet
<1>4. /\ SameDriver /\ SameChip /\ chip'.sel = chip.sel /\ chip'.words = Append(s, w)
      /\ chip'.maker = chip.maker
  BY <1>1 DEF SameDriver, SameChip, FlashInv, IInv, ChipOk
<1>5. CallInv' /\ ChipInv' /\ CleanInv'
  BY <1>1, <1>4, WorkStays DEF FlashInv
<1>6. Step' = Step /\ Job' = Job
  BY <1>4, SameJob DEF SameDriver
<1>7. PhaseLen(x.phase)' = PhaseLen(x.phase)
  BY <1>1, <1>6 DEF PhaseLen
<1>8. Before' = Before /\ \A i : Wired(i)' = Wired(i)
  BY <1>1, <1>6 DEF Before, Wired
<1>9. /\ IsSeq(s) /\ n + Len(t) = Before + x.base + x.tx
      /\ \A i \in 1 .. n : s[i] = Wired(i)
      /\ \A i \in 1 .. Len(t) : t[i] = Wired(n + i)
  BY <1>3 DEF FlashInv, WireInv
<1>10. /\ Len(t) \in Nat /\ n \in Nat /\ Len(r) \in Nat /\ IsSeq(t) /\ IsSeq(r)
  BY <1>9, LengthOfSeq DEF FlashInv, IInv, FifosOk
<1> DEFINE s2 == Append(s, w)
           t2 == Tail(t)
           r2 == Append(r, u)
<1>11. /\ IsSeq(s2) /\ Len(s2) = n + 1 /\ s2[n + 1] = w
       /\ \A i \in 1 .. n : s2[i] = s[i]
  BY <1>9, PushSeq
<1>12. /\ IsSeq(t2) /\ Len(t2) = Len(t) - 1 /\ Len(t) >= 1
       /\ \A i \in 1 .. Len(t) - 1 : t2[i] = t[i + 1]
  BY <1>1, <1>10, PopSeq
<1>13. /\ IsSeq(r2) /\ Len(r2) = Len(r) + 1 /\ r2[Len(r) + 1] = u
       /\ \A i \in 1 .. Len(r) : r2[i] = r[i]
  BY <1>10, PushSeq
<1>14. w = t[1]
  OBVIOUS
<1>15. chip'.words = s2 /\ txFifo' = t2 /\ rxFifo' = r2
  BY <1>1, <1>2, <1>4
<1>16. Reading => Told(Len(d.buf) + Len(r) + 1, u)
  BY <1>1, ReplyTells
<1> HIDE DEF w, u, s2, t2, r2, t, n, r
<1>17. ASSUME NEW i \in 1 .. Len(s2) PROVE s2[i] = Wired(i)
  <2>1. CASE i = n + 1
    <3>1. t[1] = Wired(n + 1)
      BY <1>9, <1>10, <1>12
    <3> QED BY <1>11, <1>14, <2>1, <3>1
  <2>2. CASE i # n + 1
    <3>1. i \in 1 .. n
      BY <1>10, <1>11, <1>17, <2>2
    <3> QED BY <1>9, <1>11, <3>1
  <2> QED BY <2>1, <2>2
<1>18. ASSUME NEW i \in 1 .. Len(t2) PROVE t2[i] = Wired(Len(s2) + i)
  <2>1. i \in 1 .. Len(t) - 1 /\ i + 1 \in 1 .. Len(t) /\ Len(s2) + i = n + (i + 1)
    BY <1>10, <1>11, <1>12, <1>18
  <2> QED BY <1>9, <1>12, <2>1
<1>19. Len(s2) + Len(t2) = Before + x.base + x.tx
  <2>1. n \in Int /\ Len(t) \in Int
    BY <1>10
  <2>2. n + Len(t) = Before + x.base + x.tx
    BY <1>9
  <2>3. (n + 1) + (Len(t) - 1) = Before + x.base + x.tx
    BY <2>1, <2>2, OneMoved
  <2> QED BY <1>11, <1>12, <2>3, Zenon
<1>20. WireInv'
  BY <1>1, <1>3, <1>4, <1>6, <1>7, <1>8, <1>11, <1>15, <1>17, <1>18, <1>19 DEF FlashInv, WireInv
<1>21. Reading' <=> Reading
  BY <1>1, <1>6 DEF Reading
<1>22. \A j, v : Told(j, v)' <=> Told(j, v)
  BY <1>1, <1>4, <1>6 DEF Told, Busy, SameChip
<1>23. CASE ~Reading
  BY <1>1, <1>5, <1>20, <1>21, <1>23 DEF FlashInv, AnswerInv
<1>24. CASE Reading
  <2> DEFINE b == d.buf
  <2>1. /\ IsSeq(b) /\ Len(b) + Len(r) = n - Len(Job.cmd)
        /\ \A j \in 1 .. Len(b) : Told(j, b[j])
        /\ \A j \in 1 .. Len(r) : Told(Len(b) + j, r[j])
    BY <1>24 DEF FlashInv, AnswerInv, r, n
  <2>2. Len(b) \in Nat /\ Len(Job.cmd) \in Nat
    <3>1. d.call # NoCall /\ DriverOk(d)
      BY <1>3, PacketFields DEF FlashInv
    <3> QED BY <2>1, <3>1, LengthOfSeq, Jobs
  <2> DEFINE m == Len(Job.cmd)
  <2> HIDE DEF b, m
  <2>3. ASSUME NEW j \in 1 .. Len(r2) PROVE Told(Len(b) + j, r2[j])
    <3>1. CASE j = Len(r) + 1
      <4>1. Len(b) + j = Len(b) + Len(r) + 1
        BY <1>10, <2>2, <3>1
      <4>2. r2[j] = u
        BY <1>13, <3>1
      <4> QED BY <1>16, <1>24, <4>1, <4>2 DEF b
    <3>2. CASE j # Len(r) + 1
      <4>1. j \in 1 .. Len(r)
        BY <1>10, <1>13, <2>3, <3>2
      <4> QED BY <1>13, <2>1, <4>1 DEF b
    <3> QED BY <3>1, <3>2
  <2>4. Len(b) + Len(r2) = Len(s2) - Len(Job.cmd)
    <3>1. Len(b) \in Int /\ Len(r) \in Int /\ n \in Int /\ m \in Int
      BY <1>10, <2>2 DEF m
    <3>3. Len(b) + Len(r) = n - m
      BY <2>1 DEF m
    <3>2. Len(b) + (Len(r) + 1) = (n + 1) - m
      BY <3>1, <3>3
    <3> QED BY <1>11, <1>13, <3>2, Zenon DEF m
  <2>5. AnswerInv'
    BY <1>1, <1>6, <1>15, <1>21, <1>22, <1>24, <2>1, <2>3, <2>4 DEF AnswerInv, b
  <2> QED BY <1>5, <1>20, <2>5 DEF FlashInv
<1> QED BY <1>23, <1>24

-----------------------------------------------------------------------------
(* The cells of a call.                                                     *)

(* The geometry of the chip.                                                *)
LEMMA FlashGeometry ==
  /\ Cap \in Nat \ {0} /\ SectorSize \in Nat \ {0} /\ PageSize \in Nat \ {0}
BY FlashAssumption

(* A sum that does not wrap is itself.                                      *)
LEMMA NoCarry ==
  ASSUME NEW n \in Nat, n < AddrMod
  PROVE  n % AddrMod = n
<1>1. AddrMod \in Nat /\ AddrMod > 0
  BY FlashAssumption
<1> QED BY <1>1

(* Between calls and in a probe none may change, nor in a call that is      *)
(* refused.                                                                 *)
LEMMA NothingAsked ==
  ASSUME d.call \in AllCalls, d.call.op \notin {"erase", "write"} \/ Refused(d.call)
  PROVE  Abstract!Reach(d.call) = {}
<1>1. CASE d.call.op \notin {"erase", "write"}
  BY <1>1 DEF Abstract!Reach
<1>2. CASE Refused(d.call)
  <2>1. d.call.op = "erase" /\ ~Abstract!Legal(d.call)
    <3> DEFINE n == d.call.addr + d.call.len
    <3>1. /\ d.call.len \in Nat /\ d.call.addr \in Nat /\ Cap \in Nat /\ n \in Nat
          /\ AddrMod \in Nat /\ Cap < AddrMod
      BY FlashGeometry, FlashAssumption DEF AllCalls
    <3>2. n <= Cap => n % AddrMod = n
      BY <3>1, NoCarry
    <3>3. /\ d.call.op = "erase"
          /\ \/ n % AddrMod > Cap
             \/ d.call.addr % SectorSize # 0 \/ d.call.len % SectorSize # 0 \/ d.call.len = 0
      BY <1>2 DEF Refused
    <3>4. Abstract!Legal(d.call) =>
            /\ d.call.addr % SectorSize = 0 /\ d.call.len % SectorSize = 0
            /\ d.call.len > 0 /\ n <= Cap
      BY DEF Abstract!Legal
    <3> HIDE DEF n
    <3> QED BY <3>1, <3>2, <3>3, <3>4
  <2> QED BY <2>1 DEF Abstract!Reach
<1> QED BY <1>1, <1>2

(* The position a driver stands at is in its call.                          *)
LEMMA Position ==
  ASSUME DriverOk(d), CallInv, CallsFit, d.call # NoCall, Modifies, ~Refused(d.call)
  PROVE  /\ d.call.addr \in Nat /\ d.call.len \in Nat /\ d.pos \in Nat /\ d.pos < d.call.len
         /\ d.call.addr + d.call.len <= Cap /\ d.call.len >= 1
         /\ d.call.addr + d.pos \in Cells
         /\ d.call.op = "erase" => /\ d.pos % SectorSize = 0 /\ d.call.addr % SectorSize = 0
                                   /\ d.call.len % SectorSize = 0
         /\ d.call.op = "write" => d.pos % PageSize = 0
<1>1. d.call.addr \in Nat /\ d.call.len \in Nat /\ d.pos \in Nat
  BY FlashGeometry DEF DriverOk, AllCalls
<1>2. d.call \in Calls
  BY DEF CallInv, Modifies, Probe, NoCall
<1>3. CASE d.call.op = "erase"
  <2>1. /\ d.pos < d.call.len /\ d.call.addr + d.call.len <= Cap /\ d.call.len >= 1
        /\ d.pos % SectorSize = 0 /\ d.call.addr % SectorSize = 0 /\ d.call.len % SectorSize = 0
    <3> DEFINE n == d.call.addr + d.call.len
    <3>1. n \in Nat /\ n < AddrMod
      BY <1>1, <1>2, <1>3 DEF CallsFit, CallsInside
    <3>2. n % AddrMod = n
      BY <3>1, NoCarry
    <3>3. /\ d.pos < d.call.len /\ d.pos % SectorSize = 0
          /\ ~(n % AddrMod > Cap) /\ d.call.len # 0
          /\ d.call.addr % SectorSize = 0 /\ d.call.len % SectorSize = 0
      BY <1>3 DEF CallInv, Refused
    <3>4. n <= Cap /\ d.call.len >= 1
      <4> HIDE DEF n
      <4> QED BY <1>1, <3>1, <3>2, <3>3, FlashGeometry
    <3> QED BY <3>3, <3>4
  <2>2. d.call.addr + d.pos \in Cells
    BY <1>1, <2>1, FlashGeometry DEF Cells
  <2> QED BY <1>1, <1>3, <2>1, <2>2
<1>4. CASE d.call.op = "write"
  <2>1. /\ d.pos < d.call.len /\ d.call.addr + d.call.len <= Cap /\ d.call.len >= 1
        /\ d.pos % PageSize = 0
    BY <1>1, <1>2, <1>4 DEF CallInv, CallsFit, CallsInside
  <2>2. d.call.addr + d.pos \in Cells
    BY <1>1, <2>1, FlashGeometry DEF Cells
  <2> QED BY <1>1, <1>4, <2>1, <2>2
<1> QED BY <1>3, <1>4 DEF Modifies

(* It may change unless it is protected.                                    *)
LEMMA PositionAsked ==
  ASSUME DriverOk(d), CallInv, CallsFit, d.call # NoCall, Modifies, ~Refused(d.call),
         Sector(d.call.addr + d.pos) \notin chip.guard
  PROVE  d.call.addr + d.pos \in Abstract!Reach(d.call)
<1> DEFINE at == d.call.addr + d.pos
<1>1. /\ d.call.addr \in Nat /\ d.call.len \in Nat /\ d.pos \in Nat /\ d.pos < d.call.len
      /\ d.call.addr + d.call.len <= Cap /\ d.call.len >= 1 /\ at \in Cells
      /\ d.call.op = "erase" => d.call.addr % SectorSize = 0 /\ d.call.len % SectorSize = 0
  BY Position
<1>2. at \in Abstract!Extent(d.call)
  <2>1. d.call.addr <= at /\ at < d.call.addr + d.call.len
    BY <1>1
  <2> HIDE DEF at
  <2> QED BY <1>1, <2>1 DEF Abstract!Extent, Abstract!Cells, Cells
<1>3. Abstract!Sector(at) \notin chip.guard
  BY DEF Sector, Abstract!Sector
<1>4. d.call.op = "erase" => Abstract!Legal(d.call)
  BY <1>1 DEF Abstract!Legal
<1> HIDE DEF at
<1>5. at \in Abstract!Cells
  BY <1>1 DEF Cells, Abstract!Cells
<1>6. ASSUME d.call.op = "erase" PROVE at \in Abstract!Reach(d.call)
  BY <1>2, <1>3, <1>4, <1>5, <1>6 DEF Abstract!Reach
<1>7. ASSUME d.call.op = "write" PROVE at \in Abstract!Reach(d.call)
  BY <1>2, <1>3, <1>5, <1>7 DEF Abstract!Reach
<1>8. at \in Abstract!Reach(d.call)
  BY <1>6, <1>7 DEF Modifies
<1> QED BY <1>8 DEF at

-----------------------------------------------------------------------------
(* Calls begin and are refused, time passes.                                *)

(* After spi_init and sf_set_controller.                                    *)
LEMMA InitFlash == CallsFit /\ Init => FlashInv
<1> SUFFICES ASSUME CallsFit, Init PROVE FlashInv
  OBVIOUS
<1>1. IInv
  BY InitStep
<1>2. /\ d = IdleDriver(FALSE) /\ x = NoPacket /\ late = {}
  BY DEF Init
<1>3. /\ chip.doing = NothingDoing /\ chip.slow = FALSE /\ chip.cells \in [Cells -> {0, 1}]
  BY DEF Init, Cells
<1>4. d.call = NoCall /\ d.buf = <<>> /\ d.elapsed = FALSE /\ x.at = "none"
  BY <1>2 DEF IdleDriver, NoPacket
<1>5. chip.doing.op = "none" /\ ~Busy
  BY <1>3 DEF NothingDoing, Busy
<1>6. WireInv /\ AnswerInv /\ CallInv
  BY <1>4, LengthOfSeq DEF WireInv, AnswerInv, Reading, CallInv
<1>7. ChipInv
  <2>1. \A i \in Cells : Leaves(chip, i) = chip.cells[i]
    BY <1>5 DEF Leaves
  <2> QED BY <1>3, <1>5, <2>1 DEF ChipInv
<1>8. ~Modifies
  BY <1>4 DEF Modifies, NoCall
<1>9. CleanInv
  BY <1>4, <1>5, <1>8 DEF CleanInv, BusyInv, ElapsedInv, DoneInv
<1> QED BY <1>1, <1>6, <1>7, <1>9 DEF FlashInv

(* A call begins.                                                           *)
LEMMA StartKeeps ==
  ASSUME FlashInv, CallsFit, NEW c, c = Probe \/ c \in Calls, Start(c), IInv' PROVE FlashInv'
<1>1. /\ d.call = NoCall /\ x' = x /\ txFifo' = txFifo /\ rxFifo' = rxFifo /\ chip' = chip
      /\ late' = late
      /\ d' = [IdleDriver(d.probed) EXCEPT !.call = c, !.script = Script(c, chip.maker), !.pc = 1]
  BY DEF Start
<1>2. x.at = "none"
  BY <1>1 DEF FlashInv, IInv, PacketOk
<1>3. /\ d'.call = c /\ d'.script = Script(c, chip.maker) /\ d'.pc = 1 /\ d'.pos = 0
      /\ d'.buf = <<>> /\ d'.elapsed = FALSE
  BY <1>1 DEF IdleDriver
<1>4. /\ c \in AllCalls /\ c.op \in {"probe", "erase", "write", "read"}
      /\ c.op = "probe" => c = Probe
  <2>1. Probe \in AllCalls /\ Probe.op = "probe"
    BY FlashGeometry DEF Probe, NoCall, AllCalls
  <2> QED BY <2>1 DEF CallsFit, CallsWithin, AllCalls
<1>5. c.len \in Nat /\ c.addr \in Nat /\ c # NoCall
  BY <1>4, FlashGeometry DEF AllCalls, NoCall
<1>6. WireInv' /\ AnswerInv'
  BY <1>1, <1>2, <1>3, LengthOfSeq DEF WireInv, AnswerInv, Reading
<1>7. CallInv'
  <2>1. 0 % SectorSize = 0 /\ 0 % PageSize = 0
    BY FlashGeometry, MultipleOfItself
  <2>2. c.op = "write" => 0 < c.len
    <3>1. c.op = "write" => c # Probe
      BY DEF Probe, NoCall
    <3> QED BY <1>5, <3>1 DEF CallsFit, CallsInside
  <2>3. c.op = "erase" => Refused(c) \/ 0 < c.len
    BY <1>5 DEF Refused
  <2>4. Refused(d.call)' <=> Refused(c)
    BY <1>3 DEF Refused
  <2>5. ~(d'.pc > 6)
    BY <1>3
  <2> QED BY <1>1, <1>3, <2>1, <2>2, <2>3, <2>4, <2>5 DEF CallInv
<1>8. ChipInv'
  <2>1. Abstract!Reach(d.call) = {}
    <3>1. d.call \in AllCalls /\ d.call.op = "none"
      BY <1>1 DEF FlashInv, IInv, DriverOk, NoCall
    <3> QED BY <3>1, NothingAsked
  <2>2. \A i \in Cells : Leaves(chip, i) # chip.cells[i] => i \in late
    BY <2>1 DEF FlashInv, ChipInv, Asked
  <2>3. \A i : Leaves(chip, i)' = Leaves(chip, i)
    BY <1>1 DEF Leaves
  <2> QED BY <1>1, <2>2, <2>3 DEF FlashInv, ChipInv
<1>9. CleanInv'
  <2> SUFFICES ASSUME late = {} PROVE BusyInv' /\ ElapsedInv' /\ DoneInv'
    BY <1>1 DEF CleanInv
  <2>1. ~Busy
    BY <1>1 DEF FlashInv, CleanInv, BusyInv
  <2>2. ~Busy'
    BY <1>1, <2>1 DEF Busy
  <2>3. BusyInv' /\ ElapsedInv'
    BY <1>3, <2>2 DEF BusyInv, ElapsedInv
  <2>4. Modifies' => c.op \in {"erase", "write"}
    BY <1>3 DEF Modifies
  <2>5. c.op \in {"erase", "write"} => Step' = "wren"
    <3>1. c.op \in {"erase", "write"} => Script(c, chip.maker)[1] = "wren"
      BY DEF Script, EraseScript, WriteScript
    <3> QED BY <1>3, <3>1 DEF Step
  <2>6. DoneTo(d.pos)'
    <3>1. ASSUME NEW i \in Abstract!Extent(c) PROVE ~(i < c.addr + 0)
      <4>1. i \in Int /\ c.addr <= i
        BY <3>1, FlashGeometry DEF Abstract!Extent, Abstract!Cells
      <4> QED BY <1>5, <4>1
    <3> QED BY <1>3, <3>1 DEF DoneTo
  <2>7. DoneInv'
    BY <2>4, <2>5, <2>6 DEF DoneInv
  <2> QED BY <2>3, <2>7
<1> QED BY <1>6, <1>7, <1>8, <1>9 DEF FlashInv

(* A call is refused.                                                       *)
LEMMA RefuseKeeps ==
  ASSUME FlashInv, CallsFit, Refuse, IInv' PROVE FlashInv'
<1>1. /\ d.call # NoCall /\ Refused(d.call) /\ x' = x /\ txFifo' = txFifo /\ rxFifo' = rxFifo
      /\ chip' = chip /\ late' = late /\ d' = IdleDriver(d.probed)
  BY DEF Refuse
<1>2. x.at = "none"
  BY <1>1 DEF FlashInv, IInv, PacketOk
<1>3. d'.call = NoCall /\ d'.buf = <<>> /\ d'.elapsed = FALSE
  BY <1>1 DEF IdleDriver
<1>4. d.call \in AllCalls /\ DriverOk(d) /\ CallsWithin /\ CallInv
  BY DEF FlashInv, IInv, DriverOk, CallsFit
<1>5. WireInv' /\ AnswerInv' /\ CallInv'
  BY <1>1, <1>2, <1>3, LengthOfSeq DEF WireInv, AnswerInv, Reading, CallInv
<1>6. ChipInv'
  <2>1. Abstract!Reach(d.call) = {}
    BY <1>1, <1>4, NothingAsked
  <2>2. \A i \in Cells : Leaves(chip, i) # chip.cells[i] => i \in late
    BY <2>1 DEF FlashInv, ChipInv, Asked
  <2>3. \A i : Leaves(chip, i)' = Leaves(chip, i)
    BY <1>1 DEF Leaves
  <2> QED BY <1>1, <2>2, <2>3 DEF FlashInv, ChipInv
<1>7. CleanInv'
  <2> SUFFICES ASSUME late = {} PROVE BusyInv' /\ ElapsedInv' /\ DoneInv'
    BY <1>1 DEF CleanInv
  <2>1. Step = "wren"
    <3>1. d.pc = 1 /\ d.call.op = "erase"
      BY <1>1, <1>4 DEF CallInv, Refused
    <3> QED BY <1>1, <1>4, <3>1, StepPlaces DEF Step
  <2>2. ~Busy
    BY <2>1 DEF FlashInv, CleanInv, BusyInv
  <2>3. ~Busy' /\ ~Modifies'
    BY <1>1, <1>3, <2>2 DEF Busy, Modifies, NoCall
  <2> QED BY <1>3, <2>3 DEF BusyInv, ElapsedInv, DoneInv
<1> QED BY <1>5, <1>6, <1>7 DEF FlashInv

(* The time that the driver waits passes.                                   *)
LEMMA TimePassesKeeps ==
  ASSUME FlashInv, CallsFit, TimePasses, IInv' PROVE FlashInv'
<1>1. /\ chip.slow /\ d.call # NoCall /\ Step = "status"
      /\ d' = [d EXCEPT !.elapsed = TRUE]
      /\ x' = x /\ txFifo' = txFifo /\ rxFifo' = rxFifo /\ chip' = chip /\ late' = late
  BY DEF TimePasses, Step
<1>2. /\ d'.call = d.call /\ d'.script = d.script /\ d'.pc = d.pc /\ d'.pos = d.pos
      /\ d'.st = d.st /\ d'.st1 = d.st1 /\ d'.buf = d.buf /\ DriverOk(d) /\ CallInv
  BY <1>1 DEF FlashInv, IInv, DriverOk
<1>3. /\ Step' = Step /\ Job' = Job
      /\ PhaseLen("cmd")' = PhaseLen("cmd") /\ PhaseLen("data")' = PhaseLen("data")
  BY <1>1, <1>2, SameJob
<1>4. Refused(d.call)' <=> Refused(d.call)
  BY <1>2 DEF Refused
<1>5. Busy' <=> Busy
  BY <1>1 DEF Busy
<1>6. PhaseLen(x.phase)' = PhaseLen(x.phase)
  BY <1>1, <1>3 DEF PhaseLen
<1>7. WireInv'
  <2>1. Before' = Before /\ \A i : Wired(i)' = Wired(i)
    BY <1>1, <1>3 DEF Before, Wired
  <2> QED BY <1>1, <1>3, <1>6, <2>1 DEF FlashInv, WireInv
<1>8. AnswerInv'
  <2>1. Reading' <=> Reading
    BY <1>1, <1>3 DEF Reading
  <2>2. \A j, v : Told(j, v)' <=> Told(j, v)
    BY <1>1, <1>2, <1>3 DEF Told, Busy
  <2> QED BY <1>1, <1>2, <1>3, <2>1, <2>2 DEF FlashInv, AnswerInv
<1>9. CallInv'
  BY <1>1, <1>2, <1>4 DEF CallInv
<1> DEFINE reach == Abstract!Reach(d.call)
<1>10. reach' = reach
  BY <1>1, <1>2, ReachStays
<1>11. ChipInv'
  <2>1. \A i : Leaves(chip, i)' = Leaves(chip, i)
    BY <1>1 DEF Leaves
  <2>2. \A i, v : Asked(i, v)' <=> Asked(i, v)
    BY <1>2, <1>10 DEF Asked
  <2> QED BY <1>1, <2>1, <2>2 DEF FlashInv, ChipInv
<1>12. CleanInv'
  <2> SUFFICES ASSUME late = {} PROVE BusyInv' /\ ElapsedInv' /\ DoneInv'
    BY <1>1 DEF CleanInv
  <2>1. BusyInv /\ DoneInv
    BY DEF FlashInv, CleanInv
  <2>2. Operation' = Operation /\ (Modifies' <=> Modifies)
    BY <1>2 DEF Operation, Modifies
  <2>3. \A q : DoneTo(q)' <=> DoneTo(q)
    BY <1>1, <1>2, <1>10 DEF DoneTo, DoneCell
  <2>4. BusyInv'
    BY <1>1, <1>2, <1>3, <1>5, <2>1, <2>2 DEF BusyInv
  <2>5. DoneInv'
    BY <1>1, <1>2, <1>3, <1>4, <1>5, <2>1, <2>2, <2>3 DEF DoneInv
  <2>6. chip.doing.op \in {"erase", "program"}
    BY <1>1 DEF FlashInv, ChipInv
  <2>7. Modifies /\ Sector(d.call.addr + d.pos) \notin chip.guard
    BY <2>1, <2>6 DEF BusyInv, Busy
  <2>8. ~Refused(d.call)
    <3> SUFFICES ASSUME Refused(d.call) PROVE FALSE
      OBVIOUS
    <3>1. d.pc = 1 /\ d.call.op = "erase" /\ CallsWithin
      BY <1>1, <1>2 DEF CallInv, Refused, CallsFit
    <3>2. Step = "wren"
      BY <1>1, <1>2, <3>1, StepPlaces DEF Step
    <3> QED BY <1>1, <3>2
  <2>9. d.call.addr + d.pos \in reach
    BY <1>1, <1>2, <2>7, <2>8, PositionAsked
  <2>10. ElapsedInv'
    BY <1>10, <2>2, <2>7, <2>9 DEF ElapsedInv
  <2> QED BY <2>4, <2>5, <2>10
<1> QED BY <1>7, <1>8, <1>9, <1>11, <1>12 DEF FlashInv

-----------------------------------------------------------------------------
(* The chip finishes.                                                       *)

(* What it leaves.                                                          *)
LEMMA Finished ==
  ASSUME ChipOk(chip), ChipInv, ChipDone
  PROVE  /\ chip'.maker = chip.maker /\ chip'.sel = chip.sel /\ chip'.words = chip.words
         /\ chip'.doing.op = "none" /\ chip'.slow = FALSE /\ chip'.guard = chip.guard
         /\ chip'.cells \in [Cells -> {0, 1}]
         /\ \A i \in Cells : chip'.cells[i] = Leaves(chip, i)
<1> DEFINE new == CASE chip.doing.op = "erase" ->
                        [i \in DOMAIN chip.cells |->
                           IF Sector(i) = Sector(chip.doing.at) THEN 1 ELSE chip.cells[i]]
                   [] chip.doing.op = "program" ->
                        [i \in DOMAIN chip.cells |->
                           LET page == chip.doing.at \div PageSize
                               k == ((i - chip.doing.at) % PageSize) + 1
                           IN IF i \div PageSize = page /\ k <= Len(chip.doing.ws)
                              THEN chip.cells[i] * chip.doing.ws[k] ELSE chip.cells[i]]
                   [] OTHER -> chip.cells
           g == IF chip.doing.op = "wrst" /\ chip.doing.ws[1] = 0 THEN {} ELSE chip.guard
           s == IF chip.doing.op = "wrst" /\ Len(chip.doing.ws) = 2 THEN chip.doing.ws[2]
                ELSE chip.st1
<1>1. chip' = [chip EXCEPT !.wel = FALSE, !.doing = NothingDoing, !.slow = FALSE, !.st1 = s,
                           !.guard = g, !.cells = new]
  BY DEF ChipDone
<1>2. g = chip.guard
  BY DEF ChipInv
<1>3. DOMAIN chip.cells = Cells
  BY DEF ChipInv
<1>4. \A i \in Cells : new[i] = Leaves(chip, i)
  BY <1>3 DEF Leaves, ChipInv
<1>5. new \in [Cells -> {0, 1}]
  <2>1. DOMAIN new = Cells /\ new = [i \in Cells |-> new[i]]
    BY <1>3 DEF ChipInv
  <2>2. \A i \in Cells : new[i] \in {0, 1}
    BY <1>4 DEF ChipInv
  <2> HIDE DEF new
  <2> QED BY <2>1, <2>2
<1> HIDE DEF new, g, s
<1>6. /\ chip'.maker = chip.maker /\ chip'.sel = chip.sel /\ chip'.words = chip.words
      /\ chip'.doing = NothingDoing /\ chip'.slow = FALSE /\ chip'.guard = g /\ chip'.cells = new
  BY <1>1 DEF ChipOk
<1> QED BY <1>2, <1>4, <1>5, <1>6 DEF NothingDoing

(* Data are bits.                                                           *)
LEMMA DataBit ==
  ASSUME NEW c, NEW k \in Int PROVE Data(c, k) \in {0, 1}
<1>1. k % 2 \in {0, 1}
  OBVIOUS
<1> QED BY <1>1 DEF Data

(* A program operation clears bits only.                                    *)
LEMMA DoneStays ==
  ASSUME DriverOk(d), ChipInv, BusyInv, Busy, late = {}, Modifies, NEW i \in Cells, DoneCell(i)
  PROVE  IF d.call.op = "erase" THEN Leaves(chip, i) = 1
         ELSE Abstract!Aligned(d.call) => Leaves(chip, i) <= Data(d.call, i - d.call.addr)
<1>1. chip.doing = Operation
  BY DEF BusyInv, Modifies
<1>2. CASE d.call.op = "erase"
  <2>1. chip.doing.op = "erase"
    BY <1>1, <1>2 DEF Operation
  <2> QED BY <1>2, <2>1 DEF Leaves, DoneCell
<1>3. CASE d.call.op = "write"
  <2>1. CASE Leaves(chip, i) = chip.cells[i]
    BY <1>3, <2>1 DEF DoneCell
  <2>2. CASE Leaves(chip, i) # chip.cells[i]
    <3>1. Abstract!MayLeave(d.call, i, Leaves(chip, i))
      BY <2>2 DEF ChipInv, Asked
    <3>2. Leaves(chip, i) = 0
      BY <1>3, <3>1 DEF Abstract!MayLeave
    <3>3. Data(d.call, i - d.call.addr) >= 0
      <4>1. i - d.call.addr \in Int
        BY FlashGeometry DEF DriverOk, AllCalls, Cells
      <4>2. Data(d.call, i - d.call.addr) \in {0, 1}
        BY <4>1, DataBit
      <4> QED BY <4>2
    <3> QED BY <1>3, <3>2, <3>3
  <2> QED BY <2>1, <2>2
<1> QED BY <1>2, <1>3 DEF Modifies

(* The cells between two positions of the script.                           *)
LEMMA Between ==
  ASSUME DriverOk(d), CallInv, CallsFit, d.call # NoCall, Modifies, ~Refused(d.call),
         NEW i \in Abstract!Extent(d.call), ~(i < d.call.addr + d.pos),
         i < d.call.addr + (d.pos + Chunk(d.call, d.pos)), NEW at, at = d.call.addr + d.pos
  PROVE  /\ i \in Cells /\ at \in Int
         /\ d.call.op = "erase" => Sector(i) = Sector(at)
         /\ d.call.op = "write" /\ Abstract!Aligned(d.call) =>
              /\ i \div PageSize = at \div PageSize
              /\ (i - at) % PageSize = i - at
              /\ (i - at) + 1 \in 1 .. Chunk(d.call, d.pos)
              /\ d.pos + ((i - at) + 1) - 1 = i - d.call.addr
<1>1. /\ d.call.addr \in Nat /\ d.call.len \in Nat /\ d.pos \in Nat /\ d.pos < d.call.len
      /\ d.call.op = "erase" => d.pos % SectorSize = 0 /\ d.call.addr % SectorSize = 0
      /\ d.call.op = "write" => d.pos % PageSize = 0
  BY Position
<1>2. i \in Cells /\ i \in Int /\ at \in Int /\ at <= i
  BY <1>1, FlashGeometry DEF Abstract!Extent, Abstract!Cells, Cells
<1> DEFINE n == Chunk(d.call, d.pos)
<1>3. n \in Nat /\ i < at + n
  <2>1. n \in Nat
    BY ChunkNat
  <2> QED BY <1>1, <1>2, <2>1
<1>4. ASSUME d.call.op = "erase" PROVE Sector(i) = Sector(at)
  <2>1. n = SectorSize
    BY <1>4 DEF Chunk
  <2>2. at % SectorSize = 0
    BY <1>1, <1>4, FlashGeometry, MultiplesAdd
  <2>3. /\ at \in Int /\ i \in Int /\ SectorSize \in Nat \ {0}
        /\ at <= i /\ i < at + SectorSize
    BY <1>2, <1>3, <2>1, FlashGeometry
  <2>4. i \div SectorSize = at \div SectorSize
    BY <2>2, <2>3, SameQuotient, ZenonT(60)
  <2> QED BY <2>4 DEF Sector
<1>5. ASSUME d.call.op = "write", Abstract!Aligned(d.call)
      PROVE  /\ i \div PageSize = at \div PageSize
             /\ (i - at) % PageSize = i - at
             /\ (i - at) + 1 \in 1 .. n
             /\ d.pos + ((i - at) + 1) - 1 = i - d.call.addr
  <2>1. n = Least(d.call.len - d.pos, PageSize)
    BY <1>5 DEF Chunk
  <2>2. n <= PageSize
    BY <1>1, <2>1, FlashGeometry DEF Least
  <2>3. at % PageSize = 0
    BY <1>1, <1>5, FlashGeometry, MultiplesAdd DEF Abstract!Aligned
  <2> HIDE DEF n
  <2>4. i < at + PageSize
    BY <1>2, <1>3, <2>2, FlashGeometry
  <2>5. /\ i \div PageSize = at \div PageSize
        /\ (i - at) % PageSize = i - at
    <3>1. /\ at \in Int /\ i \in Int /\ PageSize \in Nat \ {0}
          /\ at % PageSize = 0 /\ at <= i /\ i < at + PageSize
      BY <1>2, <2>3, <2>4, FlashGeometry
    <3> QED BY <3>1, SameQuotient, ZenonT(60)
  <2>6. (i - at) + 1 \in 1 .. n
    BY <1>2, <1>3
  <2>7. d.pos + ((i - at) + 1) - 1 = i - d.call.addr
    BY <1>1, <1>2
  <2> QED BY <2>5, <2>6, <2>7
<1> QED BY <1>2, <1>4, <1>5

(* What the operation leaves of the sector or page it is for.               *)
LEMMA DoneNow ==
  ASSUME DriverOk(d), CallInv, CallsFit, ChipInv, d.call # NoCall, Modifies, ~Refused(d.call),
         BusyInv, Busy, NEW i \in Abstract!Extent(d.call), ~(i < d.call.addr + d.pos),
         i < d.call.addr + (d.pos + Chunk(d.call, d.pos))
  PROVE  IF d.call.op = "erase" THEN Leaves(chip, i) = 1
         ELSE Abstract!Aligned(d.call) => Leaves(chip, i) <= Data(d.call, i - d.call.addr)
<1> DEFINE at == d.call.addr + d.pos
           n == Chunk(d.call, d.pos)
<1>1. chip.doing = Operation
  BY DEF BusyInv, Modifies
<1>2. /\ i \in Cells /\ at \in Int
      /\ d.call.op = "erase" => Sector(i) = Sector(at)
      /\ d.call.op = "write" /\ Abstract!Aligned(d.call) =>
            /\ i \div PageSize = at \div PageSize
            /\ (i - at) % PageSize = i - at
            /\ (i - at) + 1 \in 1 .. n
            /\ d.pos + ((i - at) + 1) - 1 = i - d.call.addr
  BY Between
<1>3. CASE d.call.op = "erase"
  <2>1. chip.doing.op = "erase" /\ chip.doing.at = at
    BY <1>1, <1>3 DEF Operation
  <2> QED BY <1>2, <1>3, <2>1 DEF Leaves
<1>4. CASE d.call.op = "write"
  <2> SUFFICES ASSUME Abstract!Aligned(d.call)
               PROVE  Leaves(chip, i) <= Data(d.call, i - d.call.addr)
    BY <1>4
  <2> DEFINE ws == [j \in 1 .. n |-> Data(d.call, d.pos + j - 1)]
             k == (i - at) + 1
  <2>1. chip.doing.op = "program" /\ chip.doing.at = at /\ chip.doing.ws = ws
    BY <1>1, <1>4 DEF Operation
  <2>2. n \in Nat /\ Len(ws) = n
    <3>1. n \in Nat
      BY ChunkNat
    <3> HIDE DEF n
    <3> QED BY <3>1
  <2>3. k \in 1 .. n /\ ws[k] = Data(d.call, i - d.call.addr)
    BY <1>2, <1>4
  <2>4. k <= Len(ws)
    BY <2>2, <2>3
  <2> HIDE DEF ws
  <2>5. Leaves(chip, i) = chip.cells[i] * ws[k]
    BY <1>2, <1>4, <2>1, <2>4 DEF Leaves
  <2>6. chip.cells[i] \in {0, 1}
    BY <1>2 DEF ChipInv
  <2>7. ws[k] \in {0, 1}
    <3>1. i - d.call.addr \in Int
      BY <1>2, FlashGeometry DEF DriverOk, AllCalls, Cells
    <3> QED BY <2>3, <3>1, DataBit
  <2>8. Leaves(chip, i) <= ws[k]
    BY <2>5, <2>6, <2>7
  <2> QED BY <2>3, <2>8
<1> QED BY <1>3, <1>4 DEF Modifies

(* The operation of the chip ends.                                          *)
LEMMA ChipDoneKeeps ==
  ASSUME FlashInv, CallsFit, ChipDone, IInv' PROVE FlashInv'
<1>1. /\ Busy /\ d' = d /\ x' = x /\ txFifo' = txFifo /\ rxFifo' = rxFifo /\ late' = late
  BY DEF ChipDone
<1>2. /\ chip'.maker = chip.maker /\ chip'.sel = chip.sel /\ chip'.words = chip.words
      /\ chip'.doing.op = "none" /\ chip'.slow = FALSE /\ chip'.guard = chip.guard
      /\ chip'.cells \in [Cells -> {0, 1}]
      /\ \A i \in Cells : chip'.cells[i] = Leaves(chip, i)
  BY Finished DEF FlashInv, IInv
<1>3. ~Busy'
  BY <1>2 DEF Busy
<1>4. Step' = Step /\ Job' = Job
  BY <1>1, <1>2, SameJob
<1>5. PhaseLen(x.phase)' = PhaseLen(x.phase)
  BY <1>1, <1>4 DEF PhaseLen
<1>6. WireInv'
  <2>1. Before' = Before /\ \A i : Wired(i)' = Wired(i)
    BY <1>1, <1>4 DEF Before, Wired
  <2> QED BY <1>1, <1>2, <1>4, <1>5, <2>1 DEF FlashInv, WireInv
<1>7. AnswerInv'
  <2>1. Reading' <=> Reading
    BY <1>1, <1>4 DEF Reading
  <2>2. late = {} => Step # "read"
    BY <1>1 DEF FlashInv, CleanInv, BusyInv
  <2>3. \A j, v : Told(j, v) => Told(j, v)'
    BY <1>1, <1>2, <1>3, <1>4, <2>2 DEF Told
  <2> QED BY <1>1, <1>2, <1>4, <2>1, <2>3 DEF FlashInv, AnswerInv
<1>8. Refused(d.call)' <=> Refused(d.call)
  BY <1>1 DEF Refused
<1>9. CallInv'
  BY <1>1, <1>2, <1>8 DEF FlashInv, CallInv
<1>10. ChipInv'
  <2>1. \A i : Leaves(chip, i)' = chip'.cells[i]
    BY <1>2 DEF Leaves
  <2> QED BY <1>2, <2>1 DEF ChipInv
<1>11. CleanInv'
  <2> SUFFICES ASSUME late = {} PROVE BusyInv' /\ ElapsedInv' /\ DoneInv'
    BY <1>1 DEF CleanInv
  <2> DEFINE reach == Abstract!Reach(d.call)
             n == Chunk(d.call, d.pos)
  <2>1. reach' = reach
    BY <1>1, <1>2, ReachStays
  <2>2. BusyInv /\ ElapsedInv /\ DoneInv /\ ChipInv /\ CallInv /\ DriverOk(d)
    BY DEF FlashInv, CleanInv, IInv
  <2>3. BusyInv' /\ ElapsedInv'
    BY <1>1, <1>3, <2>1, <2>2 DEF BusyInv, ElapsedInv, Modifies
  <2>4. d.call # NoCall /\ Step = "status"
    BY <1>1, <2>2 DEF BusyInv
  <2>5. ASSUME Modifies, ~Refused(d.call) PROVE DoneTo(d.pos)' /\ DoneTo(d.pos + n)'
    <3>1. DoneTo(d.pos)
      BY <2>2, <2>5 DEF DoneInv
    <3>2. \A i \in Cells : DoneCell(i)' <=>
             IF d.call.op = "erase" THEN Leaves(chip, i) = 1
             ELSE Abstract!Aligned(d.call) => Leaves(chip, i) <= Data(d.call, i - d.call.addr)
      BY <1>1, <1>2 DEF DoneCell
    <3>3. ASSUME NEW i \in reach \cap Abstract!Extent(d.call), i < d.call.addr + d.pos
          PROVE  i \in Cells /\ DoneCell(i)'
      <4>1. i \in Cells /\ DoneCell(i)
        BY <3>1, <3>3 DEF DoneTo, Abstract!Extent, Abstract!Cells, Cells
      <4> QED BY <1>1, <2>2, <2>5, <3>2, <4>1, DoneStays
    <3>4. ASSUME NEW i \in reach \cap Abstract!Extent(d.call), i < d.call.addr + (d.pos + n)
          PROVE  DoneCell(i)'
      <4>1. CASE i < d.call.addr + d.pos
        BY <3>3, <4>1
      <4>2. CASE ~(i < d.call.addr + d.pos)
        <5>1. i \in Cells
          BY DEF Abstract!Extent, Abstract!Cells, Cells
        <5> QED BY <1>1, <2>2, <2>4, <2>5, <3>2, <3>4, <4>2, <5>1, DoneNow
      <4> QED BY <4>1, <4>2
    <3>5. DoneTo(d.pos)'
      BY <1>1, <2>1, <3>3 DEF DoneTo
    <3>6. DoneTo(d.pos + n)'
      BY <1>1, <2>1, <3>4 DEF DoneTo
    <3> QED BY <3>5, <3>6
  <2>6. DoneInv'
    BY <1>1, <1>4, <1>8, <2>4, <2>5 DEF DoneInv, Modifies
  <2> QED BY <2>3, <2>6
<1> QED BY <1>6, <1>7, <1>9, <1>10, <1>11 DEF FlashInv

-----------------------------------------------------------------------------
(* The end of an exchange.                                                  *)

(* The last packet of the last phase is over.                               *)
ExchangeOver ==
  /\ x.at = "end" /\ x.base + x.len = PhaseLen(x.phase)
  /\ x.phase = "data" \/ (Job.in = 0 /\ Job.out = <<>>)

(* The chip has every word of it, the driver every answer.                  *)
LEMMA AllSent ==
  ASSUME FlashInv, ExchangeOver
  PROVE  /\ d.call # NoCall /\ ~Refused(d.call) /\ DriverOk(d)
         /\ IsSeq(chip.words) /\ \A i \in 1 .. Len(chip.words) : chip.words[i] = Wired(i)
         /\ Len(chip.words) = Len(Job.cmd) + (IF Job.in > 0 THEN Job.in ELSE Len(Job.out))
         /\ Job.in > 0 => /\ Len(d.buf) = Job.in /\ IsSeq(d.buf)
                          /\ \A j \in 1 .. Job.in : Told(j, d.buf[j])
<1>1. /\ x.at = "end" /\ x.phase \in {"cmd", "data"} /\ x.base \in Nat /\ x.len \in Nat
      /\ x.tx = x.len /\ d.call # NoCall /\ ~Refused(d.call) /\ DriverOk(d)
  BY PacketFields DEF ExchangeOver, FlashInv
<1>2. /\ Len(Job.cmd) \in Nat /\ Job.in \in Nat /\ PhaseLen("cmd") = Len(Job.cmd)
      /\ IsSeq(Job.out) /\ Len(Job.out) \in Nat
      /\ Job.in > 0 => PhaseLen("data") = Job.in
      /\ Job.in = 0 => PhaseLen("data") = Len(Job.out)
  BY <1>1, Jobs, LengthOfSeq
<1>3. txFifo = <<>> /\ rxFifo = <<>>
  BY <1>1, EndEmpty DEF FlashInv
<1>4. /\ IsSeq(chip.words) /\ \A i \in 1 .. Len(chip.words) : chip.words[i] = Wired(i)
      /\ Len(chip.words) + Len(txFifo) = Before + x.base + x.tx
      /\ x.phase = "data" => Job.in > 0 \/ Job.out # <<>>
  BY <1>1 DEF FlashInv, WireInv
<1>5. Len(txFifo) = 0 /\ Len(rxFifo) = 0 /\ Len(chip.words) \in Nat
  BY <1>3, <1>4, LengthOfSeq
<1> DEFINE n == Len(chip.words)
           m == Len(Job.cmd)
           k == IF Job.in > 0 THEN Job.in ELSE Len(Job.out)
<1>6. n = m + k
  <2>1. CASE x.phase = "cmd"
    <3>1. Before = 0 /\ x.base + x.len = m /\ Job.in = 0 /\ Job.out = <<>>
      BY <1>2, <2>1 DEF Before, ExchangeOver
    <3>2. k = 0
      BY <3>1, LengthOfSeq
    <3>3. n + 0 = 0 + x.base + x.len
      BY <1>1, <1>4, <1>5, <3>1
    <3> HIDE DEF n, m, k
    <3> QED BY <1>1, <1>5, <3>1, <3>2, <3>3 DEF n
  <2>2. CASE x.phase = "data"
    <3>1. Before = m /\ x.base + x.len = k
      <4>1. x.base + x.len = PhaseLen("data")
        BY <2>2 DEF ExchangeOver
      <4> QED BY <1>2, <2>2, <4>1 DEF Before
    <3>2. n + 0 = m + x.base + x.len
      BY <1>1, <1>4, <1>5, <3>1
    <3>3. m \in Nat
      BY <1>2
    <3> HIDE DEF n, m, k
    <3> QED BY <1>1, <1>5, <3>1, <3>2, <3>3 DEF n
  <2> QED BY <1>1, <2>1, <2>2
<1>7. ASSUME Job.in > 0
      PROVE  Len(d.buf) = Job.in /\ IsSeq(d.buf) /\ \A j \in 1 .. Job.in : Told(j, d.buf[j])
  <2>1. Reading
    BY <1>1, <1>7 DEF Reading, ExchangeOver
  <2>2. /\ IsSeq(d.buf) /\ Len(d.buf) + Len(rxFifo) = n - m
        /\ \A j \in 1 .. Len(d.buf) : Told(j, d.buf[j])
    BY <2>1 DEF FlashInv, AnswerInv
  <2>3. Len(d.buf) = Job.in
    <3>1. k = Job.in /\ Len(d.buf) \in Nat
      BY <1>7, <2>2, LengthOfSeq
    <3> QED BY <1>2, <1>5, <1>6, <2>2, <3>1
  <2> QED BY <2>2, <2>3
<1> QED BY <1>1, <1>4, <1>6, <1>7

(* What the end of chip select starts.                                      *)
LEMMA CommandDoes ==
  ASSUME FlashInv, CallsFit, ExchangeOver, NEW e, e = Command
  PROVE  /\ e.maker = chip.maker /\ e.cells = chip.cells /\ e.guard = chip.guard
         /\ e.slow = chip.slow
         /\ Busy => e.doing = chip.doing
         /\ Step \notin {"erase", "program", "wrst"} => e.doing = chip.doing
         /\ Step = "wrst" => \/ e.doing = chip.doing
                             \/ e.doing.op = "wrst" /\ e.doing.ws[1] = d.st
         /\ Step \in {"erase", "program"} /\ ~Busy =>
              \/ e.doing = chip.doing
                   /\ (chip.wel => Modifies /\ Sector(d.call.addr + d.pos) \in chip.guard)
              \/ e.doing = Operation /\ Modifies /\ Sector(d.call.addr + d.pos) \notin chip.guard
         /\ Step = "wren" /\ ~Busy => e.wel
<1> DEFINE ws == chip.words
           op == ws[1]
           at == d.call.addr + d.pos
           n == Chunk(d.call, d.pos)
           go == [op |-> CASE op = 32 -> "erase" [] op = 2 -> "program" [] op = 1 -> "wrst",
                  at |-> IF op = 1 THEN 0 ELSE ws[2] % Cap,
                  ws |-> SubSeq(ws, IF op = 1 THEN 2 ELSE 3, Len(ws))]
<1>1. ChipOk(chip)
  BY DEF FlashInv, IInv
<1>2. /\ Busy => e = chip
      /\ ~Busy /\ op = 6 => e = [chip EXCEPT !.wel = TRUE]
      /\ ~Busy /\ op = 153 => e = [chip EXCEPT !.wel = FALSE]
      /\ ~Busy /\ op \in {1, 2, 32} /\ chip.wel =>
           e = IF op # 1 /\ Sector(ws[2] % Cap) \in chip.guard
               THEN [chip EXCEPT !.wel = FALSE] ELSE [chip EXCEPT !.doing = go]
      /\ ~Busy /\ ~(op \in {6, 153}) /\ ~(op \in {1, 2, 32} /\ chip.wel) => e = chip
  <2> DEFINE p == IF op # 1 /\ Sector(ws[2] % Cap) \in chip.guard
                  THEN [chip EXCEPT !.wel = FALSE] ELSE [chip EXCEPT !.doing = go]
             on == [chip EXCEPT !.wel = TRUE]
             off == [chip EXCEPT !.wel = FALSE]
  <2>1. e = CASE Busy -> chip
              [] ~Busy /\ op = 6 -> on
              [] ~Busy /\ op = 153 -> off
              [] ~Busy /\ op \in {1, 2, 32} /\ chip.wel -> p
              [] OTHER -> chip
    BY DEF Command
  <2> HIDE DEF p, on, off, op, ws, go
  <2>2. op = 6 => op # 153 /\ op \notin {1, 2, 32}
    OBVIOUS
  <2>3. op = 153 => op \notin {1, 2, 32}
    OBVIOUS
  <2>4. /\ Busy => e = chip
        /\ ~Busy /\ op = 6 => e = on
        /\ ~Busy /\ op = 153 => e = off
        /\ ~Busy /\ op \in {1, 2, 32} /\ chip.wel => e = p
        /\ ~Busy /\ ~(op \in {6, 153}) /\ ~(op \in {1, 2, 32} /\ chip.wel) => e = chip
    BY <2>1, <2>2, <2>3
  <2> QED BY <2>4 DEF p, on, off, op, ws
<1>3. /\ d.call # NoCall /\ ~Refused(d.call) /\ DriverOk(d)
      /\ IsSeq(ws) /\ \A i \in 1 .. Len(ws) : ws[i] = Wired(i)
      /\ Len(ws) = Len(Job.cmd) + (IF Job.in > 0 THEN Job.in ELSE Len(Job.out))
  BY AllSent
<1>4. /\ Len(Job.cmd) \in Nat /\ Len(Job.cmd) >= 1 /\ Job.in \in Nat /\ Len(Job.out) \in Nat
      /\ Len(ws) \in Nat
  BY <1>3, Jobs, LengthOfSeq
<1>5. \A i \in 1 .. Len(Job.cmd) : ws[i] = Job.cmd[i] /\ i \in 1 .. Len(ws)
  <2> TAKE i \in 1 .. Len(Job.cmd)
  <2>1. i \in 1 .. Len(ws) /\ i <= Len(Job.cmd)
    BY <1>3, <1>4
  <2> QED BY <1>3, <2>1 DEF Wired
<1>6. op = Job.cmd[1]
  BY <1>4, <1>5
<1>7. DOMAIN chip = {"maker", "cells", "guard", "st1", "wel", "sel", "words", "doing", "slow"}
  BY <1>1 DEF ChipOk
<1> HIDE DEF ws, go
<1>8. /\ e.maker = chip.maker /\ e.cells = chip.cells /\ e.guard = chip.guard
      /\ e.slow = chip.slow /\ (Busy => e.doing = chip.doing)
      /\ ~Busy /\ op = 6 => e.wel
      /\ op \notin {1, 2, 32} => e.doing = chip.doing
      /\ ~(~Busy /\ chip.wel) => e.doing = chip.doing
      /\ ~Busy /\ chip.wel /\ op \in {2, 32} =>
           e.doing = IF Sector(ws[2] % Cap) \in chip.guard THEN chip.doing ELSE go
      /\ ~Busy /\ chip.wel /\ op = 1 => e.doing = go
  BY <1>2, <1>7
<1>9. Step \notin {"erase", "program", "wrst"} => e.doing = chip.doing
  BY <1>3, <1>6, <1>8, Jobs
<1>10. Step = "wren" /\ ~Busy => e.wel
  <2>1. Step = "wren" => Job.cmd[1] = 6
    BY <1>3, Jobs
  <2> QED BY <1>6, <1>8, <2>1
<1>11. ASSUME Step = "wrst"
       PROVE  e.doing = chip.doing \/ (e.doing.op = "wrst" /\ e.doing.ws[1] = d.st)
  <2>1. op = 1 /\ Len(Job.cmd) >= 2 /\ Job.cmd[2] = d.st
    BY <1>3, <1>6, <1>11, Jobs
  <2>2. ws[2] = d.st /\ Len(ws) >= 2
    BY <1>4, <1>5, <2>1
  <2>3. go.op = "wrst" /\ go.ws = SubSeq(ws, 2, Len(ws))
    BY <2>1 DEF go
  <2>4. SubSeq(ws, 2, Len(ws))[1] = ws[2]
    <3>1. ws \in Seq({ws[i] : i \in DOMAIN ws})
      BY <1>3 DEF IsSeq
    <3> QED BY <1>4, <2>2, <3>1
  <2> QED BY <1>8, <2>1, <2>2, <2>3, <2>4
<1>12. ASSUME Step \in {"erase", "program"}, ~Busy
       PROVE  \/ e.doing = chip.doing
                   /\ (chip.wel => Modifies /\ Sector(at) \in chip.guard)
              \/ e.doing = Operation /\ Modifies /\ Sector(at) \notin chip.guard
  <2>1. /\ Step = "erase" => d.call.op = "erase"
        /\ Step = "program" => d.call.op = "write"
    <3>1. CallsWithin /\ CallInv
      BY DEF CallsFit, FlashInv
    <3>2. d.pc \in 1 .. 3 \/ d.call.op \in {"probe", "read"}
      BY <1>3, <3>1, StepPlaces
    <3> QED BY <1>3, <1>12, <3>1, <3>2, StepPlaces DEF Step
  <2>2. Modifies
    BY <1>12, <2>1 DEF Modifies
  <2>3. at \in Cells /\ at \in Int
    <3>1. at \in Cells
      BY <1>3, <2>2, Position DEF FlashInv
    <3> QED BY <3>1, FlashGeometry DEF Cells
  <2>4. /\ Job.cmd[2] = at /\ Len(Job.cmd) = 2 /\ op \in {2, 32} /\ Job.in = 0
        /\ Step = "erase" => op = 32 /\ Job.out = <<>>
        /\ Step = "program" => op = 2 /\ Job.out = [i \in 1 .. n |-> Data(d.call, d.pos + i - 1)]
    <3>1. Step = "erase" => Job.cmd = <<32, at>> /\ Job.in = 0 /\ Job.out = <<>>
      BY <1>3, Jobs
    <3>2. Step = "program" => /\ Job.cmd = <<2, at>> /\ Job.in = 0
                              /\ Job.out = [i \in 1 .. n |-> Data(d.call, d.pos + i - 1)]
      BY <1>3, Jobs
    <3>3. <<32, at>>[1] = 32 /\ <<32, at>>[2] = at /\ Len(<<32, at>>) = 2
          /\ <<2, at>>[1] = 2 /\ <<2, at>>[2] = at /\ Len(<<2, at>>) = 2
      OBVIOUS
    <3> HIDE DEF at, n
    <3> QED BY <1>6, <1>12, <3>1, <3>2, <3>3
  <2>5. ws[2] = at
    BY <1>5, <2>4
  <2>6. at % Cap = at
    <3> HIDE DEF at
    <3>1. at = Cap * 0 + at /\ at \in 0 .. Cap - 1
      BY <2>3, FlashGeometry DEF Cells
    <3> QED BY <2>3, <3>1, FlashGeometry, Quotient
  <2>7. ws[2] % Cap = at
    BY <2>5, <2>6
  <2>8. CASE ~chip.wel
    BY <1>8, <2>8
  <2>9. CASE chip.wel /\ Sector(at) \in chip.guard
    BY <1>8, <1>12, <2>2, <2>4, <2>7, <2>9
  <2>10. CASE chip.wel /\ Sector(at) \notin chip.guard
    <3>1. e.doing = go
      BY <1>8, <1>12, <2>4, <2>7, <2>10
    <3> DEFINE sub == SubSeq(ws, 3, Len(ws))
    <3>2. go = [op |-> IF op = 32 THEN "erase" ELSE "program", at |-> at, ws |-> sub]
      <4> HIDE DEF op, at, sub
      <4>1. op # 1 /\ (op = 32 \/ (op # 32 /\ op = 2))
        BY <2>4
      <4>2. go = [op |-> CASE op = 32 -> "erase" [] op = 2 -> "program" [] op = 1 -> "wrst",
                  at |-> ws[2] % Cap, ws |-> sub]
        BY <4>1 DEF go, sub
      <4>3. (CASE op = 32 -> "erase" [] op = 2 -> "program" [] op = 1 -> "wrst")
              = IF op = 32 THEN "erase" ELSE "program"
        BY <4>1
      <4> QED BY <2>7, <4>2, <4>3
    <3>3. ws \in Seq({ws[i] : i \in DOMAIN ws})
      BY <1>3 DEF IsSeq
    <3>4. CASE Step = "erase"
      <4>1. Len(ws) = 2
        <5>1. Len(Job.out) = 0
          BY <2>4, <3>4, LengthOfSeq
        <5> QED BY <1>3, <2>4, <5>1
      <4>2. sub = <<>>
        BY <3>3, <4>1
      <4>3. go = Operation
        BY <2>1, <2>4, <3>2, <3>4, <4>2 DEF Operation
      <4> QED BY <2>2, <2>10, <3>1, <4>3
    <3>5. CASE Step = "program"
      <4> DEFINE out == [i \in 1 .. n |-> Data(d.call, d.pos + i - 1)]
      <4>1. n \in Nat /\ Job.out = out
        BY <1>3, <2>4, <3>5, ChunkNat
      <4>2. Len(out) = n
        <5> HIDE DEF n
        <5> QED BY <4>1
      <4>3. Len(ws) = 2 + n
        BY <1>3, <2>4, <4>1, <4>2
      <4>4. \A i \in 1 .. n : ws[2 + i] = out[i]
        <5> HIDE DEF n, out
        <5> TAKE i \in 1 .. n
        <5>1. 2 + i \in 1 .. Len(ws) /\ ~(2 + i <= 2) /\ (2 + i) - 2 = i
          BY <4>1, <4>3
        <5>2. out # <<>>
          BY <4>1, <4>2, LengthOfSeq
        <5>3. Wired(2 + i) = out[(2 + i) - 2]
          BY <2>4, <4>1, <5>1, <5>2 DEF Wired
        <5> QED BY <1>3, <5>1, <5>3
      <4>5. sub = out
        <5>1. sub = [i \in 1 .. n |-> ws[2 + i]]
          <6> HIDE DEF n
          <6>1. /\ sub \in Seq({ws[i] : i \in DOMAIN ws}) /\ Len(sub) = n
                /\ \A i \in 1 .. n : sub[i] = ws[2 + i]
            BY <3>3, <4>1, <4>3
          <6> HIDE DEF sub
          <6> QED BY <6>1, LenProperties
        <5> HIDE DEF sub, n
        <5> QED BY <4>4, <5>1
      <4>6. Operation = [op |-> "program", at |-> at, ws |-> out]
        BY <2>1, <3>5 DEF Operation
      <4>7. go = [op |-> "program", at |-> at, ws |-> sub]
        <5>1. op # 32
          BY <2>4, <3>5
        <5> HIDE DEF op, at, sub
        <5> QED BY <3>2, <5>1
      <4> HIDE DEF sub, out
      <4>8. go = Operation
        BY <4>5, <4>6, <4>7
      <4> QED BY <2>2, <2>10, <3>1, <4>8
    <3> QED BY <1>12, <3>4, <3>5
  <2> QED BY <2>8, <2>9, <2>10
<1> QED BY <1>8, <1>9, <1>10, <1>11, <1>12

-----------------------------------------------------------------------------
(* What a call that gives up had asked for is what it may touch.            *)
LEMMA ReachAgrees ==
  ASSUME DriverOk(d), CallInv, CallsFit, d.call # NoCall, ~Refused(d.call)
  PROVE  Reach(d.call) = Abstract!Reach(d.call)
<1>1. d.call.op \in {"probe", "erase", "write", "read"}
  BY DEF CallInv, CallsFit, CallsWithin, Probe, NoCall
<1>2. \A i : Sector(i) = Abstract!Sector(i)
  BY DEF Sector, Abstract!Sector
<1>3. CASE d.call.op \in {"probe", "read"}
  BY <1>3 DEF Reach, Abstract!Reach
<1>4. CASE d.call.op = "erase"
  <2>1. Abstract!Legal(d.call)
    <3>1. Modifies
      BY <1>4 DEF Modifies
    <3>2. /\ d.call.addr \in Nat /\ d.call.len \in Nat /\ d.call.len >= 1
          /\ d.call.addr + d.call.len <= Cap
          /\ d.call.addr % SectorSize = 0 /\ d.call.len % SectorSize = 0
      BY <1>4, <3>1, Position
    <3> QED BY <3>2 DEF Abstract!Legal
  <2> QED BY <1>2, <1>4, <2>1 DEF Reach, Abstract!Reach, Abstract!Extent, Abstract!Cells
<1>5. CASE d.call.op = "write"
  <2> DEFINE a == d.call.addr
             n == d.call.len
             P(i) == \E j \in Abstract!Extent(d.call) : i \div PageSize = j \div PageSize
             Q(i) == i \div PageSize \in a \div PageSize .. (a + n - 1) \div PageSize
  <2>1. a \in Nat /\ n \in Nat \ {0} /\ a + n <= Cap
    <3>1. Modifies
      BY <1>5 DEF Modifies
    <3> QED BY <3>1, Position
  <2>2. Abstract!Extent(d.call) = a .. a + n - 1
    <3>1. \A j : j \in Abstract!Cells /\ a <= j /\ j < a + n <=> j \in a .. a + n - 1
      BY <2>1, FlashGeometry DEF Abstract!Cells
    <3> QED BY <3>1 DEF Abstract!Extent
  <2>3. \A i \in Int : P(i) <=> Q(i)
    <3> TAKE i \in Int
    <3> HIDE DEF a, n
    <3>1. a \in Int /\ n \in Nat \ {0} /\ PageSize \in Nat \ {0}
      BY <2>1, FlashGeometry
    <3>2. (\E j \in a .. a + n - 1 : i \div PageSize = j \div PageSize)
            <=> i \div PageSize \in a \div PageSize .. (a + n - 1) \div PageSize
      BY <3>1, BlocksInRow, Zenon
    <3> QED BY <2>2, <3>2, Zenon
  <2>4. Abstract!Reach(d.call) = {i \in 0 .. Cap - 1 : Sector(i) \notin chip.guard /\ P(i)}
    BY <1>2, <1>5 DEF Abstract!Reach, Abstract!Cells
  <2>5. Reach(d.call) = {i \in 0 .. Cap - 1 : Sector(i) \notin chip.guard /\ Q(i)}
    BY <1>5 DEF Reach
  <2> HIDE DEF P, Q
  <2> QED BY <2>3, <2>4, <2>5, FlashGeometry
<1> QED BY <1>1, <1>3, <1>4, <1>5

-----------------------------------------------------------------------------
(* Where the driver goes on.                                                *)

(* The status allows it: sf_chk_st has seen the chip ready, or the probe    *)
(* ignores that it gave up.                                                 *)
Ready == Step = "status" /\ Wip => d.elapsed /\ d.call.op = "probe"
Stays(e) ==
  /\ Step = "status" /\ Wip /\ ~d.elapsed
  /\ e.call = d.call /\ e.script = d.script /\ e.pc = d.pc /\ e.pos = d.pos
  /\ e.st = d.st /\ ~e.elapsed /\ e.buf = <<>>
NextStep(e) ==
  /\ Ready /\ d.pc < Len(d.script)
  /\ e.call = d.call /\ e.script = d.script /\ e.pc = d.pc + 1 /\ e.pos = d.pos
  /\ e.st = (IF Step = "rdst" THEN d.buf[1] ELSE d.st) /\ ~e.elapsed /\ e.buf = <<>>
NextChunk(e) ==
  /\ Ready /\ Modifies /\ d.pc = Len(d.script)
  /\ d.pos + Chunk(d.call, d.pos) < d.call.len
  /\ e.call = d.call /\ e.script = d.script /\ e.pc = 1
  /\ e.pos = d.pos + Chunk(d.call, d.pos) /\ e.st = d.st /\ ~e.elapsed /\ e.buf = <<>>
Returns(e) ==
  /\ Ready /\ d.pc = Len(d.script) /\ ~(d.pos + Chunk(d.call, d.pos) < d.call.len)
  /\ e = IdleDriver(TRUE)
GivesUp(e) ==
  Step = "status" /\ Wip /\ d.elapsed /\ d.call.op # "probe" /\ e = IdleDriver(TRUE)

(* The next step, the next sector or page, or the end of the call.          *)
LEMMA GoesOnTo ==
  ASSUME DriverOk(d), d.call # NoCall, CallInv, CallsWithin, Ready,
         NEW f, DOMAIN f = DOMAIN d, f.call = d.call, f.script = d.script, f.pc = d.pc,
         f.pos = d.pos, f.st = (IF Step = "rdst" THEN d.buf[1] ELSE d.st), f.buf = <<>>,
         NEW e, e = GoOn(f)
  PROVE  NextStep(e) \/ NextChunk(e) \/ Returns(e)
<1> DEFINE pos == d.pos + Chunk(d.call, d.pos)
<1>1. /\ d.pc \in 1 .. Len(d.script) /\ Len(d.script) \in Nat
      /\ d.call.op \in {"probe", "erase", "write", "read"}
  BY StepPlaces
<1>2. DOMAIN f = {"call", "probed", "script", "pc", "pos", "buf", "st", "st1", "elapsed"}
  BY DEF DriverOk
<1>3. CASE d.pc < Len(d.script)
  <2>1. e = [f EXCEPT !.pc = f.pc + 1, !.elapsed = FALSE]
    BY <1>3 DEF GoOn
  <2>2. NextStep(e)
    BY <1>2, <1>3, <2>1 DEF NextStep
  <2> QED BY <2>2
<1>4. CASE d.pc = Len(d.script) /\ pos < d.call.len
  <2>1. e = [f EXCEPT !.pc = 1, !.pos = pos, !.elapsed = FALSE]
    BY <1>1, <1>4 DEF GoOn
  <2>2. Modifies
    <3> SUFFICES ASSUME ~Modifies PROVE FALSE
      OBVIOUS
    <3>1. d.call.op \in {"read", "probe"}
      BY <1>1 DEF Modifies
    <3>2. d.pos = 0 /\ Chunk(d.call, d.pos) = d.call.len /\ d.call.len \in Int
      BY <3>1, FlashGeometry DEF CallInv, Chunk, DriverOk, AllCalls
    <3> QED BY <1>4, <3>2
  <2>3. Step # "rdst"
    BY <1>1, <1>4, <2>2, StepPlaces DEF Modifies, Step
  <2>4. e.st = d.st
    BY <1>2, <2>1, <2>3
  <2>5. NextChunk(e)
    BY <1>2, <1>4, <2>1, <2>2, <2>4 DEF NextChunk
  <2> QED BY <2>5
<1>5. CASE d.pc = Len(d.script) /\ ~(pos < d.call.len)
  <2>1. e = IdleDriver(TRUE)
    <3>1. ~(f.pc < Len(f.script)) /\ f.pos + Chunk(f.call, f.pos) = pos
      BY <1>1, <1>5
    <3> HIDE DEF pos
    <3> QED BY <1>5, <3>1 DEF GoOn
  <2>2. Returns(e)
    BY <1>5, <2>1 DEF Returns
  <2> QED BY <2>2
<1> QED BY <1>1, <1>3, <1>4, <1>5

(* ... after the status has been looked at.                                 *)
LEMMA WhatFollows ==
  ASSUME DriverOk(d), d.call # NoCall, CallInv, CallsWithin, NEW e, e = AfterExchange
  PROVE  Stays(e) \/ NextStep(e) \/ NextChunk(e) \/ Returns(e) \/ GivesUp(e)
<1> DEFINE f == [d EXCEPT !.buf = <<>>]
           f1 == [f EXCEPT !.st = d.buf[1]]
           f2 == [f EXCEPT !.st1 = d.buf[1]]
<1>1. DOMAIN d = {"call", "probed", "script", "pc", "pos", "buf", "st", "st1", "elapsed"}
  BY DEF DriverOk
<1>2. CASE d.call.op = "read"
  <2>1. Step = "read" /\ d.pc = 1 /\ Len(d.script) = 1
    <3>1. /\ d.pc \in 1 .. Len(d.script) /\ Len(d.script) = 1 /\ d.script[1] = "read"
      BY <1>2, StepPlaces
    <3>2. d.pc = 1
      BY <3>1
    <3> QED BY <3>1, <3>2 DEF Step
  <2>2. e = GoOn(d)
    BY <1>2, <2>1 DEF AfterExchange, Step
  <2>3. d.pos = 0 /\ Chunk(d.call, d.pos) = d.call.len /\ d.call.len \in Int
    BY <1>2, FlashGeometry DEF CallInv, Chunk, DriverOk, AllCalls
  <2>4. ~(d.pos + Chunk(d.call, d.pos) < d.call.len)
    BY <2>3
  <2>5. e = IdleDriver(TRUE)
    BY <2>1, <2>2, <2>4 DEF GoOn
  <2>6. Returns(e)
    BY <2>1, <2>4, <2>5 DEF Returns, Ready
  <2> QED BY <2>6
<1>3. CASE d.call.op # "read"
  <2>1. e = CASE Step = "status" -> AfterStatus(f)
              [] Step = "rdst" -> GoOn(f1)
              [] Step = "rdst1" -> GoOn(f2)
              [] OTHER -> GoOn(f)
    BY <1>3 DEF AfterExchange, Step
  <2>2. CASE Step = "status" /\ Wip /\ ~d.elapsed
    <3>1. e = f
      BY <2>1, <2>2 DEF AfterStatus
    <3>2. Stays(e)
      BY <1>1, <2>2, <3>1 DEF Stays
    <3> QED BY <3>2
  <2>3. CASE Step = "status" /\ Wip /\ d.elapsed /\ d.call.op # "probe"
    <3>1. e = IdleDriver(TRUE)
      BY <2>1, <2>3 DEF AfterStatus
    <3> QED BY <2>3, <3>1 DEF GivesUp
  <2>4. ASSUME Ready PROVE NextStep(e) \/ NextChunk(e) \/ Returns(e)
    <3>1. CASE Step = "rdst"
      <4>1. e = GoOn(f1)
        BY <2>1, <3>1
      <4>2. /\ DOMAIN f1 = DOMAIN d /\ f1.call = d.call /\ f1.script = d.script /\ f1.pc = d.pc
            /\ f1.pos = d.pos /\ f1.st = d.buf[1] /\ f1.buf = <<>>
        BY <1>1
      <4> HIDE DEF f1
      <4> QED BY <2>4, <3>1, <4>1, <4>2, GoesOnTo
    <3>2. CASE Step = "rdst1"
      <4>1. e = GoOn(f2)
        BY <2>1, <3>2
      <4>2. /\ DOMAIN f2 = DOMAIN d /\ f2.call = d.call /\ f2.script = d.script /\ f2.pc = d.pc
            /\ f2.pos = d.pos /\ f2.st = d.st /\ f2.buf = <<>>
        BY <1>1
      <4>3. Step # "rdst"
        BY <3>2
      <4> HIDE DEF f2
      <4> QED BY <2>4, <4>1, <4>2, <4>3, GoesOnTo
    <3>3. CASE Step \notin {"rdst", "rdst1"}
      <4>1. e = GoOn(f)
        <5>1. CASE Step = "status"
          BY <2>1, <2>4, <5>1 DEF AfterStatus, Ready
        <5>2. CASE Step # "status"
          BY <2>1, <3>3, <5>2
        <5> QED BY <5>1, <5>2
      <4>2. /\ DOMAIN f = DOMAIN d /\ f.call = d.call /\ f.script = d.script /\ f.pc = d.pc
            /\ f.pos = d.pos /\ f.st = d.st /\ f.buf = <<>>
        BY <1>1
      <4>3. Step # "rdst"
        BY <3>3
      <4> HIDE DEF f
      <4> QED BY <2>4, <4>1, <4>2, <4>3, GoesOnTo
    <3> QED BY <3>1, <3>2, <3>3
  <2> QED BY <2>2, <2>3, <2>4 DEF Ready
<1> QED BY <1>2, <1>3

-----------------------------------------------------------------------------
(* A page is in one sector.                                                 *)
LEMMA SectorOfPage ==
  ASSUME PagesFit, NEW i \in Int, NEW j \in Int, i \div PageSize = j \div PageSize
  PROVE  Sector(i) = Sector(j)
<1> DEFINE b == PageSize
           c == SectorSize
<1>1. b \in Nat \ {0} /\ c \in Nat \ {0} /\ c % b = 0 /\ i \div b = j \div b
  BY FlashGeometry DEF PagesFit
<1> HIDE DEF b, c
<1>2. i \div c = j \div c
  BY <1>1, SameBlock
<1> QED BY <1>2 DEF Sector, c

(* What the driver starts is what the call may do.                          *)
LEMMA OperationAsked ==
  ASSUME DriverOk(d), CallInv, CallsFit, d.call # NoCall, Modifies, ~Refused(d.call),
         Sector(d.call.addr + d.pos) \notin chip.guard,
         chip.cells \in [Cells -> {0, 1}],
         NEW f, f.cells = chip.cells, f.doing = Operation, NEW i \in Cells, NEW v, v = Leaves(f, i)
  PROVE  v \in {0, 1} /\ (v # chip.cells[i] => Asked(i, v))
<1> DEFINE at == d.call.addr + d.pos
           n == Chunk(d.call, d.pos)
           c == d.call
<1>1. /\ c.addr \in Nat /\ c.len \in Nat /\ d.pos \in Nat /\ d.pos < c.len
      /\ c.addr + c.len <= Cap /\ c.len >= 1 /\ at \in Cells /\ at \in Int
      /\ c.op = "erase" => /\ d.pos % SectorSize = 0 /\ c.addr % SectorSize = 0
                           /\ c.len % SectorSize = 0
      /\ c.op = "write" => d.pos % PageSize = 0
  BY Position, FlashGeometry
<1>2. i \in Int /\ i \in 0 .. Cap - 1 /\ i \in Abstract!Cells /\ f.cells[i] \in {0, 1}
  BY FlashGeometry DEF Cells, Abstract!Cells
<1>3. \A j : Abstract!Sector(j) = Sector(j)
  BY DEF Sector, Abstract!Sector
<1>4. CASE c.op = "erase"
  <2>1. f.doing.op = "erase" /\ f.doing.at = at
    BY <1>4 DEF Operation
  <2>2. v = IF Sector(i) = Sector(at) THEN 1 ELSE chip.cells[i]
    BY <2>1 DEF Leaves
  <2>3. ASSUME Sector(i) = Sector(at) PROVE Asked(i, 1)
    <3>1. at % SectorSize = 0
      BY <1>1, <1>4, FlashGeometry, MultiplesAdd
    <3>2. at <= i /\ i < at + SectorSize
      BY <1>1, <1>2, <2>3, <3>1, FlashGeometry, SameQuotient DEF Sector
    <3>3. d.pos + SectorSize <= c.len
      BY <1>1, <1>4, FlashGeometry, MultiplesApart
    <3>4. c.addr <= i /\ i < c.addr + c.len
      BY <1>1, <1>2, <3>2, <3>3, FlashGeometry
    <3>5. i \in Abstract!Extent(c)
      BY <1>2, <3>4 DEF Abstract!Extent
    <3>6. Abstract!Legal(c)
      BY <1>1, <1>4 DEF Abstract!Legal
    <3>7. Sector(i) \notin chip.guard
      BY <2>3
    <3>8. i \in Abstract!Reach(c)
      BY <1>2, <1>3, <1>4, <3>5, <3>6, <3>7 DEF Abstract!Reach
    <3> QED BY <1>4, <3>8 DEF Asked, Abstract!MayLeave
  <2> QED BY <1>2, <2>2, <2>3
<1>5. CASE c.op = "write"
  <2> DEFINE ws == [j \in 1 .. n |-> Data(c, d.pos + j - 1)]
             k == ((i - at) % PageSize) + 1
  <2>1. f.doing.op = "program" /\ f.doing.at = at /\ f.doing.ws = ws
    BY <1>5 DEF Operation
  <2>2. n \in Nat /\ Len(ws) = n /\ n <= c.len - d.pos
    <3>1. n \in Nat
      BY ChunkNat
    <3>2. n = Least(c.len - d.pos, PageSize)
      BY <1>5 DEF Chunk
    <3>3. n <= c.len - d.pos
      BY <1>1, <3>2, FlashGeometry DEF Least
    <3> HIDE DEF n
    <3> QED BY <3>1, <3>3
  <2>3. v = IF i \div PageSize = at \div PageSize /\ k <= n
            THEN f.cells[i] * ws[k] ELSE f.cells[i]
    <3>1. v = IF i \div PageSize = at \div PageSize /\ k <= Len(ws)
              THEN f.cells[i] * ws[k] ELSE f.cells[i]
      <4> HIDE DEF ws
      <4> QED BY <2>1 DEF Leaves
    <3> HIDE DEF ws, n, k
    <3> QED BY <2>2, <3>1
  <2>4. k \in Int /\ k >= 1
    <3> HIDE DEF at
    <3>1. (i - at) \in Int
      BY <1>1, <1>2
    <3>2. (i - at) % PageSize \in 0 .. PageSize - 1
      BY <3>1, FlashGeometry, Division
    <3> QED BY <3>2, FlashGeometry
  <2>5. CASE ~(i \div PageSize = at \div PageSize /\ k <= n)
    BY <1>2, <2>3, <2>5
  <2>6. CASE i \div PageSize = at \div PageSize /\ k <= n
    <3>1. k \in 1 .. n /\ ws[k] = Data(c, d.pos + k - 1) /\ ws[k] \in {0, 1}
      <4> HIDE DEF k, n
      <4>1. k \in 1 .. n
        BY <2>2, <2>4, <2>6
      <4>2. d.pos + k - 1 \in Int
        BY <1>1, <2>4
      <4> QED BY <4>1, <4>2, DataBit
    <3>2. v = f.cells[i] * ws[k]
      BY <2>3, <2>6
    <3>3. v \in {0, 1} /\ (v # f.cells[i] => v = 0 /\ ws[k] = 0)
      <4> HIDE DEF ws, k
      <4> QED BY <1>2, <3>1, <3>2
    <3>4. at \in Abstract!Extent(c)
      <4>1. c.addr <= at /\ at < c.addr + c.len
        BY <1>1
      <4> HIDE DEF at
      <4> QED BY <1>1, <4>1 DEF Abstract!Extent, Abstract!Cells, Cells
    <3>5. Sector(i) = Sector(at)
      <4> HIDE DEF at
      <4> QED BY <1>1, <1>2, <2>6, SectorOfPage DEF CallsFit
    <3>6. i \in Abstract!Reach(c)
      <4> HIDE DEF at
      <4>1. \E j \in Abstract!Extent(c) : i \div PageSize = j \div PageSize
        BY <2>6, <3>4
      <4>2. Sector(i) \notin chip.guard
        BY <3>5 DEF at
      <4> QED BY <1>2, <1>3, <1>5, <4>1, <4>2 DEF Abstract!Reach
    <3>7. ASSUME ws[k] = 0 PROVE Abstract!MayLeave(c, i, 0)
      <4>1. ASSUME Abstract!Aligned(c)
            PROVE  i \in Abstract!Extent(c) /\ Data(c, i - c.addr) = 0
        <5>1. at % PageSize = 0
          BY <1>1, <1>5, <4>1, FlashGeometry, MultiplesAdd DEF Abstract!Aligned
        <5>2. at <= i /\ i < at + PageSize /\ (i - at) % PageSize = i - at
          <6> HIDE DEF at
          <6> QED BY <1>1, <1>2, <2>6, <5>1, FlashGeometry, SameQuotient
        <5>3. k = i - at + 1
          BY <5>2
        <5>4. i < at + n
          <6> HIDE DEF at, n, k
          <6> QED BY <1>1, <1>2, <2>2, <2>6, <5>3
        <5>5. c.addr <= i /\ i < c.addr + c.len
          <6>1. at + n <= c.addr + c.len
            <7> HIDE DEF n
            <7> QED BY <1>1, <2>2
          <6>2. c.addr <= at
            BY <1>1
          <6> HIDE DEF at, n
          <6> QED BY <1>1, <1>2, <2>2, <5>2, <5>4, <6>1, <6>2
        <5>6. d.pos + k - 1 = i - c.addr
          BY <1>1, <1>2, <5>3
        <5>7. Data(c, i - c.addr) = 0
          <6> HIDE DEF k, ws
          <6> QED BY <3>1, <4>1, <3>7, <5>6
        <5> QED BY <1>2, <5>5, <5>7 DEF Abstract!Extent
      <4>2. \A j : Abstract!Data(c, j) = Data(c, j)
        BY DEF Data, Abstract!Data
      <4> HIDE DEF c
      <4> QED BY <1>5, <4>1, <4>2 DEF Abstract!MayLeave
    <3> HIDE DEF ws, k
    <3>8. v # chip.cells[i] => Asked(i, v)
      BY <3>3, <3>6, <3>7 DEF Asked
    <3> QED BY <3>3, <3>8
  <2> QED BY <2>5, <2>6
<1> QED BY <1>4, <1>5 DEF Modifies

-----------------------------------------------------------------------------
(* Where the driver stands.                                                 *)
At == d.call.addr + d.pos

(* What the chip does and where the driver is after an exchange.            *)
LEMMA ChipAfter ==
  ASSUME FlashInv, CallsFit, EndOfExchange
  PROVE  /\ ExchangeOver
         /\ chip'.maker = chip.maker /\ chip'.cells = chip.cells /\ chip'.guard = chip.guard
         /\ chip'.slow => chip'.doing.op \in {"erase", "program"}
         /\ Busy => chip'.doing = chip.doing
         /\ Step \notin {"erase", "program", "wrst"} => chip'.doing = chip.doing
         /\ Step = "wrst" => \/ chip'.doing = chip.doing
                             \/ chip'.doing.op = "wrst" /\ chip'.doing.ws[1] = d.st
         /\ Step \in {"erase", "program"} /\ ~Busy =>
              \/ chip'.doing = chip.doing
                   /\ (chip.wel => Modifies /\ Sector(At) \in chip.guard)
              \/ chip'.doing = Operation /\ Modifies /\ Sector(At) \notin chip.guard
         /\ Step = "wren" /\ ~Busy => chip'.wel
         /\ x' = NoPacket /\ rxFifo' = <<>> /\ d' = AfterExchange
         /\ late' = IF d'.call = NoCall /\ Step = "status" /\ Wip
                    THEN late \cup Reach(d.call) ELSE late
<1>1. PICK isSlow \in BOOLEAN : EndExchange(isSlow)
  BY DEF EndOfExchange
<1>2. /\ ExchangeOver /\ x' = NoPacket /\ rxFifo' = <<>> /\ d' = AfterExchange
      /\ isSlow => ~Busy /\ Command.doing.op \in {"erase", "program"}
      /\ chip' = [Command EXCEPT !.sel = FALSE, !.words = <<>>, !.slow = @ \/ isSlow]
      /\ late' = IF d'.call = NoCall /\ Step = "status" /\ Wip
                 THEN late \cup Reach(d.call) ELSE late
  BY <1>1 DEF EndExchange, ExchangeOver, Step
<1> DEFINE e == Command
<1>3. DOMAIN e = {"maker", "cells", "guard", "st1", "wel", "sel", "words", "doing", "slow"}
  <2>1. ChipOk(chip)
    BY DEF FlashInv, IInv
  <2> QED BY <2>1 DEF Command, ChipOk
<1>4. /\ e.maker = chip.maker /\ e.cells = chip.cells /\ e.guard = chip.guard
      /\ e.slow = chip.slow
      /\ Busy => e.doing = chip.doing
      /\ Step \notin {"erase", "program", "wrst"} => e.doing = chip.doing
      /\ Step = "wrst" => \/ e.doing = chip.doing
                          \/ e.doing.op = "wrst" /\ e.doing.ws[1] = d.st
      /\ Step \in {"erase", "program"} /\ ~Busy =>
           \/ e.doing = chip.doing /\ (chip.wel => Modifies /\ Sector(At) \in chip.guard)
           \/ e.doing = Operation /\ Modifies /\ Sector(At) \notin chip.guard
      /\ Step = "wren" /\ ~Busy => e.wel
  BY <1>2, CommandDoes DEF At
<1> HIDE DEF e
<1>5. chip' = [e EXCEPT !.sel = FALSE, !.words = <<>>, !.slow = e.slow \/ isSlow]
  BY <1>2 DEF e
<1>6. /\ chip'.maker = chip.maker /\ chip'.cells = chip.cells /\ chip'.guard = chip.guard
      /\ chip'.doing = e.doing /\ chip'.wel = e.wel /\ chip'.slow = (e.slow \/ isSlow)
  BY <1>3, <1>4, <1>5
<1>7. ASSUME chip'.slow PROVE chip'.doing.op \in {"erase", "program"}
  <2>1. CASE chip.slow
    <3>1. chip.doing.op \in {"erase", "program"}
      BY <2>1 DEF FlashInv, ChipInv
    <3> QED BY <1>4, <1>6, <3>1 DEF Busy
  <2>2. CASE isSlow
    BY <1>2, <1>6, <2>2 DEF e
  <2> QED BY <1>4, <1>6, <1>7, <2>1, <2>2
<1> QED BY <1>2, <1>4, <1>6, <1>7

(* What the driver knows from the answers.                                  *)
LEMMA Answers ==
  ASSUME FlashInv, ExchangeOver
  PROVE  /\ d.call # NoCall /\ ~Refused(d.call) /\ DriverOk(d) /\ CallInv /\ ChipInv
         /\ Step = "status" => (Wip \/ ~Busy)
         /\ Step = "rdst" => (d.buf[1] = 0 => chip.guard = {})
<1>1. /\ d.call # NoCall /\ ~Refused(d.call) /\ DriverOk(d)
      /\ Job.in > 0 => \A j \in 1 .. Job.in : Told(j, d.buf[j])
  BY AllSent
<1>2. Step \in {"status", "rdst"} => Job.in = 1
  BY <1>1, Jobs
<1>3. Step \in {"status", "rdst"} => Told(1, d.buf[1])
  BY <1>1, <1>2
<1> QED BY <1>1, <1>3 DEF Told, Wip, FlashInv

(* The driver is at a step of its script.                                   *)
LEMMA CallAfter ==
  ASSUME FlashInv, CallsFit, EndOfExchange, IInv' PROVE CallInv'
<1>1. /\ ExchangeOver /\ chip'.maker = chip.maker /\ chip'.guard = chip.guard
      /\ d' = AfterExchange
  BY ChipAfter
<1>2. /\ d.call # NoCall /\ ~Refused(d.call) /\ DriverOk(d) /\ CallInv
      /\ Step = "rdst" => (d.buf[1] = 0 => chip.guard = {})
  BY <1>1, Answers
<1>3. /\ d.pc \in 1 .. Len(d.script) /\ Len(d.script) \in Nat
      /\ d.call.op \in {"probe", "erase", "write", "read"}
      /\ d.call.op = "probe" => Len(d.script) >= 9 /\ (d.pc = 6 => Step = "rdst")
                                /\ (Step = "rdst" => d.pc = 6)
  BY <1>2, StepPlaces DEF CallsFit
<1>4. Stays(d') \/ NextStep(d') \/ NextChunk(d') \/ Returns(d') \/ GivesUp(d')
  BY <1>1, <1>2, WhatFollows DEF CallsFit
<1>5. CASE Returns(d') \/ GivesUp(d')
  <2>1. d'.call = NoCall
    BY <1>5 DEF Returns, GivesUp, IdleDriver
  <2> QED BY <2>1 DEF CallInv
<1>6. CASE Stays(d') \/ NextStep(d') \/ NextChunk(d')
  <2>1. d'.call = d.call /\ d'.script = d.script
    BY <1>6 DEF Stays, NextStep, NextChunk
  <2>2. ~Refused(d.call)'
    BY <1>2, <2>1 DEF Refused
  <2>3. d.call.op = "erase" =>
          d.pos % SectorSize = 0 /\ d.pos < d.call.len /\ d.pos \in Nat /\ d.call.len \in Nat
    BY <1>2, FlashGeometry DEF CallInv, DriverOk, AllCalls
  <2>4. d.call.op = "write" =>
          d.pos % PageSize = 0 /\ d.pos < d.call.len /\ d.pos \in Nat /\ d.call.len \in Nat
    BY <1>2, FlashGeometry DEF CallInv, DriverOk, AllCalls
  <2>5. d.call.op = "erase" => d'.pos % SectorSize = 0 /\ d'.pos < d.call.len
    <3> SUFFICES ASSUME d.call.op = "erase"
                 PROVE  d'.pos % SectorSize = 0 /\ d'.pos < d.call.len
      OBVIOUS
    <3>1. CASE NextChunk(d')
      <4>1. d'.pos = d.pos + SectorSize /\ d'.pos < d.call.len
        BY <3>1 DEF NextChunk, Chunk
      <4>2. /\ d.pos \in Int /\ d.pos % SectorSize = 0
            /\ SectorSize \in Int /\ SectorSize % SectorSize = 0
        BY <2>3, FlashGeometry, MultipleOfItself
      <4>3. (d.pos + SectorSize) % SectorSize = 0
        BY <4>2, FlashGeometry, MultiplesAdd
      <4> QED BY <4>1, <4>3
    <3>2. CASE ~NextChunk(d')
      BY <1>6, <2>3, <3>2 DEF Stays, NextStep
    <3> QED BY <3>1, <3>2
  <2>6. d.call.op = "write" => d'.pos % PageSize = 0 /\ d'.pos < d.call.len
    <3> SUFFICES ASSUME d.call.op = "write"
                 PROVE  d'.pos % PageSize = 0 /\ d'.pos < d.call.len
      OBVIOUS
    <3>1. CASE NextChunk(d')
      <4>1. d'.pos = d.pos + Least(d.call.len - d.pos, PageSize) /\ d'.pos < d.call.len
        BY <3>1 DEF NextChunk, Chunk
      <4>2. Least(d.call.len - d.pos, PageSize) = PageSize
        BY <2>4, <4>1, FlashGeometry DEF Least
      <4>3. d.pos \in Int /\ d.pos % PageSize = 0 /\ PageSize \in Int /\ PageSize % PageSize = 0
        BY <2>4, FlashGeometry, MultipleOfItself
      <4>4. (d.pos + PageSize) % PageSize = 0
        BY <4>3, FlashGeometry, MultiplesAdd
      <4> QED BY <4>1, <4>2, <4>4
    <3>2. CASE ~NextChunk(d')
      BY <1>6, <2>4, <3>2 DEF Stays, NextStep
    <3> QED BY <3>1, <3>2
  <2>7. d.call.op \in {"read", "probe"} => d'.pos = 0
    <3> SUFFICES ASSUME d.call.op \in {"read", "probe"} PROVE d'.pos = 0
      OBVIOUS
    <3>1. ~NextChunk(d')
      BY DEF NextChunk, Modifies
    <3>2. d'.pos = d.pos
      BY <1>6, <3>1 DEF Stays, NextStep
    <3> QED BY <1>2, <3>2 DEF CallInv
  <2>8. d.call.op = "probe" /\ d'.pc > 6 => (d'.st = 0 => chip.guard = {})
    <3> SUFFICES ASSUME d.call.op = "probe", d'.pc > 6, d'.st = 0 PROVE chip.guard = {}
      OBVIOUS
    <3>1. CASE Stays(d')
      BY <1>2, <3>1 DEF Stays, CallInv
    <3>2. CASE NextStep(d') /\ d.pc = 6
      BY <1>2, <1>3, <3>2 DEF NextStep
    <3>3. CASE NextStep(d') /\ d.pc # 6
      <4>1. d.pc > 6 /\ d'.st = d.st
        BY <1>3, <3>3 DEF NextStep
      <4> QED BY <1>2, <4>1 DEF CallInv
    <3>4. ~NextChunk(d')
      BY DEF NextChunk, Modifies
    <3> QED BY <1>6, <3>1, <3>2, <3>3, <3>4
  <2> QED BY <1>1, <1>2, <2>1, <2>2, <2>5, <2>6, <2>7, <2>8 DEF CallInv
<1> QED BY <1>4, <1>5, <1>6

-----------------------------------------------------------------------------
(* What the chip starts is what the call may do.                            *)
LEMMA ChipInvAfter ==
  ASSUME FlashInv, CallsFit, EndOfExchange, IInv' PROVE ChipInv'
<1>1. /\ ExchangeOver /\ chip'.cells = chip.cells /\ chip'.guard = chip.guard
      /\ chip'.slow => chip'.doing.op \in {"erase", "program"}
      /\ Busy => chip'.doing = chip.doing
      /\ Step \notin {"erase", "program", "wrst"} => chip'.doing = chip.doing
      /\ Step = "wrst" => \/ chip'.doing = chip.doing
                          \/ chip'.doing.op = "wrst" /\ chip'.doing.ws[1] = d.st
      /\ Step \in {"erase", "program"} /\ ~Busy =>
           \/ chip'.doing = chip.doing
           \/ chip'.doing = Operation /\ Modifies /\ Sector(At) \notin chip.guard
      /\ d' = AfterExchange
      /\ late' = IF d'.call = NoCall /\ Step = "status" /\ Wip
                 THEN late \cup Reach(d.call) ELSE late
  BY ChipAfter
<1>2. /\ d.call # NoCall /\ ~Refused(d.call) /\ DriverOk(d) /\ CallInv /\ ChipInv
      /\ Step = "status" => (Wip \/ ~Busy)
  BY <1>1, Answers
<1>3. Stays(d') \/ NextStep(d') \/ NextChunk(d') \/ Returns(d') \/ GivesUp(d')
  BY <1>1, <1>2, WhatFollows DEF CallsFit
<1>4. /\ d.pc \in 1 .. Len(d.script) /\ Len(d.script) \in Nat
      /\ d.call.op \in {"probe", "erase", "write", "read"}
      /\ Modifies => Len(d.script) = 3 /\ d.script[3] = "status"
      /\ d.call.op = "probe" /\ Step = "wrst" => d.pc > 6
      /\ Step = "wrst" => d.call.op = "probe"
  <2>1. d.pc \in 1 .. 3 \/ d.call.op \in {"probe", "read"}
    BY <1>2, StepPlaces DEF CallsFit
  <2> QED BY <1>2, <2>1, StepPlaces DEF CallsFit, Step, Modifies
<1> DEFINE reach == Abstract!Reach(d.call)
(* The cells the call may touch while it lasts, or after it gave up.        *)
<1>5. ASSUME NEW i \in Cells, NEW w, Asked(i, w), d'.call = d.call \/ GivesUp(d')
      PROVE  i \in late' \/ Asked(i, w)'
  <2>1. i \in reach /\ Abstract!MayLeave(d.call, i, w)
    BY <1>5 DEF Asked
  <2>2. CASE d'.call = d.call
    <3>1. reach' = reach
      BY <1>1, <2>2, ReachStays
    <3> HIDE DEF reach
    <3>2. Abstract!MayLeave(d'.call, i, w)
      BY <2>1, <2>2
    <3>3. i \in reach'
      BY <2>1, <3>1
    <3> QED BY <3>2, <3>3 DEF Asked, reach
  <2>3. CASE GivesUp(d')
    <3>1. d'.call = NoCall /\ Step = "status" /\ Wip
      BY <2>3 DEF GivesUp, IdleDriver
    <3>2. late' = late \cup Reach(d.call)
      BY <1>1, <3>1
    <3>3. Reach(d.call) = reach
      BY <1>2, ReachAgrees
    <3> QED BY <2>1, <3>2, <3>3
  <2> QED BY <1>5, <2>2, <2>3
(* A call that returns leaves nothing behind.                               *)
<1>6. ASSUME Modifies, Returns(d') PROVE ~Busy /\ chip'.doing = chip.doing
  <2>1. Step = "status"
    BY <1>4, <1>6 DEF Returns, Step
  <2>2. ~Wip
    BY <1>6, <2>1 DEF Returns, Ready, Modifies
  <2> QED BY <1>1, <1>2, <2>1, <2>2
(* It is enough to say what the cells become.                               *)
<1>7. ASSUME chip'.doing.op \in {"none", "erase", "program", "wrst"},
             chip'.doing.op = "wrst" => (chip'.doing.ws[1] = 0 => chip.guard = {}),
             \A i \in Cells : \A w : w = Leaves(chip, i)' =>
               w \in {0, 1} /\ (w # chip.cells[i] => i \in late' \/ Asked(i, w)')
      PROVE  ChipInv'
  <2>1. ASSUME NEW i \in Cells
        PROVE  /\ Leaves(chip, i)' \in {0, 1}
               /\ Leaves(chip, i)' # chip'.cells[i] =>
                    i \in late' \/ (Asked(i, Leaves(chip, i)))'
    <3>1. PICK w : w = Leaves(chip, i)'
      OBVIOUS
    <3>2. w \in {0, 1} /\ (w # chip.cells[i] => i \in late' \/ Asked(i, w)')
      BY <1>7, <3>1
    <3>3. Asked(i, w)' => (Asked(i, Leaves(chip, i)))'
      BY <3>1 DEF Asked
    <3> QED BY <1>1, <3>1, <3>2, <3>3
  <2> QED BY <1>1, <1>2, <1>7, <2>1 DEF ChipInv
<1>8. CASE chip'.doing = chip.doing
  <2>1. \A i \in Cells : Leaves(chip, i)' = Leaves(chip, i)
    BY <1>1, <1>8 DEF Leaves
  <2>2. ASSUME NEW i \in Cells, NEW w, w = Leaves(chip, i)'
        PROVE  w \in {0, 1} /\ (w # chip.cells[i] => i \in late' \/ Asked(i, w)')
    <3>1. w = Leaves(chip, i)
      BY <2>1, <2>2
    <3>2. w \in {0, 1} /\ (w # chip.cells[i] => i \in late \/ Asked(i, w))
      BY <1>2, <3>1 DEF ChipInv
    <3>3. CASE i \in late
      BY <1>1, <3>2, <3>3
    <3>4. ASSUME Asked(i, w), w # chip.cells[i] PROVE i \in late' \/ Asked(i, w)'
      <4>1. Modifies
        <5>1. reach # {}
          BY <3>4 DEF Asked
        <5>2. d.call \in AllCalls
          BY <1>2 DEF DriverOk
        <5> QED BY <5>1, <5>2, NothingAsked DEF Modifies
      <4>2. Busy
        BY <3>1, <3>4 DEF Busy, Leaves
      <4>3. ~Returns(d')
        BY <1>6, <4>1, <4>2
      <4>4. d'.call = d.call \/ GivesUp(d')
        BY <1>3, <4>3 DEF Stays, NextStep, NextChunk
      <4> QED BY <1>5, <3>4, <4>4
    <3> QED BY <3>2, <3>3, <3>4
  <2> QED BY <1>2, <1>7, <1>8, <2>2 DEF ChipInv
<1>9. CASE chip'.doing # chip.doing /\ Step = "wrst"
  <2>1. chip'.doing.op = "wrst" /\ chip'.doing.ws[1] = d.st
    BY <1>1, <1>9
  <2>2. d.st = 0 => chip.guard = {}
    BY <1>2, <1>4, <1>9 DEF CallInv
  <2>3. \A i \in Cells : Leaves(chip, i)' = chip.cells[i]
    BY <1>1, <2>1 DEF Leaves
  <2> QED BY <1>2, <1>7, <2>1, <2>2, <2>3 DEF ChipInv
<1>10. CASE chip'.doing # chip.doing /\ Step # "wrst"
  <2>1. /\ Step \in {"erase", "program"} /\ ~Busy
        /\ chip'.doing = Operation /\ Modifies /\ Sector(At) \notin chip.guard
    BY <1>1, <1>10
  <2>2. chip'.doing.op \in {"erase", "program"}
    BY <2>1 DEF Operation
  <2>3. d'.call = d.call
    <3>1. d.pc # Len(d.script)
      BY <1>4, <2>1 DEF Step
    <3> QED BY <1>3, <2>1, <3>1 DEF Stays, NextStep, NextChunk, Returns, GivesUp
  <2>4. ASSUME NEW i \in Cells, NEW w, w = Leaves(chip, i)'
        PROVE  w \in {0, 1} /\ (w # chip.cells[i] => i \in late' \/ Asked(i, w)')
    <3> DEFINE f == [chip EXCEPT !.doing = Operation]
    <3>1. f.cells = chip.cells /\ f.doing = Operation
      <4>1. ChipOk(chip)
        BY DEF FlashInv, IInv
      <4> QED BY <4>1 DEF ChipOk
    <3> HIDE DEF f
    <3>2. w = Leaves(f, i)
      BY <1>1, <2>1, <2>4, <3>1 DEF Leaves
    <3>3. w \in {0, 1} /\ (w # chip.cells[i] => Asked(i, w))
      <4>1. chip.cells \in [Cells -> {0, 1}]
        BY <1>2 DEF ChipInv
      <4> QED BY <1>2, <2>1, <3>1, <3>2, <4>1, OperationAsked DEF At
    <3> QED BY <1>5, <2>3, <3>3
  <2> QED BY <1>7, <2>2, <2>4
<1> QED BY <1>8, <1>9, <1>10

-----------------------------------------------------------------------------
(* A sector or page the chip refuses to change is one the call need not.    *)
LEMMA ProtectedDone ==
  ASSUME DriverOk(d), CallInv, CallsFit, d.call # NoCall, Modifies, ~Refused(d.call),
         DoneTo(d.pos), Sector(At) \in chip.guard
  PROVE  DoneTo(d.pos + Chunk(d.call, d.pos))
<1> DEFINE n == Chunk(d.call, d.pos)
           reach == Abstract!Reach(d.call)
<1> SUFFICES ASSUME NEW i \in reach \cap Abstract!Extent(d.call), i < d.call.addr + (d.pos + n)
             PROVE  DoneCell(i)
  BY DEF DoneTo
<1>1. CASE i < d.call.addr + d.pos
  BY <1>1 DEF DoneTo
<1>2. CASE ~(i < d.call.addr + d.pos)
  <2>1. /\ i \in Cells /\ At \in Int
        /\ d.call.op = "erase" => Sector(i) = Sector(At)
        /\ d.call.op = "write" /\ Abstract!Aligned(d.call) => i \div PageSize = At \div PageSize
    BY <1>2, Between DEF At
  <2>2. Sector(i) \notin chip.guard
    BY DEF Abstract!Reach, Abstract!Sector, Sector
  <2>3. i \in Int
    BY <2>1, FlashGeometry DEF Cells
  <2>4. CASE d.call.op = "erase"
    BY <2>1, <2>2, <2>4
  <2>5. CASE d.call.op = "write"
    <3>1. ~Abstract!Aligned(d.call)
      <4> SUFFICES ASSUME Abstract!Aligned(d.call) PROVE FALSE
        OBVIOUS
      <4>1. Sector(i) = Sector(At)
        BY <2>1, <2>3, <2>5, SectorOfPage DEF CallsFit
      <4> QED BY <2>2, <4>1
    <3> QED BY <2>5, <3>1 DEF DoneCell
  <2> QED BY <2>4, <2>5 DEF Modifies
<1> QED BY <1>1, <1>2

(* The places before the last of a short script.                            *)
LEMMA Places ==
  ASSUME NEW n \in Nat, NEW k \in 1 .. n
  PROVE  /\ n = 1 => k = 1
         /\ n = 3 => k \in {1, 2, 3} /\ (k < n => k \in {1, 2}) /\ (k = n => k = 3)
OBVIOUS

(* What is behind the driver is done, and it waits for what it started.     *)
LEMMA CleanAfter ==
  ASSUME FlashInv, CallsFit, EndOfExchange, IInv' PROVE CleanInv'
<1> SUFFICES ASSUME late' = {} PROVE BusyInv' /\ ElapsedInv' /\ DoneInv'
  BY DEF CleanInv
<1>1. /\ ExchangeOver /\ chip'.cells = chip.cells /\ chip'.guard = chip.guard
      /\ Busy => chip'.doing = chip.doing
      /\ Step \notin {"erase", "program", "wrst"} => chip'.doing = chip.doing
      /\ Step = "wrst" => chip'.doing = chip.doing \/ chip'.doing.op = "wrst"
      /\ Step \in {"erase", "program"} /\ ~Busy =>
           \/ chip'.doing = chip.doing /\ (chip.wel => Modifies /\ Sector(At) \in chip.guard)
           \/ chip'.doing = Operation /\ Modifies /\ Sector(At) \notin chip.guard
      /\ Step = "wren" /\ ~Busy => chip'.wel
      /\ d' = AfterExchange
      /\ late' = IF d'.call = NoCall /\ Step = "status" /\ Wip
                 THEN late \cup Reach(d.call) ELSE late
  BY ChipAfter
<1>2. /\ d.call # NoCall /\ ~Refused(d.call) /\ DriverOk(d) /\ CallInv
      /\ Step = "status" => (Wip \/ ~Busy)
  BY <1>1, Answers
<1>3. Stays(d') \/ NextStep(d') \/ NextChunk(d') \/ Returns(d') \/ GivesUp(d')
  BY <1>1, <1>2, WhatFollows DEF CallsFit
<1>4. late = {}
  BY <1>1
<1>5. BusyInv /\ ElapsedInv /\ DoneInv
  BY <1>4 DEF FlashInv, CleanInv
<1>6. /\ d.pc \in 1 .. Len(d.script) /\ Len(d.script) \in Nat
      /\ d.call.op \in {"probe", "erase", "write", "read"}
      /\ Modifies => /\ Len(d.script) = 3 /\ d.script[1] = "wren"
                     /\ d.script[2] \in {"erase", "program"} /\ d.script[3] = "status"
      /\ Step \in {"erase", "program"} => Modifies
      /\ Step = "wrst" => /\ d.call.op = "probe" /\ d.pc < Len(d.script)
                          /\ d.script[d.pc + 1] = "status"
  <2>1. d.pc \in 1 .. 3 \/ d.call.op \in {"probe", "read"}
    BY <1>2, StepPlaces DEF CallsFit
  <2>2. d.call.op = "read" => d.pc = 1
    <3>1. d.call.op = "read" => Len(d.script) = 1
      BY <1>2, StepPlaces DEF CallsFit
    <3>2. d.pc \in 1 .. Len(d.script) /\ Len(d.script) \in Nat
      BY <1>2, StepPlaces DEF CallsFit
    <3> QED BY <3>1, <3>2, Places, Zenon
  <2> QED BY <1>2, <2>1, <2>2, StepPlaces DEF CallsFit, Step, Modifies
<1>7. ~GivesUp(d')
  <2> SUFFICES ASSUME GivesUp(d') PROVE FALSE
    OBVIOUS
  <2>1. d'.call = NoCall /\ Step = "status" /\ Wip /\ d.elapsed
    BY DEF GivesUp, IdleDriver
  <2>2. Reach(d.call) = {}
    BY <1>1, <2>1
  <2>3. Reach(d.call) = Abstract!Reach(d.call)
    BY <1>2, ReachAgrees
  <2> QED BY <1>5, <2>1, <2>2, <2>3 DEF ElapsedInv
(* Nobody goes on while the chip is busy.                                   *)
<1>8. Stays(d') \/ ~Busy
  <2> SUFFICES ASSUME Busy, ~Stays(d') PROVE FALSE
    OBVIOUS
  <2>1. Step = "status" /\ Wip
    BY <1>2, <1>5 DEF BusyInv
  <2>2. d.elapsed /\ d.call.op = "probe"
    BY <1>3, <1>7, <2>1 DEF NextStep, NextChunk, Returns, Ready
  <2> QED BY <1>5, <2>2 DEF ElapsedInv, Modifies
<1>9. ~d'.elapsed
  BY <1>3, <1>7 DEF Stays, NextStep, NextChunk, Returns, IdleDriver
<1>10. ElapsedInv'
  BY <1>9 DEF ElapsedInv
<1>11. CASE Stays(d')
  <2>1. /\ Step = "status" /\ d'.call = d.call /\ d'.script = d.script /\ d'.pc = d.pc
        /\ d'.pos = d.pos
    BY <1>11 DEF Stays
  <2>2. /\ chip'.doing = chip.doing /\ Step' = Step /\ (Busy' <=> Busy)
        /\ Operation' = Operation /\ (Modifies' <=> Modifies)
        /\ (Refused(d.call)' <=> Refused(d.call))
    BY <1>1, <2>1 DEF Step, Busy, Operation, Modifies, Refused
  <2>3. BusyInv'
    BY <1>1, <1>5, <2>1, <2>2 DEF BusyInv
  <2> DEFINE reach == Abstract!Reach(d.call)
  <2>4. reach' = reach
    BY <1>1, <2>1, ReachStays
  <2>5. \A q : DoneTo(q)' <=> DoneTo(q)
    BY <1>1, <2>1, <2>4 DEF DoneTo, DoneCell
  <2>6. DoneInv'
    BY <1>5, <2>1, <2>2, <2>5 DEF DoneInv
  <2> QED BY <1>10, <2>3, <2>6
<1>12. CASE Returns(d')
  <2>1. d'.call = NoCall /\ ~Modifies'
    BY <1>12 DEF Returns, IdleDriver, Modifies, NoCall
  <2>2. d.pc = Len(d.script)
    BY <1>12 DEF Returns
  <2>3. Step \notin {"erase", "program", "wrst"}
    BY <1>6, <2>2 DEF Step
  <2>4. ~Busy'
    <3>1. ~Busy
      BY <1>8, <2>1, <1>2 DEF Stays
    <3> QED BY <1>1, <2>3, <3>1 DEF Busy
  <2> QED BY <1>10, <2>1, <2>4 DEF BusyInv, DoneInv
<1>13. CASE NextChunk(d')
  <2>1. /\ Modifies /\ d.pc = Len(d.script) /\ d'.call = d.call /\ d'.script = d.script
        /\ d'.pc = 1 /\ d'.pos = d.pos + Chunk(d.call, d.pos)
    BY <1>13 DEF NextChunk
  <2>2. Step = "status" /\ Step' = "wren"
    BY <1>6, <2>1 DEF Step
  <2>3. ~Busy
    BY <1>8, <2>1, <1>13 DEF Stays, NextChunk, Ready, Modifies
  <2>4. ~Busy'
    BY <1>1, <2>2, <2>3 DEF Busy
  <2> DEFINE reach == Abstract!Reach(d.call)
  <2>5. reach' = reach
    BY <1>1, <2>1, ReachStays
  <2>6. DoneTo(d'.pos)
    BY <1>2, <1>5, <2>1, <2>2, <2>3 DEF DoneInv
  <2>7. DoneTo(d.pos)'
    BY <1>1, <2>1, <2>5, <2>6 DEF DoneTo, DoneCell
  <2>8. DoneInv'
    BY <2>2, <2>7 DEF DoneInv
  <2> QED BY <1>10, <2>4, <2>8 DEF BusyInv
<1>14. CASE NextStep(d')
  <2>1. /\ d.pc < Len(d.script) /\ d'.call = d.call /\ d'.script = d.script
        /\ d'.pc = d.pc + 1 /\ d'.pos = d.pos
    BY <1>14 DEF NextStep
  <2>2. /\ Step' = d.script[d.pc + 1] /\ Operation' = Operation /\ (Modifies' <=> Modifies)
        /\ (Refused(d.call)' <=> Refused(d.call))
    BY <2>1 DEF Step, Operation, Modifies, Refused
  <2>3. ~Busy
    <3>1. ~Stays(d')
      BY <1>6, <2>1 DEF Stays
    <3> QED BY <1>8, <3>1
  <2>4. BusyInv'
    <3> SUFFICES ASSUME Busy' PROVE BusyInv'
      BY DEF BusyInv
    <3>1. chip'.doing # chip.doing
      BY <2>3 DEF Busy
    <3>2. CASE Step = "wrst"
      BY <1>1, <1>2, <1>6, <2>1, <2>2, <3>1, <3>2 DEF BusyInv
    <3>3. CASE Step # "wrst"
      <4>1. /\ Step \in {"erase", "program"} /\ chip'.doing = Operation /\ Modifies
            /\ Sector(At) \notin chip.guard
        BY <1>1, <2>3, <3>1, <3>3
      <4>2. Step' = "status"
        <5>1. d.pc = 2
          <6>1. d.pc \in {1, 2}
            BY <1>6, <2>1, <4>1, Places, Zenon
          <6> QED BY <1>6, <4>1, <6>1 DEF Step
        <5> QED BY <1>6, <2>2, <4>1, <5>1
      <4> QED BY <1>1, <1>2, <2>1, <2>2, <4>1, <4>2 DEF BusyInv, At
    <3> QED BY <3>2, <3>3
  <2>5. DoneInv'
    <3> SUFFICES ASSUME Modifies
                 PROVE  /\ DoneTo(d.pos)'
                        /\ Step' \in {"erase", "program"} => chip'.wel
                        /\ Step' = "status" /\ ~Busy' =>
                             DoneTo(d.pos + Chunk(d.call, d.pos))'
      BY <2>2 DEF DoneInv
    <3> DEFINE reach == Abstract!Reach(d.call)
    <3>1. reach' = reach
      BY <1>1, <2>1, ReachStays
    <3>2. \A q : DoneTo(q)' <=> DoneTo(q)
      BY <1>1, <2>1, <3>1 DEF DoneTo, DoneCell
    <3>3. DoneTo(d.pos) /\ (Step \in {"erase", "program"} => chip.wel)
      BY <1>2, <1>5 DEF DoneInv
    <3>4. d.pc \in {1, 2}
      BY <1>6, <2>1, Places, Zenon
    <3>5. ASSUME Step' \in {"erase", "program"} PROVE chip'.wel
      <4>1. d.pc = 1
        BY <1>6, <2>2, <3>4, <3>5
      <4>2. Step = "wren"
        BY <1>6, <4>1 DEF Step
      <4> QED BY <1>1, <2>3, <4>2
    <3>6. ASSUME Step' = "status", ~Busy' PROVE DoneTo(d.pos + Chunk(d.call, d.pos))
      <4>1. d.pc = 2
        <5>1. d.pc # 1
          <6>1. d.script[1 + 1] = d.script[2]
            OBVIOUS
          <6> QED BY <1>6, <2>2, <3>6, <6>1
        <5> QED BY <3>4, <5>1
      <4>2. Step \in {"erase", "program"}
        BY <1>6, <4>1 DEF Step
      <4>3. chip'.doing # Operation
        BY <3>6 DEF Busy, Operation
      <4>4. Sector(At) \in chip.guard
        BY <1>1, <2>3, <3>3, <4>2, <4>3
      <4> QED BY <1>2, <3>3, <4>4, ProtectedDone
    <3>7. /\ DoneTo(d.pos)'
          /\ DoneTo(d.pos + Chunk(d.call, d.pos)) => DoneTo(d.pos + Chunk(d.call, d.pos))'
      BY <2>1, <3>2, <3>3
    <3> QED BY <3>5, <3>6, <3>7
  <2> QED BY <1>10, <2>4, <2>5
<1> QED BY <1>3, <1>7, <1>11, <1>12, <1>13, <1>14

(* An exchange ends.                                                        *)
LEMMA EndOfExchangeKeeps ==
  ASSUME FlashInv, CallsFit, EndOfExchange, IInv' PROVE FlashInv'
<1>1. ExchangeOver /\ x' = NoPacket /\ d' = AfterExchange
  BY ChipAfter
<1>2. x'.at = "none"
  BY <1>1 DEF NoPacket
<1>3. d'.buf = <<>>
  <2>1. Stays(d') \/ NextStep(d') \/ NextChunk(d') \/ Returns(d') \/ GivesUp(d')
    BY <1>1, Answers, WhatFollows DEF CallsFit
  <2> QED BY <2>1 DEF Stays, NextStep, NextChunk, Returns, GivesUp, IdleDriver
<1>4. WireInv' /\ AnswerInv'
  BY <1>2, <1>3, LengthOfSeq DEF WireInv, AnswerInv, Reading
<1>5. CallInv' /\ ChipInv' /\ CleanInv'
  BY CallAfter, ChipInvAfter, CleanAfter
<1> QED BY <1>4, <1>5 DEF FlashInv

-----------------------------------------------------------------------------
(* The invariant.                                                           *)

(* Nothing happens.                                                         *)
LEMMA NothingKeeps ==
  ASSUME FlashInv, UNCHANGED vars, IInv' PROVE FlashInv'
<1>1. /\ d' = d /\ x' = x /\ txFifo' = txFifo /\ rxFifo' = rxFifo /\ chip' = chip /\ late' = late
  BY DEF vars
<1>2. /\ Step' = Step /\ Job' = Job
  BY <1>1, SameJob
<1>3. PhaseLen(x.phase)' = PhaseLen(x.phase)
  BY <1>1, <1>2 DEF PhaseLen
<1>4. WireInv'
  <2>1. Before' = Before /\ \A i : Wired(i)' = Wired(i)
    BY <1>1, <1>2 DEF Before, Wired
  <2> QED BY <1>1, <1>2, <1>3, <2>1 DEF FlashInv, WireInv
<1>5. AnswerInv'
  <2>1. Reading' <=> Reading
    BY <1>1, <1>2 DEF Reading
  <2>2. \A j, v : Told(j, v)' <=> Told(j, v)
    BY <1>1, <1>2 DEF Told, Busy
  <2> QED BY <1>1, <1>2, <2>1, <2>2 DEF FlashInv, AnswerInv
<1>6. CallInv' /\ ChipInv' /\ CleanInv'
  BY <1>1, WorkStays DEF FlashInv, SameDriver, SameChip
<1> QED BY <1>4, <1>5, <1>6 DEF FlashInv

(* Every step keeps the invariant.                                          *)
LEMMA FlashStep ==
  ASSUME CallsFit, FlashInv, [Next]_vars, IInv' PROVE FlashInv'
<1>1. CASE StartProbe
  BY <1>1, StartKeeps DEF StartProbe
<1>2. CASE StartCall
  BY <1>2, StartKeeps DEF StartCall
<1>3. CASE Program
  BY <1>3, StartCommandKeeps, NextPacketKeeps, StartDataKeeps, TxPollKeeps, RxPollKeeps,
     DmaPollKeeps, EndOfExchangeKeeps, RefuseKeeps DEF Program
<1>4. CASE DmaTx \/ DmaRx \/ Wire \/ ChipDone \/ TimePasses
  BY <1>4, DmaTxKeeps, DmaRxKeeps, WireKeeps, ChipDoneKeeps, TimePassesKeeps
<1>5. CASE UNCHANGED vars
  BY <1>5, NothingKeeps
<1> QED BY <1>1, <1>2, <1>3, <1>4, <1>5 DEF Next

(* The invariant holds for every chip, every call and every order of the    *)
(* steps.                                                                   *)
THEOREM FlashInvariance ==
  ASSUME CallsFit PROVE Spec => []FlashInv
<1>1. Init => FlashInv
  BY InitFlash
<1>2. FlashInv /\ [Next]_vars /\ IInv' => FlashInv'
  BY FlashStep
<1>3. Spec => []IInv
  BY Invariance DEF CallsFit
<1> QED BY <1>1, <1>2, <1>3, PTL DEF Spec

-----------------------------------------------------------------------------
(* The refinement.                                                          *)

(* A chip of any content is a memory of any content.                        *)
LEMMA InitRefines == ASSUME Init PROVE Abstract!Init
<1>1. d.call = NoCall /\ d.buf = <<>> /\ late = {}
  BY DEF Init, IdleDriver
<1>2. chip.cells \in [Abstract!Cells -> {0, 1}] /\ chip.guard \in {{}, {0}}
  BY DEF Init, Abstract!Cells
<1>3. 0 \in Abstract!Cells /\ Abstract!Sector(0) = 0
  <2>1. 0 = SectorSize * 0 + 0 /\ 0 \in 0 .. SectorSize - 1
    BY FlashGeometry
  <2>2. 0 \div SectorSize = 0
    BY <2>1, FlashGeometry, Quotient
  <2> QED BY <2>2, FlashGeometry DEF Abstract!Cells, Abstract!Sector
<1>4. NoCall = Abstract!NoCall /\ NoCall.op = "none"
  BY DEF NoCall, Abstract!NoCall
<1>5. chip.guard \subseteq {Abstract!Sector(i) : i \in Abstract!Cells}
  BY <1>2, <1>3
<1> QED BY <1>1, <1>2, <1>4, <1>5 DEF Abstract!Init

(* Steps that the memory does not show.                                     *)
LEMMA Unseen ==
  ASSUME d'.call = d.call, d'.buf = d.buf \/ d.call.op # "read", chip'.cells = chip.cells,
         chip'.guard = chip.guard, late' = late
  PROVE  UNCHANGED Abstract!vars
BY DEF Abstract!vars

(* A probe is no call of the memory; the others begin.                      *)
LEMMA CallRefines ==
  ASSUME FlashInv, CallsFit, NEW c, c = Probe \/ c \in Calls, Start(c)
  PROVE  UNCHANGED Abstract!vars \/ (c \in Calls /\ Abstract!Begin(c))
<1>1. /\ chip' = chip /\ late' = late /\ d.call = NoCall
      /\ d' = [IdleDriver(d.probed) EXCEPT !.call = c, !.script = Script(c, chip.maker), !.pc = 1]
  BY DEF Start
<1>2. d'.call = c /\ d'.buf = <<>>
  BY <1>1 DEF IdleDriver
<1>3. NoCall = Abstract!NoCall /\ NoCall.op = "none"
  BY DEF NoCall, Abstract!NoCall
<1>4. CASE c = Probe
  <2>1. c.op = "probe"
    BY <1>4 DEF Probe, NoCall
  <2> QED BY <1>1, <1>2, <1>3, <2>1 DEF Abstract!vars
<1>5. CASE c \in Calls
  <2>1. c.op # "probe"
    BY <1>5 DEF CallsFit, CallsWithin
  <2> QED BY <1>1, <1>2, <1>3, <1>5, <2>1 DEF Abstract!Begin
<1> QED BY <1>4, <1>5

(* The driver takes an answer.                                              *)
LEMMA AnswerRefines ==
  ASSUME FlashInv, RxPoll \/ DmaRx
  PROVE  UNCHANGED Abstract!vars
         \/ Abstract!Fill(IF d'.call.op = "read" THEN d'.buf ELSE <<>>)
<1>1. d' = Receive(Head(rxFifo)) /\ chip' = chip /\ late' = late
  BY DEF RxPoll, DmaRx
<1>2. d'.call = d.call
  BY <1>1, ReceiveOk DEF FlashInv, IInv
<1>3. CASE d.call.op # "read"
  BY <1>1, <1>2, <1>3, Unseen
<1>4. CASE d.call.op = "read"
  BY <1>1, <1>2, <1>4 DEF Abstract!Fill
<1> QED BY <1>3, <1>4

(* The chip's operation ends.                                               *)
LEMMA ChangeRefines ==
  ASSUME FlashInv, ChipDone PROVE Abstract!Change(chip'.cells)
<1>1. d' = d /\ late' = late
  BY DEF ChipDone
<1>2. /\ chip'.guard = chip.guard
      /\ \A i \in Cells : chip'.cells[i] = Leaves(chip, i)
  BY Finished DEF FlashInv, IInv
<1> DEFINE c == IF d.call.op = "probe" THEN NoCall ELSE d.call
<1>3. ASSUME NEW i \in Abstract!Cells, chip'.cells[i] # chip.cells[i]
      PROVE  \/ i \in late
             \/ i \in Abstract!Reach(c) /\ Abstract!MayLeave(c, i, chip'.cells[i])
  <2>1. i \in Cells
    BY DEF Cells, Abstract!Cells
  <2> DEFINE v == Leaves(chip, i)
  <2>2. chip'.cells[i] = v /\ v # chip.cells[i]
    BY <1>2, <1>3, <2>1
  <2>3. i \in late \/ Asked(i, v)
    BY <2>1, <2>2 DEF FlashInv, ChipInv
  <2>4. ASSUME Asked(i, v) PROVE c = d.call
    <3>1. Abstract!Reach(d.call) # {} /\ d.call \in AllCalls
      BY <2>4 DEF Asked, FlashInv, IInv, DriverOk
    <3> QED BY <3>1, NothingAsked
  <2> HIDE DEF c
  <2> QED BY <2>2, <2>3, <2>4 DEF Asked
<1> QED BY <1>1, <1>2, <1>3 DEF Abstract!Change

(* A call is refused: it asks for nothing.                                  *)
LEMMA RefuseRefines ==
  ASSUME FlashInv, Refuse PROVE Abstract!GiveUp
<1>1. /\ d.call # NoCall /\ Refused(d.call) /\ chip' = chip /\ late' = late
      /\ d' = IdleDriver(d.probed)
  BY DEF Refuse
<1>2. d'.call = NoCall /\ d'.call.op = "none" /\ d.call.op = "erase"
  BY <1>1 DEF IdleDriver, NoCall, Refused
<1>3. d.call \in AllCalls
  BY DEF FlashInv, IInv, DriverOk
<1>4. Abstract!Reach(d.call) = {}
  BY <1>1, <1>3, NothingAsked
<1>5. NoCall = Abstract!NoCall
  BY DEF NoCall, Abstract!NoCall
<1> QED BY <1>1, <1>2, <1>4, <1>5 DEF Abstract!GiveUp

-----------------------------------------------------------------------------
(* A call that returns has done what it was asked.                          *)
LEMMA ReturnsDone ==
  ASSUME FlashInv, CallsFit, ExchangeOver, Returns(d'), late = {}, d.call.op # "probe"
  PROVE  Abstract!Done(IF d.call.op = "probe" THEN NoCall ELSE d.call)
<1>1. /\ d.call # NoCall /\ ~Refused(d.call) /\ DriverOk(d) /\ CallInv
      /\ Step = "status" => (Wip \/ ~Busy)
  BY Answers
<1>2. /\ Ready /\ d.pc = Len(d.script) /\ ~(d.pos + Chunk(d.call, d.pos) < d.call.len)
  BY DEF Returns
<1>3. /\ d.pc \in 1 .. Len(d.script) /\ Len(d.script) \in Nat
      /\ d.call.op \in {"probe", "erase", "write", "read"}
      /\ Modifies => Len(d.script) = 3 /\ d.script[3] = "status"
      /\ d.call.op = "read" => Len(d.script) = 1 /\ d.script[1] = "read"
  BY <1>1, StepPlaces DEF CallsFit, Modifies
<1> DEFINE n == Chunk(d.call, d.pos)
           reach == Abstract!Reach(d.call)
<1>4. CASE Modifies
  <2>1. Step = "status"
    BY <1>2, <1>3, <1>4 DEF Step
  <2>2. DoneTo(d.pos + n)
    BY <1>1, <1>2, <1>4, <2>1 DEF FlashInv, CleanInv, DoneInv, Ready
  <2>3. /\ d.call.addr \in Nat /\ d.call.len \in Nat /\ d.pos \in Nat /\ n \in Nat
        /\ d.call.addr + d.call.len <= Cap /\ d.call.len >= 1
        /\ d.call.op = "erase" => d.call.addr % SectorSize = 0 /\ d.call.len % SectorSize = 0
    BY <1>1, <1>4, Position, ChunkNat
  <2>4. ASSUME NEW i \in reach \cap Abstract!Extent(d.call) PROVE DoneCell(i)
    <3>1. i \in Int /\ i < d.call.addr + d.call.len
      BY FlashGeometry DEF Abstract!Extent, Abstract!Cells
    <3>2. i < d.call.addr + (d.pos + n)
      <4> HIDE DEF n
      <4>1. ~(d.pos + n < d.call.len)
        BY <1>2 DEF n
      <4> QED BY <2>3, <3>1, <4>1
    <3> QED BY <2>2, <2>4, <3>2 DEF DoneTo
  <2>5. CASE d.call.op = "erase"
    <3>1. Abstract!Legal(d.call)
      BY <2>3, <2>5 DEF Abstract!Legal
    <3>2. reach \subseteq Abstract!Extent(d.call)
      BY <2>5 DEF Abstract!Reach
    <3>3. \A i \in reach : chip.cells[i] = 1
      BY <2>4, <2>5, <3>2 DEF DoneCell
    <3> HIDE DEF reach
    <3> QED BY <2>5, <3>1, <3>3 DEF Abstract!Done, reach
  <2>6. CASE d.call.op = "write"
    <3>1. \A i \in reach \cap Abstract!Extent(d.call) :
             Abstract!Aligned(d.call) => chip.cells[i] <= Data(d.call, i - d.call.addr)
      BY <2>4, <2>6 DEF DoneCell
    <3>2. \A j : Abstract!Data(d.call, j) = Data(d.call, j)
      BY DEF Data, Abstract!Data
    <3> HIDE DEF reach
    <3> QED BY <2>6, <3>1, <3>2 DEF Abstract!Done, reach
  <2> QED BY <1>4, <2>5, <2>6 DEF Modifies
<1>5. CASE d.call.op = "read"
  <2>1. Step = "read"
    BY <1>2, <1>3, <1>5 DEF Step
  <2>2. Job.in = d.call.len
    BY <1>1, <2>1, Jobs
  <2>3. d.call \in Calls
    BY <1>1, <1>5 DEF CallInv, Probe, NoCall
  <2>4. d.call.len \in Nat /\ d.call.len >= 1
    BY <1>1, <1>5, <2>3, FlashGeometry DEF CallsFit, CallsInside, DriverOk, AllCalls
  <2>5. /\ Len(d.buf) = d.call.len /\ IsSeq(d.buf)
        /\ \A j \in 1 .. d.call.len : Told(j, d.buf[j])
    <3>1. Job.in > 0
      BY <2>2, <2>4
    <3> QED BY <2>2, <3>1, AllSent
  <2>6. \A j \in 1 .. d.call.len : d.buf[j] = chip.cells[d.call.addr + j - 1]
    BY <2>1, <2>5 DEF Told
  <2>7. d.buf = [j \in 1 .. d.call.len |-> chip.cells[d.call.addr + j - 1]]
    <3>1. d.buf = [j \in 1 .. Len(d.buf) |-> d.buf[j]]
      BY <2>5, SMTT(60) DEF IsSeq
    <3> QED BY <2>5, <2>6, <3>1
  <2> QED BY <1>5, <2>7 DEF Abstract!Done
<1> QED BY <1>3, <1>4, <1>5 DEF Modifies

(* An exchange ends: the call goes on, returns or gives up.                 *)
LEMMA EndRefines ==
  ASSUME FlashInv, CallsFit, EndOfExchange
  PROVE  UNCHANGED Abstract!vars \/ Abstract!Return \/ Abstract!GiveUp
<1>1. /\ ExchangeOver /\ chip'.cells = chip.cells /\ chip'.guard = chip.guard
      /\ d' = AfterExchange
      /\ late' = IF d'.call = NoCall /\ Step = "status" /\ Wip
                 THEN late \cup Reach(d.call) ELSE late
  BY ChipAfter
<1>2. d.call # NoCall /\ ~Refused(d.call) /\ DriverOk(d) /\ CallInv
  BY <1>1, Answers
<1>3. Stays(d') \/ NextStep(d') \/ NextChunk(d') \/ Returns(d') \/ GivesUp(d')
  BY <1>1, <1>2, WhatFollows DEF CallsFit
<1>4. /\ d.pc \in 1 .. Len(d.script) /\ Len(d.script) \in Nat
      /\ d.call.op \in {"probe", "erase", "write", "read"}
      /\ d.call.op = "read" => Len(d.script) = 1 /\ d.script[1] = "read"
  BY <1>2, StepPlaces DEF CallsFit
<1>5. d.call.op = "read" => d.pc = 1 /\ Step = "read"
  <2>1. d.call.op = "read" => d.pc = 1
    BY <1>4, Places, Zenon
  <2> QED BY <1>4, <2>1 DEF Step
<1>6. NoCall = Abstract!NoCall /\ NoCall.op = "none"
  BY DEF NoCall, Abstract!NoCall
<1>7. CASE Stays(d') \/ NextStep(d') \/ NextChunk(d')
  <2>1. d'.call = d.call
    BY <1>7 DEF Stays, NextStep, NextChunk
  <2>2. d.call.op # "read"
    <3> SUFFICES ASSUME d.call.op = "read" PROVE FALSE
      OBVIOUS
    <3>1. d.pc = 1 /\ Len(d.script) = 1 /\ Step = "read"
      BY <1>4, <1>5, Zenon
    <3>2. ~(d.pc < Len(d.script)) /\ Step # "status"
      BY <3>1
    <3>3. ~Modifies
      BY DEF Modifies
    <3> QED BY <1>7, <3>2, <3>3 DEF Stays, NextStep, NextChunk
  <2> QED BY <1>1, <1>2, <2>1, <2>2, Unseen
<1>8. CASE GivesUp(d')
  <2>1. /\ Step = "status" /\ Wip /\ d.call.op # "probe" /\ d'.call = NoCall /\ d'.buf = <<>>
    BY <1>8 DEF GivesUp, IdleDriver
  <2>2. d.call.op \in {"erase", "write"}
    BY <1>4, <1>5, <2>1
  <2>3. late' = late \cup Abstract!Reach(d.call)
    BY <1>1, <1>2, <2>1, ReachAgrees
  <2> QED BY <1>1, <1>6, <2>1, <2>2, <2>3 DEF Abstract!GiveUp
<1>9. CASE Returns(d')
  <2>1. d'.call = NoCall /\ d'.buf = <<>> /\ (Step = "status" /\ Wip => d.call.op = "probe")
    BY <1>9 DEF Returns, Ready, IdleDriver
  <2>2. CASE d.call.op = "probe"
    <3>1. Reach(d.call) = {}
      BY <2>2 DEF Reach
    <3>2. late' = late
      BY <1>1, <3>1
    <3> QED BY <1>1, <1>6, <2>1, <2>2, <3>2 DEF Abstract!vars
  <2>3. CASE d.call.op # "probe"
    <3>1. late' = late
      BY <1>1, <2>1, <2>3
    <3>2. late = {} => Abstract!Done(IF d.call.op = "probe" THEN NoCall ELSE d.call)
      BY <1>1, <1>9, <2>3, ReturnsDone
    <3> QED BY <1>1, <1>2, <1>6, <2>1, <2>3, <3>1, <3>2 DEF Abstract!Return
  <2> QED BY <2>2, <2>3
<1> QED BY <1>3, <1>7, <1>8, <1>9

(* Every step is one of the memory, or one it does not show.                *)
LEMMA StepRefines ==
  ASSUME FlashInv, CallsFit, [Next]_vars PROVE [Abstract!Next]_Abstract!vars
<1>1. CASE StartProbe
  <2>1. Start(Probe)
    BY <1>1 DEF StartProbe
  <2> QED BY <2>1, CallRefines DEF Abstract!Next
<1>2. CASE StartCall
  <2>1. PICK c \in Calls : Start(c)
    BY <1>2 DEF StartCall
  <2> QED BY <2>1, CallRefines DEF Abstract!Next
<1>3. CASE RxPoll \/ DmaRx
  BY <1>3, AnswerRefines DEF Abstract!Next
<1>4. CASE ChipDone
  BY <1>4, ChangeRefines DEF Abstract!Next
<1>5. CASE Refuse
  BY <1>5, RefuseRefines DEF Abstract!Next
<1>6. CASE EndOfExchange
  BY <1>6, EndRefines DEF Abstract!Next
<1>7. CASE TimePasses
  <2>1. /\ d'.call = d.call /\ d'.buf = d.buf /\ chip' = chip /\ late' = late
    BY <1>7 DEF TimePasses, FlashInv, IInv, DriverOk
  <2> QED BY <2>1, Unseen
<1>8. CASE StartCommand \/ Wire
  <2>1. d' = d /\ late' = late /\ chip'.cells = chip.cells /\ chip'.guard = chip.guard
    BY <1>8 DEF StartCommand, Wire, FlashInv, IInv, ChipOk
  <2> QED BY <2>1, Unseen
<1>9. CASE NextPacket \/ StartData \/ TxPoll \/ DmaTx \/ DmaPoll \/ UNCHANGED vars
  <2>1. d' = d /\ late' = late /\ chip' = chip
    BY <1>9 DEF NextPacket, StartData, TxPoll, DmaTx, DmaPoll, vars
  <2> QED BY <2>1, Unseen
<1> QED BY <1>1, <1>2, <1>3, <1>4, <1>5, <1>6, <1>7, <1>8, <1>9 DEF Next, Program

(* The driver over the packets, FIFOs, channels and the chip keeps the      *)
(* promises of a NOR memory.                                                *)
THEOREM Refinement ==
  ASSUME CallsFit PROVE Spec => KeepsPromises
<1>1. Init => Abstract!Init
  BY InitRefines
<1>2. FlashInv /\ [Next]_vars => [Abstract!Next]_Abstract!vars
  BY StepRefines
<1>3. Spec => []FlashInv
  BY FlashInvariance
<1> QED BY <1>1, <1>2, <1>3, PTL DEF Spec, KeepsPromises, Abstract!Spec
=============================================================================
