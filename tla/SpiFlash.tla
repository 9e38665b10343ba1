------------------------------- MODULE SpiFlash -------------------------------
(***************************************************************************)
(* The SPI flash driver (cdl/spi_flash/cdl_spi_flash.c) over the packets   *)
(* of its caller (spi_xfer_packet, test/spi/test_spi.c), the SPI driver    *)
(* (cdl/spi/cdl_spi.c, polled by the CPU or moved by two DMA channels) and *)
(* the flash chip.                                                         *)
(*                                                                         *)
(* Actors: the program, the SPI controller that shifts words, the DMA      *)
(* controller, the chip's erase and program operations, and time.  A call  *)
(* is a script of exchanges, an exchange one or two phases (command, data) *)
(* under one chip select, a phase packets of at most FifoSize words.       *)
(***************************************************************************)
EXTENDS Integers, Sequences, Dmac

CONSTANTS
  Cap, SectorSize, PageSize,  (* geometry of the chip; a cell is one bit   *)
  AddrMod,     (* addresses and lengths are uint32_t: 2^32                  *)
  FifoSize,    (* words in each FIFO of the controller, 8 in the chip       *)
  Calls,       (* the calls the program may make                            *)
  MaxSlow      (* bound of the model: erase and program operations that may *)
               (* take longer than the driver waits                         *)

ASSUME FlashAssumption ==
  /\ Cap \in Nat \ {0} /\ SectorSize \in Nat \ {0} /\ PageSize \in Nat \ {0}
  /\ FifoSize \in Nat \ {0} /\ MaxSlow \in Nat /\ AddrMod \in Nat /\ Cap < AddrMod

VARIABLES
  mode,    (* "cpu" or "dma", chosen in spi_init                            *)
  d,       (* the flash driver: call, position in it and in its script      *)
  x,       (* the packet being exchanged                                    *)
  txFifo, rxFifo,
  lost,    (* a word came in while the receive FIFO was full                *)
  dma,     (* channels 0 (transmit) and 1 (receive)                         *)
  chip,    (* the flash chip                                                *)
  slow,    (* chip operations so far that take long                         *)
  late     (* cells that calls which gave up had asked for; no code         *)

vars == <<mode, d, x, txFifo, rxFifo, lost, dma, chip, slow, late>>

Least(a, b) == IF a < b THEN a ELSE b

-----------------------------------------------------------------------------
(* The flash driver: a call is a script, repeated for every sector or page. *)

NoCall == [op |-> "none", addr |-> 0, len |-> 0, data |-> 0]
Probe == [NoCall EXCEPT !.op = "probe"]
Data(c, i) == IF c.data = 0 THEN 0 ELSE i % 2

EraseScript == <<"wren", "erase", "status">>
WriteScript == <<"wren", "program", "status">>
ProbeScript(maker) ==
  <<"wren", "rsten", "rst", "status", "id", "rdst">>
    \o (IF maker = "winbond" THEN <<"rdst1">> ELSE <<>>) \o <<"wren", "wrst", "status">>
Script(c, maker) == CASE c.op = "erase" -> EraseScript
                      [] c.op = "write" -> WriteScript
                      [] c.op = "read" -> <<"read">>
                      [] c.op = "probe" -> ProbeScript(maker)

Chunk(c, pos) == CASE c.op = "erase" -> SectorSize
                   [] c.op = "write" -> Least(c.len - pos, PageSize)
                   [] OTHER -> c.len

(* What a step of the script puts on the wire: the command, the data that   *)
(* follows it, the words to read.  Winbond parts have a second status byte, *)
(* ISSI parts none; for any other part a zero is written to it.             *)
Exchange(cmd, out, in) == [cmd |-> cmd, out |-> out, in |-> in]
Status2(maker) == IF maker = "issi" THEN <<>> ELSE <<d.st1>>
Job ==
  LET c == d.call
      at == c.addr + d.pos
      n == Chunk(c, d.pos)
  IN CASE d.script[d.pc] = "wren" -> Exchange(<<6>>, <<>>, 0)
       [] d.script[d.pc] = "rsten" -> Exchange(<<102>>, <<>>, 0)
       [] d.script[d.pc] = "rst" -> Exchange(<<153>>, <<>>, 0)
       [] d.script[d.pc] = "status" -> Exchange(<<5>>, <<>>, 1)
       [] d.script[d.pc] = "id" -> Exchange(<<159>>, <<>>, 1)
       [] d.script[d.pc] = "rdst" -> Exchange(<<5>>, <<>>, 1)
       [] d.script[d.pc] = "rdst1" -> Exchange(<<53>>, <<>>, 1)
       [] d.script[d.pc] = "wrst" -> Exchange(<<1, d.st>> \o Status2(chip.maker), <<>>, 0)
       [] d.script[d.pc] = "erase" -> Exchange(<<32, at>>, <<>>, 0)
       [] d.script[d.pc] = "program" ->
            Exchange(<<2, at>>, [i \in 1 .. n |-> Data(c, d.pos + i - 1)], 0)
       [] d.script[d.pc] = "read" -> Exchange(<<11, at, 0>>, <<>>, c.len)

(* sf_erase_sec refuses what is not whole sectors inside the chip; the sum  *)
(* of the two uint32_t wraps.                                               *)
Refused(c) ==
  /\ c.op = "erase"
  /\ \/ (c.addr + c.len) % AddrMod > Cap
     \/ c.addr % SectorSize # 0 \/ c.len % SectorSize # 0 \/ c.len = 0

IdleDriver(probed) ==
  [call |-> NoCall, probed |-> probed, script |-> <<>>, pc |-> 0, pos |-> 0,
   buf |-> <<>>, st |-> 0, st1 |-> 0, elapsed |-> FALSE]
NoPacket == [phase |-> "none", base |-> 0, len |-> 0, tx |-> 0, rx |-> 0, at |-> "none"]

(* A caller probes the chip first, and stops when that fails.               *)
Start(c) ==
  /\ d.call = NoCall
  /\ d' = [IdleDriver(d.probed) EXCEPT !.call = c, !.script = Script(c, chip.maker), !.pc = 1]
  /\ UNCHANGED <<mode, x, txFifo, rxFifo, lost, dma, chip, slow, late>>
StartProbe == ~d.probed /\ Start(Probe)
StartCall == d.probed /\ \E c \in Calls : Start(c)

(* The cells a call that gave up had asked for.                             *)
Sector(i) == i \div SectorSize
Reach(c) == {i \in 0 .. Cap - 1 :
               /\ Sector(i) \notin chip.guard
               /\ CASE c.op = "erase" -> c.addr <= i /\ i < c.addr + c.len
                    [] c.op = "write" -> i \div PageSize \in c.addr \div PageSize
                                            .. (c.addr + c.len - 1) \div PageSize
                    [] OTHER -> FALSE}

Refuse ==
  /\ d.call # NoCall /\ Refused(d.call)
  /\ d' = IdleDriver(d.probed)
  /\ UNCHANGED <<mode, x, txFifo, rxFifo, lost, dma, chip, slow, late>>

-----------------------------------------------------------------------------
(* Packets: spi_xfer_packet, and spi_xfer for each.                         *)

PhaseLen(phase) == IF phase = "cmd" THEN Len(Job.cmd)
                   ELSE IF Job.in > 0 THEN Job.in ELSE Len(Job.out)
PacketLen_Whole(left) == left
PacketLen(left) == Least(left, FifoSize)
Packet(phase, base) ==
  [phase |-> phase, base |-> base, len |-> PacketLen(PhaseLen(phase) - base),
   tx |-> 0, rx |-> 0, at |-> IF mode = "cpu" THEN "tx" ELSE "dma"]

(* In DMA mode both channels are started, the transmit channel first.       *)
StartDma(len) ==
  dma' = IF mode = "cpu" THEN dma
         ELSE StartChannel(StartChannel(dma, 0, SpiTx(8), len), 1, SpiRx(8), len)

(* Chip select goes low and the command's first packet starts.              *)
StartCommand ==
  /\ d.call # NoCall /\ ~Refused(d.call) /\ x.at = "none" /\ d.script # <<>>
  /\ x' = Packet("cmd", 0) /\ StartDma(x'.len)
  /\ chip' = [chip EXCEPT !.sel = TRUE]
  /\ UNCHANGED <<mode, d, txFifo, rxFifo, lost, slow, late>>
NextPacket ==
  /\ x.at = "end" /\ x.base + x.len < PhaseLen(x.phase)
  /\ x' = Packet(x.phase, x.base + x.len) /\ StartDma(x'.len)
  /\ UNCHANGED <<mode, d, txFifo, rxFifo, lost, chip, slow, late>>
(* The data phase follows the command under the same chip select; what is   *)
(* left in the receive FIFO is dropped.                                     *)
StartData ==
  /\ x.at = "end" /\ x.base + x.len = PhaseLen(x.phase) /\ txFifo = <<>>
  /\ x.phase = "cmd" /\ (Job.in > 0 \/ Job.out # <<>>)
  /\ x' = Packet("data", 0) /\ StartDma(x'.len)
  /\ rxFifo' = <<>>
  /\ UNCHANGED <<mode, d, txFifo, lost, chip, slow, late>>

(* The word sent at index i of the phase: the buffer's, zero when there is  *)
(* none and the CPU sends, what is at address 0 when the DMA does.          *)
Word(i) ==
  IF x.phase = "cmd" THEN Job.cmd[i] ELSE IF Job.out # <<>> THEN Job.out[i] ELSE 0
(* A received word goes to the buffer of a read.                            *)
Receive(w) ==
  IF x.phase = "data" /\ Job.in > 0 THEN [d EXCEPT !.buf = Append(@, w)] ELSE d

(* spi_tx_cpu_poll: as long as there is room.                               *)
TxPoll ==
  /\ x.at = "tx"
  /\ IF x.tx < x.len /\ Len(txFifo) < FifoSize
     THEN /\ txFifo' = Append(txFifo, Word(x.base + x.tx + 1))
          /\ x' = [x EXCEPT !.tx = @ + 1]
     ELSE x' = [x EXCEPT !.at = "rx"] /\ UNCHANGED txFifo
  /\ UNCHANGED <<mode, d, rxFifo, lost, dma, chip, slow, late>>
(* spi_rx_cpu_poll: waits for a word, then takes all there are.             *)
RxPoll ==
  /\ x.at = "rx" /\ rxFifo # <<>>
  /\ rxFifo' = Tail(rxFifo)
  /\ d' = Receive(Head(rxFifo))
  /\ x' = [x EXCEPT !.rx = @ + 1,
                    !.at = IF x.rx + 1 = x.len THEN "end"
                           ELSE IF Len(rxFifo) = 1 THEN "tx" ELSE "rx"]
  /\ UNCHANGED <<mode, txFifo, lost, dma, chip, slow, late>>

(* spi_xfer_dma: the channels move words as the FIFOs ask for them; the     *)
(* program polls channel 0, then channel 1.                                 *)
DmaTx ==
  /\ dma[0].en /\ Len(txFifo) < FifoSize
  /\ txFifo' = Append(txFifo, Word(x.base + x.tx + 1))
  /\ x' = [x EXCEPT !.tx = @ + 1]
  /\ dma' = Move(dma, 0)
  /\ UNCHANGED <<mode, d, rxFifo, lost, chip, slow, late>>
DmaRx ==
  /\ dma[1].en /\ rxFifo # <<>>
  /\ rxFifo' = Tail(rxFifo)
  /\ d' = Receive(Head(rxFifo))
  /\ dma' = Move(dma, 1)
  /\ UNCHANGED <<mode, x, txFifo, lost, chip, slow, late>>
DmaPoll_TransmitOnly ==
  /\ x.at = "dma" /\ dma[0].done
  /\ x' = [x EXCEPT !.at = "end"]
  /\ UNCHANGED <<mode, d, txFifo, rxFifo, lost, dma, chip, slow, late>>
DmaPoll ==
  /\ x.at = "dma" /\ dma[0].done /\ dma[1].done
  /\ x' = [x EXCEPT !.at = "end"]
  /\ UNCHANGED <<mode, d, txFifo, rxFifo, lost, dma, chip, slow, late>>

-----------------------------------------------------------------------------
(* The chip.                                                                *)

(* What it answers while a word comes in: status, second status, maker,     *)
(* cells; a busy chip answers its status only.                              *)
Busy == chip.doing.op # "none"
StatusWord == (IF Busy THEN 1 ELSE 0) + (IF chip.guard = {} THEN 0 ELSE 4)
Reply ==
  LET n == Len(chip.words) + 1
      op == IF n = 1 THEN 0 ELSE chip.words[1]
  IN CASE op = 5 -> StatusWord
       [] Busy /\ op # 5 -> 1
       [] ~Busy /\ op = 53 -> chip.st1
       [] ~Busy /\ op = 11 /\ n > 3 -> chip.cells[(chip.words[2] + n - 4) % Cap]
       [] OTHER -> 0

Wire ==
  /\ txFifo # <<>> /\ chip.sel
  /\ txFifo' = Tail(txFifo)
  /\ IF Len(rxFifo) < FifoSize THEN rxFifo' = Append(rxFifo, Reply) /\ UNCHANGED lost
     ELSE lost' = TRUE /\ UNCHANGED rxFifo
  /\ chip' = [chip EXCEPT !.words = Append(@, Head(txFifo))]
  /\ UNCHANGED <<mode, d, x, dma, slow, late>>

(* The end of chip select starts the command, if writing is enabled and the *)
(* sector is not protected.  Programming wraps around in a page.            *)
NothingDoing == [op |-> "none", at |-> 0, ws |-> <<>>]
Command ==
  LET ws == chip.words
      op == ws[1]
      go(e) == [e EXCEPT !.doing = [op |-> CASE op = 32 -> "erase" [] op = 2 -> "program"
                                             [] op = 1 -> "wrst",
                                    at |-> IF op = 1 THEN 0 ELSE ws[2] % Cap,
                                    ws |-> SubSeq(ws, IF op = 1 THEN 2 ELSE 3, Len(ws))]]
  IN CASE Busy -> chip
       [] ~Busy /\ op = 6 -> [chip EXCEPT !.wel = TRUE]
       [] ~Busy /\ op = 153 -> [chip EXCEPT !.wel = FALSE]
       [] ~Busy /\ op \in {1, 2, 32} /\ chip.wel ->
            IF op # 1 /\ Sector(ws[2] % Cap) \in chip.guard
            THEN [chip EXCEPT !.wel = FALSE] ELSE go(chip)
       [] OTHER -> chip

ChipDone ==
  /\ Busy
  /\ chip' = [chip EXCEPT
       !.wel = FALSE, !.doing = NothingDoing, !.slow = FALSE,
       !.st1 = IF chip.doing.op = "wrst" /\ Len(chip.doing.ws) = 2 THEN chip.doing.ws[2] ELSE @,
       !.guard = IF chip.doing.op = "wrst" /\ chip.doing.ws[1] = 0 THEN {} ELSE @,
       !.cells = CASE chip.doing.op = "erase" ->
                        [i \in DOMAIN @ |-> IF Sector(i) = Sector(chip.doing.at) THEN 1 ELSE @[i]]
                   [] chip.doing.op = "program" ->
                        [i \in DOMAIN @ |->
                           LET page == chip.doing.at \div PageSize
                               k == ((i - chip.doing.at) % PageSize) + 1
                           IN IF i \div PageSize = page /\ k <= Len(chip.doing.ws)
                              THEN @[i] * chip.doing.ws[k] ELSE @[i]]
                   [] OTHER -> @]
  /\ UNCHANGED <<mode, d, x, txFifo, rxFifo, lost, dma, slow, late>>

(* The 500 ms of sf_chk_st pass, if the chip takes that long.               *)
TimePasses ==
  /\ chip.slow /\ d.call # NoCall /\ ~d.elapsed /\ d.script[d.pc] = "status"
  /\ d' = [d EXCEPT !.elapsed = TRUE]
  /\ UNCHANGED <<mode, x, txFifo, rxFifo, lost, dma, chip, slow, late>>

-----------------------------------------------------------------------------
(* The end of an exchange: chip select goes high, and the driver goes on    *)
(* with its script.                                                         *)

GoOn_EnableOnce(e) ==
  IF e.pc < Len(e.script) THEN [e EXCEPT !.pc = @ + 1, !.elapsed = FALSE]
  ELSE LET pos == e.pos + Chunk(e.call, e.pos)
       IN IF pos < e.call.len THEN [e EXCEPT !.pc = 2, !.pos = pos, !.elapsed = FALSE]
          ELSE IdleDriver(TRUE)
GoOn(e) ==
  IF e.pc < Len(e.script) THEN [e EXCEPT !.pc = @ + 1, !.elapsed = FALSE]
  ELSE LET pos == e.pos + Chunk(e.call, e.pos)
       IN IF pos < e.call.len THEN [e EXCEPT !.pc = 1, !.pos = pos, !.elapsed = FALSE]
          ELSE IdleDriver(TRUE)

(* sf_chk_st, when the status has been read: ready, try again, or give up;  *)
(* the probe ignores that it gave up.                                       *)
Wip == d.buf[1] % 2 = 1
AfterStatus_NoTimeout(e) == IF Wip THEN e ELSE GoOn(e)
AfterStatus(e) ==
  IF ~Wip THEN GoOn(e)
  ELSE IF ~d.elapsed THEN e
  ELSE IF d.call.op = "probe" THEN GoOn(e) ELSE IdleDriver(TRUE)

AfterExchange ==
  LET e == IF d.call.op = "read" THEN d ELSE [d EXCEPT !.buf = <<>>]
  IN CASE d.script[d.pc] = "status" -> AfterStatus(e)
       [] d.script[d.pc] = "rdst" -> GoOn([e EXCEPT !.st = d.buf[1]])
       [] d.script[d.pc] = "rdst1" -> GoOn([e EXCEPT !.st1 = d.buf[1]])
       [] OTHER -> GoOn(e)

EndExchange(isSlow) ==
  /\ x.at = "end" /\ x.base + x.len = PhaseLen(x.phase) /\ txFifo = <<>>
  /\ x.phase = "data" \/ (Job.in = 0 /\ Job.out = <<>>)
  /\ rxFifo' = <<>>
  /\ x' = NoPacket
  /\ d' = AfterExchange
  /\ isSlow => /\ ~Busy /\ Command.doing.op \in {"erase", "program"}
                /\ slow < MaxSlow
  /\ slow' = IF isSlow THEN slow + 1 ELSE slow
  /\ chip' = [Command EXCEPT !.sel = FALSE, !.words = <<>>, !.slow = @ \/ isSlow]
  /\ late' = IF d'.call = NoCall /\ d.script[d.pc] = "status" /\ Wip
             THEN late \cup Reach(d.call) ELSE late
  /\ UNCHANGED <<mode, txFifo, lost, dma>>
EndOfExchange == \E isSlow \in BOOLEAN : EndExchange(isSlow)

-----------------------------------------------------------------------------
(* After spi_init and sf_set_controller, with a chip of any content.        *)
Init ==
  /\ mode \in {"cpu", "dma"}
  /\ d = IdleDriver(FALSE) /\ x = NoPacket
  /\ txFifo = <<>> /\ rxFifo = <<>> /\ lost = FALSE
  /\ dma = [ch \in {0, 1} |-> IdleChannel]
  /\ \E maker \in {"winbond", "issi", "gigadevice"}, g \in {{}, {0}}, v \in {0, 1} :
       chip = [maker |-> maker, cells |-> [i \in 0 .. Cap - 1 |-> v], guard |-> g, st1 |-> v,
               wel |-> FALSE, sel |-> FALSE, words |-> <<>>, doing |-> NothingDoing,
               slow |-> FALSE]
  /\ slow = 0 /\ late = {}

Program == StartCommand \/ NextPacket \/ StartData \/ TxPoll \/ RxPoll \/ DmaPoll
           \/ EndOfExchange \/ Refuse
Next == StartProbe \/ StartCall \/ Program \/ DmaTx \/ DmaRx \/ Wire \/ ChipDone \/ TimePasses

Spec == Init /\ [][Next]_vars

(* The program runs, the controllers shift and move, time passes; a chip    *)
(* operation ends unless it is one of those that take too long.             *)
FairSpec ==
  /\ Spec /\ WF_vars(Program) /\ WF_vars(DmaTx) /\ WF_vars(DmaRx) /\ WF_vars(Wire)
  /\ WF_vars(~chip.slow /\ ChipDone) /\ WF_vars(TimePasses)

-----------------------------------------------------------------------------
(* Properties.                                                              *)

(* The driver sends the commands of its script for a position inside the    *)
(* call, and between exchanges nothing is selected, queued or moving.       *)
TypeOK ==
  /\ d.pos \in 0 .. Cap /\ d.pc \in 0 .. Len(d.script)
  /\ Len(txFifo) <= FifoSize /\ Len(rxFifo) <= FifoSize
  /\ x.tx <= x.len /\ x.rx <= x.len
  /\ x.at = "none" =>
       /\ x = NoPacket /\ ~chip.sel /\ chip.words = <<>>
       /\ txFifo = <<>> /\ rxFifo = <<>> /\ ~dma[0].en /\ ~dma[1].en

(* No word is lost: a packet never has more words under way than the        *)
(* receive FIFO holds, however slowly the program reads them.               *)
NoOverrun == ~lost

(* The calls keep the promises of a NOR memory (FlashMemory), in which a    *)
(* call that returns 0 has done its work outside the protected sectors.     *)
Abstract ==
  INSTANCE FlashMemory WITH
    mem <- chip.cells, guard <- chip.guard, late <- late,
    call <- IF d.call.op = "probe" THEN NoCall ELSE d.call,
    buf <- IF d.call.op = "read" THEN d.buf ELSE <<>>
KeepsPromises == Abstract!Spec

(* An erase that returns 0 has erased its whole range: "0: erase ok", and   *)
(* the probe is to have unprotected the blocks ("unportect blocks").  It    *)
(* has not: sf_blk_unprotect writes the status back as it was, the chip     *)
(* refuses the erase of a protected sector, and sf_chk_st sees it ready.    *)
EraseOk ==
  [][d.call.op = "erase" /\ ~Refused(d.call) /\ late = {} /\ d'.call = NoCall /\ ~Wip =>
       \A i \in d.call.addr .. d.call.addr + d.call.len - 1 : chip'.cells[i] = 1]_vars

(* Every call returns, whatever the chip does.                              *)
CallEnds == d.call # NoCall ~> d.call = NoCall
=============================================================================
