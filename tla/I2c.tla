--------------------------------- MODULE I2c ---------------------------------
(***************************************************************************)
(* The I2C driver as a master (cdl/i2c/cdl_i2c.c: i2c_init_master,         *)
(* i2c_read, i2c_write, by the CPU or by a DMA channel) over the           *)
(* controller and a device with registers, as the LED driver and the AC108 *)
(* codec are.                                                              *)
(*                                                                         *)
(* Actors: the program, the bus, which carries one command of the FIFO at  *)
(* a time, the DMA controller, the device, which may stretch the clock for *)
(* any time, and the driver's timers.  A timer may expire only while       *)
(* nothing moves: a byte takes microseconds, the timers milliseconds.      *)
(***************************************************************************)
EXTENDS Integers, Sequences, Dmac

CONSTANTS
  FifoSize,    (* commands and bytes the controller's FIFOs hold, 32        *)
  Tdlr,        (* the channel is asked for more at this level, 16           *)
  Registers,   (* of the device, 0 .. Registers - 1                         *)
  Calls,       (* the calls the program may make                            *)
  MaxStalls    (* bound of the model: clock stretches                       *)

ASSUME I2cAssumption ==
  /\ FifoSize \in Nat /\ Tdlr \in Nat /\ Tdlr + 1 < FifoSize
  /\ Registers \in Nat \ {0} /\ MaxStalls \in Nat

VARIABLES
  dma_mode,  (* chosen in i2c_init                                          *)
  p,         (* the program: its call and where it is in it                 *)
  ctl,       (* the controller's registers and FIFOs                        *)
  dma,       (* channel 0, which transmits; channel 1, which receives       *)
  dev,       (* the device                                                  *)
  stall,     (* the device holds the clock                                  *)
  stalls     (* how often it has                                            *)

vars == <<dma_mode, p, ctl, dma, dev, stall, stalls>>

-----------------------------------------------------------------------------
(* The controller.                                                          *)

(* A command of DATA_CMD: a byte to write, or a read; with a STOP after it. *)
Byte(b, last) == [read |-> FALSE, b |-> b, stop |-> last]
ReadCommand(last) == [read |-> TRUE, b |-> 0, stop |-> last]

(* After a reset it is disabled and asks the DMA controller for nothing.    *)
AfterReset ==
  [enabled |-> FALSE, dmaOn |-> FALSE, target |-> "none", tx |-> <<>>, rx |-> <<>>,
   open |-> FALSE, reading |-> FALSE, abrt |-> FALSE, stopDet |-> FALSE, abort |-> FALSE]

(* A write of DATA_CMD is lost when the FIFO is full, or kept empty after   *)
(* an abort the program has not cleared, or the controller is disabled.     *)
Push(c, cmd) ==
  IF c.enabled /\ ~c.abrt /\ Len(c.tx) < FifoSize THEN [c EXCEPT !.tx = Append(@, cmd)] ELSE c

(* The channel fills the FIFO faster than the bus empties it.               *)
Active == ctl.open \/ ctl.abort
Filling == dma[0].en /\ ctl.dmaOn /\ Len(ctl.tx) <= Tdlr
Moving == ~stall /\ ~Filling /\ ((ctl.enabled /\ ctl.tx # <<>>) \/ ctl.abort)
TimeIsUp == ~Moving /\ ~Filling

-----------------------------------------------------------------------------
(* The driver.                                                              *)

NoCall == [op |-> "none", dev |-> "none", addr |-> <<>>, data |-> <<>>, n |-> 0]
IdleAfter(from) == [call |-> NoCall, at |-> "idle", pos |-> 0, ret |-> 0, buf |-> <<>>,
                    calm |-> TRUE, from |-> from]

(* i2c_init and i2c_init_master: reset, master, DMA requests on whatever    *)
(* the mode, enabled.                                                       *)
InitHw == [AfterReset EXCEPT !.dmaOn = TRUE, !.enabled = TRUE]

(* The program sets the port up again, as every test does.                  *)
InitMaster ==
  /\ p.at = "idle" /\ ~dma_mode
  /\ ctl' = InitHw
  /\ UNCHANGED <<dma_mode, p, dma, dev, stall, stalls>>

(* A call; calm says that the device is there and lets the clock go.        *)
Start ==
  /\ p.at = "idle"
  /\ \E c \in Calls : p' = [IdleAfter(p.from) EXCEPT !.call = c, !.at = "init",
                                                    !.calm = (c.dev = "there" /\ ~stall)]
  /\ UNCHANGED <<dma_mode, ctl, dma, dev, stall, stalls>>

(* i2c_chk_bus: waits for an idle bus; clears an abort, unseen.             *)
BusReady == ~Active /\ ~Filling /\ ctl.tx = <<>>
Cleared == [ctl EXCEPT !.abrt = FALSE]

(* i2c_set_slave_addr: disabling empties the FIFOs; then the address of the *)
(* register, high byte first.                                               *)
SlaveAddr(c, target) == [c EXCEPT !.tx = <<>>, !.rx = <<>>, !.target = target, !.enabled = TRUE]
XferInit_AddrFirst(c) ==
  SlaveAddr(IF p.call.addr = <<>> THEN c ELSE Push(c, Byte(p.call.addr[1], FALSE)), p.call.dev)
XferInit(c) ==
  LET addressed == SlaveAddr(c, p.call.dev)
  IN IF p.call.addr = <<>> THEN addressed ELSE Push(addressed, Byte(p.call.addr[1], FALSE))

(* In DMA mode the channel is started with all bytes but the last of a      *)
(* write; with all bytes of a read, before any of them is asked for.        *)
Length == IF p.call.op = "write" THEN Len(p.call.data) ELSE p.call.n
Begin ==
  /\ p.at = "init" /\ BusReady
  /\ ctl' = XferInit(Cleared)
  /\ p' = [p EXCEPT !.at = IF dma_mode THEN "dma" ELSE p.call.op,
                    !.from = IF dma_mode /\ p.call.op = "write" THEN p.call.data ELSE @]
  /\ dma' = CASE ~dma_mode -> dma
              [] dma_mode /\ p.call.op = "write" -> StartChannel(dma, 0, I2cTx(FALSE), Length - 1)
              [] dma_mode /\ p.call.op = "read" -> StartChannel(dma, 1, I2cRx(FALSE), Length)
  /\ UNCHANGED <<dma_mode, dev, stall, stalls>>
BusBusy ==
  /\ p.at = "init" /\ ~BusReady /\ TimeIsUp
  /\ ctl' = Cleared
  /\ p' = [p EXCEPT !.at = "return", !.ret = 1]
  /\ UNCHANGED <<dma_mode, dma, dev, stall, stalls>>

(* i2c_write: a byte whenever there is room, with the last a STOP.          *)
NextByte(i) == Byte(p.call.data[i], i = Length)
HasRoom == Len(ctl.tx) < FifoSize
Put ==
  /\ p.at = "write" /\ HasRoom
  /\ ctl' = Push(ctl, NextByte(p.pos + 1))
  /\ p' = [p EXCEPT !.pos = @ + 1, !.at = IF p.pos + 1 = Length THEN "stop" ELSE @]
  /\ UNCHANGED <<dma_mode, dma, dev, stall, stalls>>
PutTimeout ==
  /\ p.at = "write" /\ Len(ctl.tx) = FifoSize /\ TimeIsUp
  /\ p' = [p EXCEPT !.at = "stop", !.ret = 1]
  /\ UNCHANGED <<dma_mode, ctl, dma, dev, stall, stalls>>

(* i2c_read: asks for a byte and waits for it, byte by byte.                *)
Ask ==
  /\ p.at = "read"
  /\ ctl' = Push(ctl, ReadCommand(p.pos + 1 = Length))
  /\ p' = [p EXCEPT !.at = "await"]
  /\ UNCHANGED <<dma_mode, dma, dev, stall, stalls>>
Get ==
  /\ p.at = "await" /\ ctl.rx # <<>>
  /\ ctl' = [ctl EXCEPT !.rx = Tail(@)]
  /\ p' = [p EXCEPT !.pos = @ + 1, !.buf = Append(@, Head(ctl.rx)),
                    !.at = IF p.pos + 1 = Length THEN "stop" ELSE "read"]
  /\ UNCHANGED <<dma_mode, dma, dev, stall, stalls>>
GivesUp_Never == FALSE
GivesUp == ctl.rx = <<>> /\ TimeIsUp
GetTimeout ==
  /\ p.at = "await" /\ GivesUp
  /\ p' = [p EXCEPT !.at = "stop", !.ret = 1]
  /\ UNCHANGED <<dma_mode, ctl, dma, dev, stall, stalls>>

(* i2c_dma_transfer, i2c_dma_receive: done or timed out, the driver goes on *)
(* with the last byte or with one read command.                             *)
Channel == IF p.call.op = "write" THEN 0 ELSE 1
LastCommand == IF p.call.op = "write" THEN NextByte(Length) ELSE ReadCommand(TRUE)
DmaEnd ==
  /\ p.at = "dma" /\ (dma[Channel].done \/ TimeIsUp)
  /\ ctl' = Push(ctl, LastCommand)
  /\ p' = [p EXCEPT !.at = "stop"]
  /\ UNCHANGED <<dma_mode, dma, dev, stall, stalls>>

(* i2c_xfer_finish: waits for the STOP, or resets both ports and leaves     *)
(* them as the reset does; waits for an idle bus, or aborts; drops what is  *)
(* in the receive FIFO.                                                     *)
SeeStop ==
  /\ p.at = "stop" /\ ctl.stopDet
  /\ ctl' = [ctl EXCEPT !.stopDet = FALSE]
  /\ p' = [p EXCEPT !.at = "settle"]
  /\ UNCHANGED <<dma_mode, dma, dev, stall, stalls>>
Reset == AfterReset
StopTimeout ==
  /\ p.at = "stop" /\ ~ctl.stopDet /\ TimeIsUp
  /\ ctl' = Reset
  /\ p' = [p EXCEPT !.at = "settle"]
  /\ UNCHANGED <<dma_mode, dma, dev, stall, stalls>>
Flushed_KeepRx(c) == c
Flushed(c) == [c EXCEPT !.rx = <<>>]
Settle ==
  /\ p.at = "settle" /\ (BusReady \/ TimeIsUp)
  /\ ctl' = Flushed([Cleared EXCEPT !.abort = ~BusReady])
  /\ p' = [p EXCEPT !.at = "return"]
  /\ UNCHANGED <<dma_mode, dma, dev, stall, stalls>>
Return ==
  /\ p.at = "return"
  /\ p' = IdleAfter(p.from)
  /\ UNCHANGED <<dma_mode, ctl, dma, dev, stall, stalls>>

-----------------------------------------------------------------------------
(* The bus, the device and the DMA controller.                              *)

(* A command that starts a transfer or turns it around addresses the        *)
(* target; one that is not there does not acknowledge, and the controller   *)
(* aborts with a STOP.  The first byte written after a start selects the    *)
(* device's register, the following ones go to it and those after it.       *)
Starts(cmd) == ~ctl.open \/ ctl.reading # cmd.read
NotAcknowledged(cmd) == Starts(cmd) /\ ctl.target # "there"
Aborted == [ctl EXCEPT !.tx = <<>>, !.open = FALSE, !.abrt = TRUE, !.stopDet = TRUE, !.abort = FALSE]
Carried(cmd) ==
  [ctl EXCEPT !.tx = Tail(@), !.open = ~cmd.stop, !.reading = cmd.read,
              !.rx = IF cmd.read THEN Append(@, dev.regs[dev.at]) ELSE @,
              !.stopDet = @ \/ cmd.stop]
Next1(at) == (at + 1) % Registers
Stepped(cmd) ==
  IF cmd.read THEN [dev EXCEPT !.at = Next1(@)]
  ELSE IF Starts(cmd) THEN [dev EXCEPT !.at = cmd.b % Registers]
  ELSE [dev EXCEPT !.regs[dev.at] = cmd.b, !.at = Next1(@)]

Bus ==
  /\ Moving
  /\ IF ctl.abort THEN ctl' = Aborted /\ UNCHANGED dev
     ELSE LET cmd == Head(ctl.tx)
          IN IF NotAcknowledged(cmd) THEN ctl' = Aborted /\ UNCHANGED dev
             ELSE ctl' = Carried(cmd) /\ dev' = Stepped(cmd)
  /\ UNCHANGED <<dma_mode, p, dma, stall, stalls>>

(* The device holds the clock while it is addressed, and lets it go.        *)
Hold ==
  /\ ~stall /\ stalls < MaxStalls /\ ctl.target = "there" /\ (ctl.open \/ ctl.tx # <<>>)
  /\ stall' = TRUE /\ stalls' = stalls + 1
  /\ p' = [p EXCEPT !.calm = FALSE]
  /\ UNCHANGED <<dma_mode, ctl, dma, dev>>
LetGo ==
  /\ stall /\ stall' = FALSE
  /\ UNCHANGED <<dma_mode, p, ctl, dma, dev, stalls>>

(* The transmit channel, which goes on after the call that started it gave  *)
(* up; the receive channel is asked for nothing, as one read command is all *)
(* a call in DMA mode gives.                                                *)
DmaWord == Byte(p.from[Len(p.from) - dma[0].left], FALSE)
DmaTx ==
  /\ Filling
  /\ ctl' = Push(ctl, DmaWord)
  /\ dma' = Move(dma, 0)
  /\ UNCHANGED <<dma_mode, p, dev, stall, stalls>>

-----------------------------------------------------------------------------
(* After i2c_init_master.                                                   *)
Init ==
  /\ dma_mode \in BOOLEAN
  /\ p = IdleAfter(<<>>)
  /\ ctl = InitHw
  /\ dma = [ch \in {0, 1} |-> IdleChannel]
  /\ dev = [regs |-> [r \in 0 .. Registers - 1 |-> 0], at |-> 0]
  /\ stall = FALSE /\ stalls = 0

Write == Put \/ PutTimeout
Read == Ask \/ Get \/ GetTimeout
Finish == SeeStop \/ StopTimeout \/ Settle
Program == Begin \/ BusBusy \/ Write \/ Read \/ DmaEnd \/ Finish \/ Return
Next == InitMaster \/ Start \/ Program \/ Bus \/ Hold \/ LetGo \/ DmaTx

Spec == Init /\ [][Next]_vars

(* The program runs, time passes (a timeout is a step of the program), the  *)
(* bus and the channel move.  The device owes nothing: it may hold the      *)
(* clock for ever.                                                          *)
FairSpec == Spec /\ WF_vars(Program) /\ WF_vars(Bus) /\ WF_vars(DmaTx)

-----------------------------------------------------------------------------
(* Properties.                                                              *)

(* Between calls no byte of an earlier one waits to be taken for an answer  *)
(* of the next; a transfer that is still open is being aborted.             *)
TypeOK ==
  /\ Len(ctl.tx) <= FifoSize /\ Len(ctl.rx) <= 1
  /\ p.pos <= Length
  /\ p.at = "idle" => ctl.rx = <<>> /\ (ctl.open => ctl.abort)

(* However the calls before it ended (an absent device, a clock held, a     *)
(* reset half way), a call during which the device is there and lets the    *)
(* clock go returns 0, and what it read or wrote is in the registers it     *)
(* named.  In DMA mode that is so of writes, and only until the port has    *)
(* been reset: nothing turns its DMA requests on again.                     *)
Promised == p.calm /\ p.call.addr # <<>> /\ (dma_mode => p.call.op = "write" /\ ctl.dmaOn)
Register(i) == (p.call.addr[1] + i - 1) % Registers
TrueToDevice ==
  p.at = "return" /\ Promised =>
    /\ p.ret = 0
    /\ p.call.op = "write" => \A i \in 1 .. Length : dev.regs[Register(i)] = p.call.data[i]
    /\ p.call.op = "read" => p.buf = [i \in 1 .. Length |-> dev.regs[Register(i)]]

(* Every call returns, whatever the device does.                            *)
CallEnds == p.at # "idle" ~> p.at = "idle"
=============================================================================
