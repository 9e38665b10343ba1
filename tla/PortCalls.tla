------------------------------- MODULE PortCalls -------------------------------
(***************************************************************************)
(* What the drivers of the small ports do to their registers, in the same  *)
(* form as SysCalls: GPIO pins, timers, the watchdog, the PWM outputs, the *)
(* set-up of the UARTs, and the set-up, start and stop of the I2S ports    *)
(* with what their interrupt handlers write.                               *)
(***************************************************************************)
EXTENDS SysCalls

(* A word read, some of its bits cleared and others set, and written back;  *)
(* a register of width bits written whole; one that acts when it is written *)
(* or read and holds nothing; a wait for a field; and a register that       *)
(* shares its address with another, told apart by the latch bit.            *)
Modify(reg, clear, put) ==
  <<[op |-> "modify", field |-> Field(reg, 0, 32), clear |-> clear, put |-> put]>>
SetBit(reg, bit, on) == Modify(reg, {bit}, IF on THEN {bit} ELSE {})
Fill(reg, width, v) == <<[op |-> "fill", field |-> Field(reg, 0, width), value |-> v]>>
Strobe(reg) == <<[op |-> "strobe", reg |-> reg]>>
Until(f, v) == <<[op |-> "until", field |-> f, value |-> v]>>
Banked(reg, other, latched, v) ==
  <<[op |-> "banked", field |-> Field(reg, 0, 8), other |-> other, latched |-> latched, value |-> v]>>
Flag(bit, on) == IF on THEN {bit} ELSE {}

-----------------------------------------------------------------------------
(* GPIO: a bit of each register for each pin.                               *)

GpioData == <<"gpio", "data">>
GpioDir == <<"gpio", "dir">>
GpioIe == <<"gpio", "ie">>
GpioSetOutput(pin, level) == SetBit(GpioData, pin, level)
GpioSetDir(pin, output) == SetBit(GpioDir, pin, output)
GpioSetCtrl(pin, hw) == SetBit(<<"gpio", "afsel">>, pin, hw)
GpioSetIs(pin, level) == SetBit(<<"gpio", "is">>, pin, level)
GpioSetIbe(pin, both) == SetBit(<<"gpio", "ibe">>, pin, both)
GpioSetIev(pin, high) == SetBit(<<"gpio", "iev">>, pin, high)
GpioSetIntType(pin, level, type) ==
  GpioSetIs(pin, level)
  \o IF type = "both" THEN GpioSetIbe(pin, TRUE)
     ELSE GpioSetIbe(pin, FALSE) \o GpioSetIev(pin, type \in {"rising", "high"})
GpioSetIe(pin, on) == SetBit(GpioIe, pin, on)
GpioSetIc(pin) == Strobe(<<"gpio", "ic">>)

GpioPrepare(pin, output) ==
  GpioSetCtrl(pin, FALSE) \o GpioSetIe(pin, FALSE) \o GpioSetIc(pin) \o GpioSetDir(pin, output)
GpioOutput(pin, level) == GpioPrepare(pin, TRUE) \o GpioSetOutput(pin, level)
GpioInput(pin) == GpioPrepare(pin, FALSE)
SpiCsCtrl(level) == GpioOutput(3, level)
GpioIntHandler(pin, last) == GpioSetIc(pin) \o IF last THEN GpioSetIe(pin, FALSE) ELSE <<>>

-----------------------------------------------------------------------------
(* Timers.  The control register: one-shot, 32 bits, prescaler, interrupt,  *)
(* periodic, enable.                                                        *)

TimerReg(port, name) == <<"timer", port, name>>
TimerSetCtrl(port, oneShot, wide, div, int, periodic, on) ==
  Fill(TimerReg(port, "control"), 8,
       Flag(0, oneShot) \cup Flag(1, wide) \cup Shifted(Bits(div), 2) \cup Flag(5, int)
       \cup Flag(6, periodic) \cup Flag(7, on))
TimerEnableCtrl(port, on) == SetBit(TimerReg(port, "control"), 7, on)
TimerSetLoad(port, v) == Load(TimerReg(port, "load"), v)
TimerSetBgload(port, v) == Load(TimerReg(port, "bgload"), v)
TimerClrInt(port) == Strobe(TimerReg(port, "intclr"))
TimerStart(port) == TimerEnableCtrl(port, TRUE)
TimerStop(port) == TimerEnableCtrl(port, FALSE)
TimerInit(port) == TimerSetCtrl(port, FALSE, TRUE, 1, FALSE, FALSE, FALSE)

-----------------------------------------------------------------------------
(* The watchdog.  The lock register reads 0 once the key has been written.  *)

WdogReg(name) == <<"wdog", name>>
WdogSetCtrl(int, reset) ==
  Modify(WdogReg("control"), {0, 1}, Flag(0, int) \cup Flag(1, reset))
WdogClrInt == Strobe(WdogReg("intclr"))
WdogSetLock(lock) ==
  Fill(WdogReg("lock"), 1, Flag(0, lock)) \o Until(Field(WdogReg("lock"), 0, 1), Flag(0, lock))
WdogInit(load) ==
  WdogSetLock(FALSE) \o Load(WdogReg("load"), load) \o WdogSetCtrl(FALSE, FALSE)
WdogStart(load) == Load(WdogReg("load"), load) \o WdogClrInt \o WdogSetCtrl(TRUE, TRUE)
WdogStop == WdogSetCtrl(FALSE, FALSE) \o WdogClrInt
WdogRestart(load) == Load(WdogReg("load"), load) \o WdogStop \o WdogStart(load)

-----------------------------------------------------------------------------
(* PWM: high from hrc to lrc; bit 0 of the control counts, bit 3 drives.    *)

PtcReg(port, name) == <<"ptc", port, name>>
PtcStart(port) == SetBit(PtcReg(port, "ctrl"), 0, TRUE)
PtcStop(port) == SetBit(PtcReg(port, "ctrl"), 0, FALSE)
PtcPwmInit(port, hrc, lrc) ==
  Load(PtcReg(port, "hrc"), hrc) \o Load(PtcReg(port, "lrc"), lrc)
  \o Fill(PtcReg(port, "ctrl"), 9, {3})
PtcTestPwm(port, hrc, lrc) ==
  PtcStop(port)
  \o IF hrc < lrc THEN PtcPwmInit(port, Bits(hrc), Bits(lrc)) \o PtcStart(port) ELSE <<>>

-----------------------------------------------------------------------------
(* UART.  With the latch bit of the line control register the first two     *)
(* addresses are the divisor; without, the data and the interrupt enables.  *)

UartReg(port, name) == <<"uart", port, name>>
Lcr(port) == UartReg(port, "lcr")
LatchBit == 7
UartDlabCtrl(port, on) == SetBit(Lcr(port), LatchBit, on)
UartIntCtrl(port, mask) ==
  Banked(UartReg(port, "ier"), UartReg(port, "dlh"), FALSE, mask)
UartModemCtrl(port, v) == Load(UartReg(port, "mcr"), v)
UartSetBd(port, div) ==
  Strobe(UartReg(port, "fcr")) \o UartDlabCtrl(port, TRUE)
  \o Banked(UartReg(port, "dll"), UartReg(port, "thr"), TRUE, Bits(div % 256))
  \o Banked(UartReg(port, "dlh"), UartReg(port, "ier"), TRUE, Bits((div \div 256) % 256))
  \o UartDlabCtrl(port, FALSE)
UartLineCtrl(port, dls, stop, parity) ==
  Fill(Lcr(port), 8, Bits(dls) \cup Shifted(Bits(stop), 2) \cup Shifted(Bits(parity), 3))
  \o Strobe(UartReg(port, "fcr"))
UartCalcDiv(clk, bd) == (clk + 8 * bd) \div (16 * bd)
UartInit(port, flow, clk, bd, dls, stop, parity) ==
  SwRst(IF port = 0 THEN "UART0" ELSE "UART1") \o UartIntCtrl(port, {})
  \o UartModemCtrl(port, IF flow THEN {1, 5} ELSE {0, 1})
  \o UartSetBd(port, UartCalcDiv(clk, bd)) \o UartLineCtrl(port, dls, stop, parity)

-----------------------------------------------------------------------------
(* I2S.  A port plays or records on the channels of its map, as its         *)
(* component registers say (i2s_config_from_hw); bits 0 and 1 of a mask     *)
(* register mask the receiver, bits 4 and 5 the transmitter.                *)

I2sConfigFromHw(port, plays, master, max, depth, map, format) ==
  [port |-> port, plays |-> plays, master |-> master, max |-> max, trigger |-> depth \div 2,
   map |-> SubSeq(map, 1, IF Len(map) > max THEN max ELSE Len(map)), format |-> format]
I2sReg(p, name, ch) == <<"i2s", p.port, name, ch>>
Imr(p, ch) == I2sReg(p, "imr", ch)
Ready(p) == IF p.plays THEN 4 ELSE 0       \* FIFO empty, data available
Overrun(p) == IF p.plays THEN 5 ELSE 1
Named(p, tx, rx) == IF p.plays THEN tx ELSE rx
OnChannels(p, Op(_)) == EachOf(Op, p.map)
Resolution(p) == [n \in {16, 24, 32} |-> CASE n = 16 -> 2 [] n = 24 -> 4 [] n = 32 -> 5][p.format]
ClockCycles(p) == [n \in {16, 24, 32} |-> CASE n = 16 -> 0 [] n = 24 -> 1 [] n = 32 -> 2][p.format]

I2sDisableChannels(p) ==
  FlattenSeq([i \in 1 .. p.max |-> Load(I2sReg(p, Named(p, "ter", "rer"), i - 1), {})])
I2sClearIrqs(p) == OnChannels(p, LAMBDA ch : Strobe(I2sReg(p, Named(p, "tor", "ror"), ch)))
I2sStart(p) ==
  I2sClearIrqs(p) \o Load(I2sReg(p, "ier", 0), {0})
  \o OnChannels(p, LAMBDA ch :
       Load(I2sReg(p, Named(p, "iter", "irer"), 0), {0})
       \o Load(I2sReg(p, Named(p, "tfcr", "rfcr"), ch), Bits(p.trigger))
       \o SetBit(Imr(p, ch), Ready(p), FALSE))
I2sMask(p, ch) == Modify(Imr(p, ch), {}, {Ready(p), Overrun(p)})
I2sStop(p) ==
  I2sClearIrqs(p) \o Load(I2sReg(p, Named(p, "iter", "irer"), 0), {})
  \o OnChannels(p, LAMBDA ch : I2sMask(p, ch))
  \o (IF p.master THEN Load(I2sReg(p, "cer", 0), {}) ELSE <<>>) \o Load(I2sReg(p, "ier", 0), {})
I2sSetHwParams(p) ==
  I2sDisableChannels(p)
  \o OnChannels(p, LAMBDA ch :
       Load(I2sReg(p, Named(p, "tcr", "rcr"), ch), Bits(Resolution(p)))
       \o Strobe(I2sReg(p, Named(p, "tff", "rff"), ch))
       \o Load(I2sReg(p, Named(p, "ter", "rer"), ch), {0}))
  \o Load(I2sReg(p, "ccr", 0), Shifted(Bits(ClockCycles(p)), 3))
I2sFifoReset(p) == Strobe(I2sReg(p, Named(p, "txffr", "rxffr"), 0))
I2sHwInit(p) == I2sSetHwParams(p) \o I2sFifoReset(p)

(* With interrupts: the handler is installed before the port is set up.     *)
ConnectIrq(v) == <<[op |-> "connect", value |-> v]>>
I2sInit(p, int) == (IF int THEN ConnectIrq(TRUE) \o InterruptEn(1) ELSE <<>>) \o I2sHwInit(p)
I2sExit(int) == IF int THEN ConnectIrq(FALSE) ELSE <<>>

(* A handler finds its buffer done and masks the channel, or moves half a   *)
(* FIFO of samples in pairs; only channel 0 is served when playing.  On     *)
(* port I2S_1 each pair played enables the wrapper.                         *)
Pairs(p) == (p.trigger + 1) \div 2
I2sChannelTxData(p, pairs) ==
  FlattenSeq([i \in 1 .. pairs |->
    Strobe(I2sReg(p, "lthr", 0)) \o Strobe(I2sReg(p, "rthr", 0))
    \o IF p.port = "I2S_1" THEN I2sEnable ELSE <<>>])
I2sChannelRxData(p, ch, pairs) ==
  FlattenSeq([i \in 1 .. pairs |-> Strobe(I2sReg(p, "lrbr", ch)) \o Strobe(I2sReg(p, "rrbr", ch))])
I2sTxHandler(p, over, done) ==
  (IF over THEN Strobe(I2sReg(p, "tor", 0)) ELSE <<>>)
  \o IF done THEN I2sMask(p, 0) ELSE I2sChannelTxData(p, Pairs(p))
I2sRxHandler(p, over, done) ==
  OnChannels(p, LAMBDA ch :
    (IF ch \in done THEN I2sMask(p, ch) ELSE I2sChannelRxData(p, ch, Pairs(p)))
    \o IF over THEN Strobe(I2sReg(p, "ror", ch)) ELSE <<>>)
=============================================================================
