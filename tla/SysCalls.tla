-------------------------------- MODULE SysCalls --------------------------------
(***************************************************************************)
(* What the functions of cdl_sys.c, the configuration part of cdl_vad.c    *)
(* and the driver of the WM8766 codecs (cdl_dac.c) do, each as the         *)
(* sequence of register accesses it makes, in their order.                 *)
(***************************************************************************)
EXTENDS SysRegs, SequencesExt

Set(f, v) == <<[op |-> "set", field |-> f, value |-> v]>>
Put(f, v) == <<[op |-> "put", field |-> f, value |-> v]>>
Load(reg, v) == <<[op |-> "load", field |-> Field(reg, 0, 32), value |-> v]>>
Wait(line, level) == <<[op |-> "wait", line |-> line, level |-> level]>>
WaitLock == <<[op |-> "lock"]>>

Enable(c) == IF Clocks[c].gate = 1 THEN Set(Gate(c), {0}) ELSE <<>>
Disable(c) == Set(Gate(c), {})
From(c, source) == Set(Source(c), Bits(source))
DivideBy(c, n) == Put(Divider(c), Bits(n))

-----------------------------------------------------------------------------
(* Pads.  The functions of the PWM pads ignore ren.                         *)

SetFunc(mux, func) == IF func \in 0 .. 7 THEN Set(mux.func, Bits(func)) ELSE <<>>
Pinmux(mux, func, ren) == SetFunc(mux, func) \o Set(mux.ren, Bits(ren))
PadTck(func, ren) == Pinmux(MuxTck, func, ren)
PadTms(func, ren) == Pinmux(MuxTms, func, ren)
PadTdo(func, ren) == Pinmux(MuxTdo, func, ren)
PadTdi(func, ren) == Pinmux(MuxTdi, func, ren)
PadTrst(func, ren) == Pinmux(MuxTrst, func, ren)
PadSpiClk(func, ren) == Pinmux(MuxSpiClk, func, ren)
PadSpiCsn(func, ren) == Pinmux(MuxSpiCsn, func, ren)
PadSpiRxd(func, ren) == Pinmux(MuxSpiRxd, func, ren)
PadSpiTxd(func, ren) == Pinmux(MuxSpiTxd, func, ren)
PadUart0Rxd(func, ren) == Pinmux(MuxUart0Rxd, func, ren)
PadUart0Txd(func, ren) == Pinmux(MuxUart0Txd, func, ren)
PadI2csScl(func, ren) == Pinmux(MuxI2csScl, func, ren)
PadI2csSda(func, ren) == Pinmux(MuxI2csSda, func, ren)
PadGpio0(func, ren) == Pinmux(MuxGpio0, func, ren)
PadGpio1(func, ren) == Pinmux(MuxGpio1, func, ren)
PadPwm0(func, ren) == SetFunc(MuxPwm0, func)
PadPwm1(func, ren) == SetFunc(MuxPwm1, func)
PadPwm2(func, ren) == SetFunc(MuxPwm2, func)
PadDmicClk11(func, ren) == Pinmux(MuxDmicClk11, func, ren)
PadDmicClk12(func, ren) == Pinmux(MuxDmicClk12, func, ren)
PadDmicIn1(func, ren) == Pinmux(MuxDmicIn1, func, ren)
PadDmicClk21(func, ren) == Pinmux(MuxDmicClk21, func, ren)
PadDmicClk22(func, ren) == Pinmux(MuxDmicClk22, func, ren)
PadDmicIn2(func, ren) == Pinmux(MuxDmicIn2, func, ren)
PadI2smicSbclk(func, ren) == Pinmux(MuxI2smicSbclk, func, ren)
PadI2smicSlr0(func, ren) == Pinmux(MuxI2smicSlr0, func, ren)
PadI2smicSsdata(func, ren) == Pinmux(MuxI2smicSsdata, func, ren)
PadDopwmlp(func, ren) == Pinmux(MuxDopwmlp, func, ren)
PadDopwmln(func, ren) == Pinmux(MuxDopwmln, func, ren)
PadDopwmrp(func, ren) == Pinmux(MuxDopwmrp, func, ren)
PadDopwmrn(func, ren) == Pinmux(MuxDopwmrn, func, ren)
PadI2s2Mclk(func, ren) == Pinmux(MuxI2s2Mclk, func, ren)

-----------------------------------------------------------------------------
(* Resets.                                                                  *)

AssertReset(l) == Set(Lines[l].reset, {0}) \o Wait(l, Lines[l].asserted)
ReleaseReset(l) == Set(Lines[l].reset, {}) \o Wait(l, 1 - Lines[l].asserted)

(* The clocks sys_sw_rst switches on, and the lines it pulses, by port.     *)
ResetClocks(port) ==
  CASE port = "DMAC" -> <<"dmac_core_clock", "DMA_aclk_m1", "DMA_hclk">>
    [] port = "I2SADC" -> <<"i2sadc_pclk", "i2sadc_bclk_icg">>
    [] port = "I2SDAC" -> <<"i2sdac_pclk">>
    [] port = "I2S1" -> <<"i2s1_pclk">>
    [] port = "I2SVAD" -> <<"i2svad_pclk">>
    [] OTHER -> <<>>
ResetLines ==
  [SYS_A |-> <<"sys_a">>, SYS_H |-> <<"sys_h">>, SYS_P |-> <<"sys_p">>, SYS_AON |-> <<"sys_aon">>,
   DSP0_B |-> <<"dsp0_b">>, DSP0_D |-> <<"dsp0_d">>, DSP1_B |-> <<"dsp1_b">>,
   DSP1_D |-> <<"dsp1_d">>, DMAC |-> <<"dmac_core", "dmac_h">>, GPIO |-> <<"gpio">>,
   I2CS |-> <<"i2cs_ic", "i2cs_p">>, I2CM |-> <<"i2cm_ic", "i2cm_p">>,
   SPI |-> <<"spi_bn", "spi_nss">>, TIMER |-> <<"timer">>, UART0 |-> <<"uart0_p", "uart0_s">>,
   UART1 |-> <<"uart1_p", "uart1_s">>, USB |-> <<"usb">>, I2SADC |-> <<"i2sadc_p", "i2sadc_s">>,
   I2SDAC |-> <<"i2sdac_p", "i2sdac_s">>, I2S1 |-> <<"i2s1_p", "i2s1_s">>,
   I2SVAD |-> <<"i2svad_p", "i2svad_s">>, ACDCUCP |-> <<"acdcucp">>,
   WDT |-> <<"wdt_p", "wdt_wdog">>, NRST |-> <<"nrst">>, PTC |-> <<"ptc">>]

EachOf(Op(_), s) == FlattenSeq([i \in DOMAIN s |-> Op(s[i])])
Pulse(l) == AssertReset(l) \o ReleaseReset(l)
SwRst(port) == EachOf(Enable, ResetClocks(port)) \o EachOf(Pulse, ResetLines[port])

-----------------------------------------------------------------------------
(* Voice detection.  vad_sw_ctrl writes the new switch alone, whatever it   *)
(* read (VAD_ENA is bit 0, ADC_ENA bit 1).                                  *)

VadSwCtrl(mode) ==
  Load(<<"vad", "sw">>, [VAD |-> {0}, ADC |-> {1}, BOTH |-> {0, 1}, NONE |-> {}][mode])
VadNormalToIdleInit(lr, delay) ==
  Disable("vad_mem_clk") \o Enable("i2svad_pclk") \o AssertReset("i2svad_s")
  \o Load(<<"vad", "mem_sw">>, {0}) \o From("vad_mem_clk", 1) \o Enable("vad_mem_clk")
  \o ReleaseReset("i2svad_s") \o Load(<<"vad", "lr_sel">>, Bits(lr))
  \o Load(<<"vad", IF lr = 0 THEN "left_wd" ELSE "right_wd">>, {0})
  \o Load(<<"vad", "stop_delay">>, Bits(delay)) \o Load(<<"vad", "addr_start">>, {})
  \o Load(<<"vad", "addr_wrap">>, {13}) \o VadSwCtrl("VAD")
VadBackToAdc ==
  VadSwCtrl("ADC") \o Disable("vad_mem_clk") \o Load(<<"vad", "mem_sw">>, {})
  \o From("vad_mem_clk", 0) \o Enable("vad_mem_clk") \o VadSwCtrl("BOTH")

-----------------------------------------------------------------------------
(* Clocks of the audio ports.                                               *)

I2sAdcClkConfig(div, fromCodec) ==
  Enable("i2sadc_pclk")
  \o Set(I2s0Codec["adc_drvp_mntn_sel"], IF fromCodec THEN {0} ELSE {})
  \o DivideBy("i2sadc_lrck_internal", div) \o Enable("i2sadc_bclk_icg")
  \o SwRst("I2SADC") \o SwRst("I2SVAD") \o VadSwCtrl("ADC")

(* Types: 0 standard, 1 left and 2 right justified, 3 and 4 TDM; all the     *)
(* values are bytes.                                                        *)
I2s1Set(name, n) == Set(I2s1[name], Bits(n % 256))
I2s1Control(mode, type, ratio, slots, sdo, lrck, skip) ==
  I2s1Set("i2s1_mode", mode) \o I2s1Set("audio_mode", type) \o I2s1Set("lr_ratio", ratio)
  \o I2s1Set("slot_num", slots) \o Set(I2s1Delay["sdo_dly_cycle"], Bits(sdo % 256))
  \o Set(I2s1Delay["lrck_dly_cycle"], Bits(lrck)) \o I2s1Set("skip_head", skip)
  \o I2s1Set("i2s1_enable", 0) \o SwRst("I2S1")
I2s1Start == Enable("i2s1_pclk") \o I2s1Set("wrap_bypass", 0)

I2s1MasterClkConfig(div, type, format) ==
  LET justified == type \in {1, 2}
      narrow == type = 2 /\ format < 32
      sdo == IF narrow THEN 32 - format - 1 ELSE IF type = 4 THEN 1 ELSE 0
      lrck == IF justified /\ ~narrow THEN 1 ELSE 0
  IN  I2s1Start
      \o DivideBy("i2s1_in_lrck", IF justified /\ div <= 64 THEN 64 ELSE div)
      \o I2s1Control(1, type, 0, 0, sdo, lrck, IF type \in {3, 4} THEN 3 ELSE 0)

I2s1SlaveClkConfig(div, type, format) ==
  LET tdm == type \in {3, 4}
      sdo == CASE type = 1 -> 63
               [] type = 2 -> CASE format = 32 -> 63 [] format = 24 -> 71 [] OTHER -> 79
               [] tdm -> format * 8 - 2
               [] OTHER -> 0
  IN  I2s1Start
      \o I2s1Control(0, type, IF tdm THEN format ELSE 0, IF tdm THEN 8 ELSE 0, sdo, 0, 0)

I2sDacClkConfig(div, master, toCodec) ==
  LET con(name, n) == Set(I2s0Codec[name], Bits(n))
  IN  Enable("i2sdac_pclk")
      \o (IF master
          THEN con("i2s0_mode", 1) \o con("acdc_dac_clk_sel", 0)
               \o DivideBy("i2s0_in_lrck", div) \o con("i2s0_enable", 1)
          ELSE con("i2s0_enable", 0) \o con("i2s0_mode", 0) \o con("acdc_dac_clk_sel", 1))
      \o con("acdc_dac_data_sel", IF toCodec THEN 1 ELSE 0) \o SwRst("I2SDAC")

-----------------------------------------------------------------------------
(* USB and the DSPs.                                                        *)

UsbClkConfig ==
  Set(Pll1["PDRST1"], {}) \o WaitLock \o DivideBy("dsp_clk", 2) \o From("dsp_clk", 2)
  \o EachOf(Enable, <<"USB_HCLK", "USB_FCLK", "usb_ram_clk">>)
  \o EachOf(LAMBDA name : Set(UsbConfig[name], {0}),
            <<"VBUSVAL", "VBUSSES", "VBUSLO", "CID", "TM1">>)
  \o ReleaseReset("usb") \o SwRst("USB")
Dsp0Config == Set(Dsp0["dsp0_en"], {0})
Dsp1Config(loop) ==
  Set(Dsp1["AltResetVec1"], loop) \o Set(Dsp1["StatVectorSel1"], {0})
  \o SwRst("DSP1_D") \o SwRst("DSP1_B") \o Set(Dsp1["dsp1_en"], {0})
EpSwitch(ep, transmit) ==
  Set(Requests[<<"ep1_switch", "ep2_switch", "ep3_switch">>[ep]], IF transmit THEN {0} ELSE {})
I2sEnable == I2s1Set("i2s1_enable", 1)
InterruptEn(v) == Set(Requests["interrupt_en"], Bits(v))

-----------------------------------------------------------------------------
(* The codecs.  A register write goes to the cache (all but the reset       *)
(* register, 31) and out as a frame of 16 bits over three external pads.    *)

PadOut(pin, v) == [op |-> "out", field |-> Field(Debug, pin, 1), value |-> v]
ExternalPad(pin, v) == <<PadOut(pin, Bits(v))>>
Pins(k) == <<[mode |-> 2, cs |-> 3, clk |-> 4, dat |-> 5],
             [mode |-> 7, cs |-> 8, clk |-> 9, dat |-> 10]>>[k]
CodecRegs == 0 .. 15
CodecReset == 31
CodecOp(k, addr, data) == [op |-> "codec", codec |-> k, addr |-> addr, data |-> data]
CodecWrite(k, addr, data) == <<CodecOp(k, addr, data)>>

(* soft_spi_write of addr in the high seven bits, data in the low nine,     *)
(* highest bit first: the n-th access.  The select falls, for each bit the  *)
(* clock falls, the data pin follows the bit, the clock rises; in the end   *)
(* the clock falls and the select rises.                                    *)
FrameWord(addr, data) == Shifted(Bits(addr), 9) \cup (data \cap 0 .. 8)
FrameLength == 51
BitOut(k, word, i) == PadOut(Pins(k).dat, IF 16 - i \in word THEN {0} ELSE {})
Frame_ClockFirst(k, addr, data, n) ==
  CASE n = 1 -> PadOut(Pins(k).cs, {})
    [] n = FrameLength -> PadOut(Pins(k).cs, {0})
    [] n \in 2 .. 50 /\ n % 3 = 2 -> PadOut(Pins(k).clk, {})
    [] n \in 2 .. 50 /\ n % 3 = 0 -> PadOut(Pins(k).clk, {0})
    [] n \in 2 .. 50 /\ n % 3 = 1 -> BitOut(k, FrameWord(addr, data), n \div 3)
Frame(k, addr, data, n) ==
  CASE n = 1 -> PadOut(Pins(k).cs, {})
    [] n = FrameLength -> PadOut(Pins(k).cs, {0})
    [] n \in 2 .. 50 /\ n % 3 = 2 -> PadOut(Pins(k).clk, {})
    [] n \in 2 .. 50 /\ n % 3 = 0 -> BitOut(k, FrameWord(addr, data), n \div 3)
    [] n \in 2 .. 50 /\ n % 3 = 1 -> PadOut(Pins(k).clk, {0})

DacTestPrepare(k) ==
  <<[op |-> "forget", codec |-> k]>> \o ExternalPad(Pins(k).cs, 1)
  \o ExternalPad(Pins(k).clk, 0) \o ExternalPad(Pins(k).dat, 0)

DefaultValues == <<0, 256, 288, 2, 0, 256, 0, 256, 0, 0, 128>>
Wm8766Init(k) ==
  ExternalPad(Pins(k).mode, 0) \o CodecWrite(k, CodecReset, {})
  \o [i \in DOMAIN DefaultValues |-> CodecOp(k, i - 1, Bits(DefaultValues[i]))]
Wm8766Resume(k, regs) == [i \in 1 .. 16 |-> CodecOp(k, i - 1, regs[i - 1])]

(* The registers of the left and the right volume of a channel; bit 8 of a  *)
(* volume is "update".  The volumes heard, of 100, in half dB below 255.    *)
VolumeRegs == <<<<0, 1>>, <<4, 5>>, <<6, 7>>>>
Update == 8
LinearVolToDb(v) == [p \in {0, 10, 50, 80, 100} |->
                       CASE p = 0 -> 0 [] p = 10 -> 215 [] p = 50 -> 243
                         [] p = 80 -> 252 [] p = 100 -> 255][v]
SetVolume_UpdateBoth(k, ch, l, r) ==
  CodecWrite(k, VolumeRegs[ch][1], Bits(LinearVolToDb(l)) \cup {Update})
  \o CodecWrite(k, VolumeRegs[ch][2], Bits(LinearVolToDb(r)) \cup {Update})
SetVolume(k, ch, l, r) ==
  CodecWrite(k, VolumeRegs[ch][1], Bits(LinearVolToDb(l)))
  \o CodecWrite(k, VolumeRegs[ch][2], Bits(LinearVolToDb(r)) \cup {Update})
VolumeRestore(k, regs) == CodecWrite(k, 1, regs[1] \cup {Update})

(* The switches: a bit of a register, inverted for some.                    *)
Switch(reg, bit, inverted) == [reg |-> reg, bit |-> bit, inverted |-> inverted]
Controls ==
  [CH1_SW |-> Switch(9, 3, TRUE), CH2_SW |-> Switch(9, 4, TRUE), CH3_SW |-> Switch(9, 5, TRUE),
   PHASE1_SW |-> Switch(3, 6, FALSE), PHASE2_SW |-> Switch(3, 7, FALSE),
   PHASE3_SW |-> Switch(3, 8, FALSE), DEEMPH1_SW |-> Switch(9, 6, FALSE),
   DEEMPH2_SW |-> Switch(9, 7, FALSE), DEEMPH3_SW |-> Switch(9, 8, FALSE),
   IZD_SW |-> Switch(2, 4, FALSE), ZC_SW |-> Switch(9, 0, TRUE)]
CtlPut(k, regs, ctl, on) ==
  LET s == Controls[ctl]
  IN  CodecWrite(k, s.reg, (regs[s.reg] \ {s.bit}) \cup (IF on # s.inverted THEN {s.bit} ELSE {}))

SetIf(k, regs, dac) == CodecWrite(k, 3, (regs[3] \ 0 .. 5) \cup (dac \cap 0 .. 5))
Master == 5
SetRole(k, regs, master) ==
  IF master = (Master \in regs[10]) THEN <<>>
  ELSE CodecWrite(k, 10, (regs[10] \ {Master}) \cup (IF master THEN {Master} ELSE {}))
LrclkRatios == <<128, 192, 256, 384, 512, 768>>
RatioIndex(div) == CHOOSE i \in DOMAIN LrclkRatios : LrclkRatios[i] = div
MasterLrclkDiv_Unshifted(k, regs, div) ==
  IF div \notin Range(LrclkRatios) THEN <<>>
  ELSE CodecWrite(k, 10, (regs[10] \ 6 .. 8) \cup Shifted(Bits(div), 3))
MasterLrclkDiv(k, regs, div) ==
  IF div \notin Range(LrclkRatios) THEN <<>>
  ELSE CodecWrite(k, 10, (regs[10] \ 6 .. 8) \cup Shifted(Bits(RatioIndex(div) - 1), 6))
ClkPolarity(k, regs, lrclk, bclk) ==
  CodecWrite(k, 3, (regs[3] \ {2, 3}) \cup (IF lrclk THEN {2} ELSE {}) \cup (IF bclk THEN {3} ELSE {}))
=============================================================================
