-------------------------------- MODULE SysRegs --------------------------------
(***************************************************************************)
(* The registers of the system: pads (pad_share_ctrl_macro.h), resets      *)
(* (rst_gen_ctrl_macro.h), clocks (clk_gen_ctrl_macro.h) and the system    *)
(* controller (sys_con_macro.h).  Every macro reads a whole register,      *)
(* changes one field and writes it back; which bits of which register a    *)
(* macro changes is all that tells one from another.                       *)
(*                                                                         *)
(* A word is the set of its bits that are 1, a field some bits of one      *)
(* register, a value the set of its bits counted from the field's lowest.  *)
(***************************************************************************)
EXTENDS Integers, Functions, TLC

Field(reg, lo, width) == [reg |-> reg, lo |-> lo, width |-> width]
FieldBits(f) == f.lo .. f.lo + f.width - 1
Bits(n) == {i \in 0 .. 15 : (n \div 2^i) % 2 = 1}
Shifted(bits, k) == {b + k : b \in bits}

(* The _SET_ macros clear the field and put the value's bits that fit;      *)
(* _DIVIDE_CLOCK_ puts all of them; the _GET_ macros read the field.        *)
Insert_NoClear(word, f, v) ==
  word \cup (Shifted(v \cap 0 .. f.width - 1, f.lo))
Insert(word, f, v) ==
  (word \ FieldBits(f)) \cup Shifted(v \cap 0 .. f.width - 1, f.lo)
InsertAll(word, f, v) == (word \ FieldBits(f)) \cup Shifted(v, f.lo)
Extract(word, f) == Shifted(word \cap FieldBits(f), -f.lo)

-----------------------------------------------------------------------------
(* Pads: eight to a register, four bits each: function and pull enable.     *)

Mux(k) == [func |-> Field(<<"pad", k \div 8>>, 4 * (k % 8), 3),
           ren |-> Field(<<"pad", k \div 8>>, 4 * (k % 8) + 3, 1)]
MuxTck == Mux(0)
MuxTms == Mux(1)
MuxTdo == Mux(2)
MuxTdi == Mux(3)
MuxTrst == Mux(4)
MuxSpiClk == Mux(5)
MuxSpiCsn == Mux(6)
MuxSpiRxd == Mux(7)
MuxSpiTxd == Mux(8)
MuxUart0Rxd == Mux(9)
MuxUart0Txd == Mux(10)
MuxI2csScl == Mux(11)
MuxI2csSda == Mux(12)
MuxGpio0 == Mux(13)
MuxGpio1 == Mux(14)
MuxPwm0 == Mux(15)
MuxPwm1 == Mux(16)
MuxPwm2 == Mux(17)
MuxDmicClk11 == Mux(18)
MuxDmicClk12 == Mux(19)
MuxDmicIn1 == Mux(20)
MuxDmicClk21 == Mux(21)
MuxDmicClk22 == Mux(22)
MuxDmicIn2 == Mux(23)
MuxI2smicSbclk == Mux(24)
MuxI2smicSlr0 == Mux(25)
MuxI2smicSsdata == Mux(26)
MuxDopwmlp == Mux(27)
MuxDopwmln == Mux(28)
MuxDopwmrp == Mux(29)
MuxDopwmrn == Mux(30)
MuxI2s2Mclk == Mux(31)

-----------------------------------------------------------------------------
(* Resets: the bit of a line and the level its status shows while asserted. *)
(* The lines of the DSPs are the ones that are active high.                 *)

Line(bit, asserted) ==
  [reset |-> Field(<<"rst", bit \div 32>>, bit % 32, 1), asserted |-> asserted]
SystemLines == [sys_a |-> Line(0, 0), sys_h |-> Line(1, 0), sys_p |-> Line(2, 0),
                sys_aon |-> Line(3, 0)]
DspLines_ActiveLow == [dsp0_b |-> Line(4, 0), dsp0_d |-> Line(5, 0),
                       dsp1_b |-> Line(6, 0), dsp1_d |-> Line(7, 0)]
DspLines == [dsp0_b |-> Line(4, 1), dsp0_d |-> Line(5, 1),
             dsp1_b |-> Line(6, 1), dsp1_d |-> Line(7, 1)]
DmacGpioLines == [dmac_core |-> Line(8, 0), dmac_h |-> Line(9, 0), gpio |-> Line(10, 0)]
I2cLines == [i2cs_ic |-> Line(11, 0), i2cs_p |-> Line(12, 0),
             i2cm_ic |-> Line(13, 0), i2cm_p |-> Line(14, 0)]
SpiTimerLines == [spi_bn |-> Line(15, 0), spi_nss |-> Line(16, 0), timer |-> Line(17, 0)]
UartUsbLines == [uart0_p |-> Line(18, 0), uart0_s |-> Line(19, 0), uart1_p |-> Line(20, 0),
                 uart1_s |-> Line(21, 0), usb |-> Line(22, 0)]
I2sAdcDacLines == [i2sadc_p |-> Line(23, 0), i2sadc_s |-> Line(24, 0),
                   i2sdac_p |-> Line(25, 0), i2sdac_s |-> Line(26, 0)]
I2sVadLines == [i2s1_p |-> Line(27, 0), i2s1_s |-> Line(28, 0),
                i2svad_p |-> Line(29, 0), i2svad_s |-> Line(30, 0)]
CodecWdtLines == [acdcucp |-> Line(31, 0), wdt_p |-> Line(32, 0), wdt_wdog |-> Line(33, 0),
                  nrst |-> Line(34, 0), ptc |-> Line(35, 0)]
Lines == SystemLines @@ DspLines @@ DmacGpioLines @@ I2cLines @@ SpiTimerLines
         @@ UartUsbLines @@ I2sAdcDacLines @@ I2sVadLines @@ CodecWdtLines

-----------------------------------------------------------------------------
(* Clocks: a register each, with a gate (bit 31), a source (from bit 24) and *)
(* a divider (from bit 0) of the widths given, 0 where there is none.       *)

Clock(gate, source, divider) == [gate |-> gate, source |-> source, divider |-> divider]
Divided(width) == Clock(0, 0, width)
Gated == Clock(1, 0, 0)
GatedFrom(width) == Clock(1, width, 0)
Pll1Clocks ==
  [pll1_in |-> Clock(0, 1, 0), pll1_out_div5 |-> Divided(3), pll1_out_div3 |-> Divided(3),
   pll1_out_div2 |-> Divided(3), pll1_out_div125 |-> Divided(5), pll1_out_spi |-> Divided(6),
   fclk_48m |-> Divided(4), fclk_24m |-> Divided(5), fclk_12m |-> Divided(5)]
BusClocks ==
  [pll2_in |-> Clock(0, 2, 0), pll3_in |-> Clock(0, 2, 0), pll3_out_div2 |-> Divided(3),
   pll3_out_div20 |-> Divided(4), dsp_clk |-> Clock(0, 2, 5), axi_clk |-> Divided(5),
   ahb_clk |-> Divided(5), apb_clk |-> Divided(5)]
I2sClocks ==
  [i2sadc_bclk |-> Clock(0, 1, 9), i2s0_in_bclk |-> Divided(6), i2s0_in_lrck |-> Divided(8),
   i2s1_in_bclk |-> Divided(9), i2s1_in_lrck |-> Divided(9), i2sadc_bclk_icg |-> Gated,
   i2sadc_lrck_internal |-> Divided(9), Frdiv0 |-> Clock(0, 2, 16)]
MemoryClocks ==
  [pclk_timclk |-> Divided(8), pclk_wdogclk |-> Divided(8), dsp0_clk |-> Gated,
   dsp1_clk |-> Gated, SHRM0_CLK |-> Gated, SHRM1_CLK |-> Gated, SHRM2_CLK |-> Gated,
   SHRM3_CLK |-> Gated, vad_mem_clk |-> GatedFrom(1), dmac_core_clock |-> Gated,
   DMA_aclk_m1 |-> Gated]
I2cClocks ==
  [DMA_hclk |-> Gated, gpio_PCLK |-> Clock(1, 1, 10), wdt_PCLK |-> Gated, wdt_WDOGCLK |-> Gated,
   i2c0_pclk |-> Gated, i2c0_ic_clk |-> GatedFrom(2), i2c1_pclk |-> Gated]
SpiUartClocks ==
  [i2c1_ic_clk |-> GatedFrom(2), SPI_PCLK |-> Gated, SPI_SSPCLK |-> GatedFrom(2),
   timer_PCLK |-> Gated, timer_TIMCLK |-> Gated, apbucp_pclk |-> Gated, uart0_pclk |-> Gated]
UartUsbClocks ==
  [uart0_sclk |-> GatedFrom(2), uart1_pclk |-> Gated, uart1_sclk |-> GatedFrom(2),
   USB_HCLK |-> Gated, USB_CLK |-> Gated, USB_FCLK |-> Gated, i2sadc_pclk |-> Gated]
AudioClocks ==
  [i2sadc_lrck |-> Clock(0, 1, 0), i2sdac_pclk |-> Gated, i2s1_pclk |-> Gated,
   i2svad_pclk |-> GatedFrom(1), i2svad_lrck |-> Clock(0, 1, 0),
   ACDC_MCLK |-> Clock(1, 2, 5), ptc_pclk |-> Gated, usb_ram_clk |-> Gated]
Clocks == Pll1Clocks @@ BusClocks @@ I2sClocks @@ MemoryClocks @@ I2cClocks
          @@ SpiUartClocks @@ UartUsbClocks @@ AudioClocks

Gate(c) == Field(<<"clk", c>>, 31, Clocks[c].gate)
Source(c) == Field(<<"clk", c>>, 24, Clocks[c].source)
Divider(c) == Field(<<"clk", c>>, 0, Clocks[c].divider)

-----------------------------------------------------------------------------
(* The system controller.                                                   *)

Con(reg, lo, width) == Field(<<"con", reg>>, lo, width)
Dsp0 == [AltResetVec0 |-> Con("dsp0resetvec", 0, 32),
   RunStall0 |-> Con("dsp0config", 0, 1), StatVectorSel0 |-> Con("dsp0config", 1, 1),
   TrigIn_iDMA0 |-> Con("dsp0config", 2, 1), BreakIn0 |-> Con("dsp0config", 3, 1),
   BreakOutAck0 |-> Con("dsp0config", 4, 1), OCDHaltOnReset0 |-> Con("dsp0config", 5, 1),
   dsp0_en |-> Con("dsp0config", 6, 1), PRID0 |-> Con("dsp0config", 16, 16)]
Dsp1 == [AltResetVec1 |-> Con("dsp1resetvec", 0, 32),
   RunStall1 |-> Con("dsp1config", 0, 1), StatVectorSel1 |-> Con("dsp1config", 1, 1),
   TrigIn_iDMA1 |-> Con("dsp1config", 2, 1), BreakIn1 |-> Con("dsp1config", 3, 1),
   BreakOutAck1 |-> Con("dsp1config", 4, 1), OCDHaltOnReset1 |-> Con("dsp1config", 5, 1),
   dsp1_en |-> Con("dsp1config", 6, 1), PRID1 |-> Con("dsp1config", 16, 16)]
UsbConfig == [interrupt_pol |-> Con("interrupt_pol", 0, 32),
   VBUSVAL |-> Con("usb_config", 0, 1), VBUSSES |-> Con("usb_config", 1, 1),
   VBUSLO |-> Con("usb_config", 2, 1), CID |-> Con("usb_config", 3, 1),
   TM1 |-> Con("usb_config", 4, 1)]
I2s0Codec == [i2s0_mode |-> Con("i2s0_control", 0, 1), i2s0_enable |-> Con("i2s0_control", 1, 1),
   SI2C |-> Con("cdc_control", 7, 1), adc_drvp_mntn_sel |-> Con("cdc_control", 8, 1),
   acdc_dac_data_sel |-> Con("cdc_control", 9, 1), acdc_dac_clk_sel |-> Con("cdc_control", 10, 1),
   NLR_BYPASS |-> Con("cdc_control", 11, 1)]
Pll1 == [N1 |-> Con("pll1", 1, 4), M1 |-> Con("pll1", 5, 8), PDRST1 |-> Con("pll1", 13, 1),
         OD1 |-> Con("pll1", 14, 2), BP1 |-> Con("pll1", 16, 1)]
Pll2 == [N2 |-> Con("pll2", 1, 4), M2 |-> Con("pll2", 5, 8), PDRST2 |-> Con("pll2", 13, 1),
         OD2 |-> Con("pll2", 14, 2), BP2 |-> Con("pll2", 16, 1)]
Pll3 == [N3 |-> Con("pll3", 1, 4), M3 |-> Con("pll3", 5, 8), PDRST3 |-> Con("pll3", 13, 1),
         OD3 |-> Con("pll3", 14, 2), BP3 |-> Con("pll3", 16, 1)]
Pmu == [system_power |-> Con("pmu", 0, 1), sram1_power |-> Con("pmu", 1, 1),
        sram2_power |-> Con("pmu", 2, 1), sram3_power |-> Con("pmu", 3, 1),
        dsp1_power |-> Con("pmu", 4, 1), int_wakeup_enable |-> Con("pmu", 5, 5)]
Requests_OneRegister ==
  [interrupt_en |-> Con("dma_req_control", 3, 1),
   ep1_switch |-> Con("dma_req_control", 0, 1), ep2_switch |-> Con("dma_req_control", 1, 1),
   ep3_switch |-> Con("dma_req_control", 2, 1)]
Requests == [interrupt_en |-> Con("interrupt_control", 0, 1),
   ep1_switch |-> Con("dma_req_control", 0, 1), ep2_switch |-> Con("dma_req_control", 1, 1),
   ep3_switch |-> Con("dma_req_control", 2, 1)]
Osc == [OSC_DS0 |-> Con("osc_pad_control", 0, 1), OSC_DS1 |-> Con("osc_pad_control", 1, 1)]
I2s1 == [i2s1_mode |-> Con("i2s1_control", 0, 1), i2s1_enable |-> Con("i2s1_control", 1, 1),
   wrap_bypass |-> Con("i2s1_control", 2, 1), audio_mode |-> Con("i2s1_control", 4, 4),
   skip_head |-> Con("i2s1_control", 8, 8), lr_ratio |-> Con("i2s1_control", 16, 8),
   slot_num |-> Con("i2s1_control", 24, 8)]
I2s1Delay == [sdo_dly_cycle |-> Con("i2s1_delay", 0, 8), lrck_dly_cycle |-> Con("i2s1_delay", 8, 6)]
Dsp0Memory == [k \in {<<"delay0", i>> : i \in 0 .. 6} |-> Con("dsp0_mem_delay", 4 * k[2], 2)]
Dsp1Memory == [k \in {<<"delay1", i>> : i \in 0 .. 6} |-> Con("dsp1_mem_delay", 4 * k[2], 2)]
PowerDelays == [power_up_dly |-> Con("power_up_delay", 0, 16),
                power_dn_dly |-> Con("power_down_delay", 0, 16)]

(* One register of outputs: a bit for each of 16 pins, driven if the bit 16 *)
(* above it is set.                                                         *)
Debug == <<"con", "debug_register">>

(* The fields there is a macro for, in the order of the headers.            *)
ClockFields(table) ==
  {f \in UNION {{Gate(c), Source(c), Divider(c)} : c \in DOMAIN table} : f.width > 0}
FieldTables ==
  <<ClockFields(Pll1Clocks), ClockFields(BusClocks), ClockFields(I2sClocks),
    ClockFields(MemoryClocks), ClockFields(I2cClocks), ClockFields(SpiUartClocks),
    ClockFields(UartUsbClocks), ClockFields(AudioClocks), Range(Dsp0), Range(Dsp1),
    Range(UsbConfig), Range(I2s0Codec), Range(Pll1), Range(Pll2), Range(Pll3), Range(Pmu),
    Range(Requests), Range(Osc), Range(I2s1), Range(I2s1Delay), Range(Dsp0Memory),
    Range(Dsp1Memory), Range(PowerDelays)>>
Fields == UNION Range(FieldTables)
=============================================================================
