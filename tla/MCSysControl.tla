------------------------------ MODULE MCSysControl ------------------------------
(* Programs for SysControl: what main.c, the console commands and usb_playback *)
(* call, and all pads, ports and types one after the other.                    *)
EXTENDS SysControl, FiniteSetsExt

Acc(s) == [fun |-> "access", script |-> s]
All(Op2(_), s) == [i \in DOMAIN s |-> Acc(Op2(s[i]))]

AllPads(f, r) ==
  PadTck(f, r) \o PadTms(7 - f, 1 - r) \o PadTdo(f, r) \o PadTdi(f, r) \o PadTrst(7 - f, r)
  \o PadSpiClk(f, r) \o PadSpiCsn(7 - f, r) \o PadSpiRxd(f, r) \o PadSpiTxd(f, 1 - r)
  \o PadUart0Rxd(f, r) \o PadUart0Txd(7 - f, r) \o PadI2csScl(f, r) \o PadI2csSda(f, r)
  \o PadGpio0(f, r) \o PadGpio1(7 - f, 1 - r) \o PadPwm0(f, r) \o PadPwm1(7 - f, r) \o PadPwm2(f, r)
  \o PadDmicClk11(f, r) \o PadDmicClk12(f, r) \o PadDmicIn1(7 - f, r) \o PadDmicClk21(f, r)
  \o PadDmicClk22(f, r) \o PadDmicIn2(7 - f, 1 - r) \o PadI2smicSbclk(f, r) \o PadI2smicSlr0(f, r)
  \o PadI2smicSsdata(f, r) \o PadDopwmlp(f, r) \o PadDopwmln(7 - f, r) \o PadDopwmrp(f, r)
  \o PadDopwmrn(f, 1 - r) \o PadI2s2Mclk(7 - f, r)
Pads == <<Acc(AllPads(5, 1)), Acc(AllPads(2, 0)), Acc(AllPads(8, 1))>>

(* Every field that has a macro, set to every second bit, then to the others. *)
EveryOther(f, from) == Set(f, {i \in 0 .. f.width - 1 : i % 2 = from})
SetFields(table, from) == FoldSet(LAMBDA f, s : EveryOther(f, from) \o s, <<>>, table)
Macros == <<Acc(EachOf(LAMBDA t : SetFields(t, 0), FieldTables)),
            Acc(EachOf(LAMBDA t : SetFields(t, 1), FieldTables))>>

Boot == All(SwRst, <<"DMAC", "GPIO", "SPI", "TIMER", "USB", "ACDCUCP", "WDT", "PTC">>)
Others == All(SwRst, <<"SYS_A", "SYS_H", "SYS_P", "SYS_AON", "DSP0_B", "DSP0_D", "I2CS", "I2CM",
                       "UART0", "UART1", "NRST">>)
          \o <<Acc(Dsp0Config), Acc(Dsp1Config({4, 20}))>>

Types == <<0, 1, 2, 3, 4, 5>>
Audio ==
  <<Acc(I2sAdcClkConfig(128, TRUE)), Acc(VadNormalToIdleInit(1, 3)), Acc(VadBackToAdc),
    Acc(I2sAdcClkConfig(255, FALSE)), Acc(VadNormalToIdleInit(0, 0)),
    Acc(I2sDacClkConfig(64, TRUE, TRUE)), Acc(I2sDacClkConfig(255, FALSE, FALSE))>>
  \o All(LAMBDA t : I2s1MasterClkConfig(32, t, 16), Types)
  \o All(LAMBDA t : I2s1SlaveClkConfig(0, t, 24), Types)
  \o All(LAMBDA t : I2s1MasterClkConfig(128, t, 32), Types)
  \o All(LAMBDA t : I2s1SlaveClkConfig(0, t, 32), Types)
  \o <<Acc(I2s1SlaveClkConfig(0, 2, 16)), Acc(I2sEnable)>>

Prepare(k) == Acc(DacTestPrepare(k))
Codec(fun, k) == [fun |-> fun, codec |-> k]
Volume(k, ch, l, r) == [fun |-> "set_volume", codec |-> k, ch |-> ch, l |-> l, r |-> r]
Switch_(k, ctl, on) == [fun |-> "switch", codec |-> k, ctl |-> ctl, on |-> on]
If(k, dac) == [fun |-> "set_if", codec |-> k, dac |-> dac]
DacCfg(k, master, div, dac) ==
  <<Codec("init", k), If(k, dac), [fun |-> "set_role", codec |-> k, master |-> master],
    [fun |-> "lrclk_div", codec |-> k, div |-> div], Volume(k, 1, 80, 80), Switch_(k, "CH1_SW", TRUE)>>

TwoCodecs ==
  <<Prepare(1)>> \o DacCfg(1, TRUE, 128, {1}) \o <<Prepare(2)>> \o DacCfg(2, FALSE, 768, {0, 5})
  \o <<Volume(1, 2, 10, 100), Switch_(1, "CH2_SW", TRUE), Switch_(2, "ZC_SW", FALSE),
       Switch_(2, "PHASE3_SW", TRUE), Switch_(1, "IZD_SW", FALSE), Switch_(1, "DEEMPH2_SW", TRUE),
       [fun |-> "clk_polarity", codec |-> 2, lrclk |-> TRUE, bclk |-> FALSE],
       Volume(2, 3, 50, 0), Codec("volume_restore", 2), Codec("resume", 1)>>
  \o <<Prepare(1)>> \o DacCfg(1, FALSE, 100, {})

Connected(v) == Acc(<<[op |-> "connect", value |-> v]>>)
UsbPlayback(k) ==
  <<Acc(UsbClkConfig), Acc(InterruptEn(1)), Prepare(k), Codec("init", k), If(k, {1}),
    Volume(k, 1, 50, 50), Switch_(k, "CH1_SW", TRUE),
    Acc(IF k = 1 THEN I2sDacClkConfig(32, TRUE, TRUE) ELSE I2s1MasterClkConfig(32, 0, 16)),
    Acc(InterruptEn(1)), Connected(TRUE), Acc(InterruptEn(0)), Connected(FALSE)>>


(* With polling_mode the USB is served by the main loop, and only the DMA's *)
(* completion of a buffer interrupts it.                                    *)
UsbPolled ==
  <<Prepare(2), Codec("init", 2), Volume(2, 1, 50, 50), Acc(InterruptEn(1)), Connected(TRUE),
    Acc(EpSwitch(1, TRUE)), Acc(I2sEnable), Acc(EpSwitch(3, FALSE)), Volume(2, 1, 10, 80),
    Acc(EpSwitch(1, FALSE)), Acc(InterruptEn(0)), Connected(FALSE)>>

On(call, field, v) == [fun |-> "access", script |-> call, when |-> field, is |-> v]

(* gpio_output, gpio_input and gpio_int_type (test_gpio.c), and the chip    *)
(* select of the flash; the handler of pin 2 masks it in the end, or the    *)
(* command ends first.                                                      *)
GpioPins ==
  <<Acc(GpioOutput(4, TRUE)), Acc(SpiCsCtrl(TRUE)), Acc(GpioInput(5)), Acc(SpiCsCtrl(FALSE)),
    Acc(GpioInput(4)), Acc(GpioOutput(5, TRUE)), Acc(GpioPrepare(2, FALSE)),
    Acc(ConnectIrq(TRUE) \o InterruptEn(1) \o GpioSetIntType(2, FALSE, "rising")
        \o GpioSetIe(2, TRUE)),
    Acc(ConnectIrq(FALSE) \o GpioSetIe(2, FALSE)), Acc(GpioSetIntType(2, FALSE, "both")),
    Acc(SpiCsCtrl(TRUE)), Acc(GpioSetIntType(2, TRUE, "low"))>>
GpioHandlers == {On(GpioIntHandler(2, last), Field(GpioIe, 2, 1), {0}) : last \in BOOLEAN}

(* The console's timer, watchdog and PWM commands, and both UARTs.          *)
SmallPorts ==
  <<Acc(TimerInit(0)), Acc(TimerSetLoad(0, 0 .. 31)), Acc(TimerSetBgload(0, 0 .. 31)),
    Acc(TimerStart(0)), Acc(TimerStop(0)), Acc(TimerInit(1)), Acc(TimerClrInt(1)),
    Acc(TimerSetCtrl(1, FALSE, TRUE, 0, TRUE, FALSE, FALSE)), Acc(TimerSetLoad(1, {26})),
    Acc(TimerEnableCtrl(1, TRUE)), Acc(TimerEnableCtrl(1, FALSE)),
    Acc(WdogInit({3, 30})), Acc(WdogStart({3, 30})), Acc(WdogRestart({3, 30})), Acc(WdogStop),
    Acc(PtcTestPwm(0, 3, 9)), Acc(PtcTestPwm(2, 9, 3)), Acc(PtcTestPwm(2, 1, 2)), Acc(PtcStop(0)),
    Acc(UartInit(0, FALSE, 25000000, 115200, 3, 0, 0)),
    Acc(UartInit(1, TRUE, 25000000, 1200, 0, 1, 3)), Acc(UartIntCtrl(1, {0})),
    Acc(UartInit(1, FALSE, 25000000, 115200, 2, 0, 1))>>

(* i2s_xfer with interrupts: three channels record while one plays; the     *)
(* ports are stopped when the handlers have masked their channels.          *)
Recorder == I2sConfigFromHw("I2S_ADC", FALSE, FALSE, 3, 2, <<0, 1, 2>>, 24)
Player == I2sConfigFromHw("I2S_1", TRUE, TRUE, 1, 4, <<0, 1>>, 16)
Masked(p, ch) == Field(Imr(p, ch), Ready(p), 1)
I2sTransfer ==
  <<Acc(I2s1MasterClkConfig(32, 0, 16)), Acc(I2sInit(Recorder, TRUE)), Acc(I2sInit(Player, TRUE)),
    Acc(I2sStart(Recorder)), Acc(I2sStart(Player)),
    On(I2sStop(Player), Masked(Player, 0), {0}), On(I2sStop(Recorder), Masked(Recorder, 2), {0}),
    Acc(I2sExit(TRUE))>>
I2sHandlers ==
  {On(I2sTxHandler(Player, over, done), Masked(Player, 0), {}) : over, done \in BOOLEAN}
  \cup {On(I2sRxHandler(Recorder, over, done), Masked(Recorder, ch), {}) :
           over \in BOOLEAN, done \in {{}, {2}, {0, 1, 2}}, ch \in {0, 2}}

HandlersFor(k) == {Volume(k, 1, 80, 10), Acc(EpSwitch(1, TRUE)), Acc(EpSwitch(3, FALSE)), Acc(I2sEnable)}
MCPrograms == <<Pads, Macros, Boot, Others, Audio, TwoCodecs, UsbPlayback(1), UsbPlayback(2), UsbPolled,
               GpioPins, SmallPorts, I2sTransfer>>
MCHandlerCalls == <<{}, {}, {}, {}, {}, {}, HandlersFor(1), HandlersFor(2), {Acc(I2sEnable)},
                    GpioHandlers, {}, I2sHandlers>>
MCMaxInterrupts == <<0, 0, 0, 0, 0, 0, 2, 2, 1, 3, 0, 3>>
=============================================================================
