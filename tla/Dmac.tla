--------------------------------- MODULE Dmac ---------------------------------
(***************************************************************************)
(* A channel of the DMA controller and what the driver (cdl/dma/cdl_dma.c) *)
(* does to it: choose it, configure it for a device, start it, ask whether *)
(* it is done.  Operators from a channel to a channel; the modules of the  *)
(* drivers that use the controller move the items.                         *)
(***************************************************************************)
EXTENDS Integers

(* Transfer widths in bytes, by the name of the enumeration.                *)
Width == [bits_8 |-> 1, bits_16 |-> 2, bits_32 |-> 4, bits_64 |-> 8]
FromMemory(per, src, dst) ==
  [per |-> per, src |-> src, dst |-> dst, inc |-> {"src"}, toMemory |-> FALSE]
ToMemory(per, src, dst) ==
  [per |-> per, src |-> src, dst |-> dst, inc |-> {"dst"}, toMemory |-> TRUE]

(* dma_ch_config_src and dma_ch_config_dst as the wrappers call them: the   *)
(* request line (DMA_REQ_...), the widths at both ends and the address that *)
(* goes on.  SPI words of up to 8 bits, I2S samples of 16 and of more bits. *)
UartTx(port) == FromMemory(IF port = 0 THEN 12 ELSE 14, "bits_8", "bits_8")
UartRx(port) == ToMemory(IF port = 0 THEN 13 ELSE 15, "bits_8", "bits_32")
SpiWidth(ds) == IF ds <= 8 THEN "bits_8" ELSE "bits_16"
SpiTx(ds) == FromMemory(6, SpiWidth(ds), SpiWidth(ds))
SpiRx(ds) == ToMemory(7, SpiWidth(ds), SpiWidth(ds))
I2cTx(slave) == FromMemory(IF slave THEN 8 ELSE 10, "bits_8", "bits_8")
I2cRx(slave) == ToMemory(IF slave THEN 9 ELSE 11, "bits_8", "bits_32")

(* A channel: enabled, its TFR_DONE status, its configuration and the items *)
(* left to move, which it cannot say while it runs.                         *)
NoConfig == [per |-> 0, src |-> "bits_8", dst |-> "bits_8", inc |-> {}, toMemory |-> FALSE]
IdleChannel == [en |-> FALSE, done |-> FALSE, cfg |-> NoConfig, left |-> 0]

(* A write of the enable register with one channel's write enable bit: the  *)
(* other channels keep theirs.                                              *)
Enable(channels, ch, on) == [channels EXCEPT ![ch].en = on]

(* dma_ch_select: a channel still running is stopped, its status cleared.   *)
Select(channels, ch) == [Enable(channels, ch, FALSE) EXCEPT ![ch].done = FALSE]

(* dma_ch_config_hw: BLOCK_TS, 22 bits, is the items less one, in units of  *)
(* the source's width; a length of 0 makes it the largest block.            *)
BlockTs(len, width) == (len \div Width[width] - 1) % (2 ^ 22)
ConfigHw(channels, ch, cfg, len) ==
  Enable([channels EXCEPT ![ch].done = FALSE, ![ch].cfg = cfg,
                          ![ch].left = BlockTs(len, cfg.src) + 1], ch, TRUE)

(* A wrapper (dma_spi_tx, ...) called with ST_NO_POLLING.                   *)
StartChannel(channels, ch, cfg, len) == ConfigHw(Select(channels, ch), ch, cfg, len)

(* The controller moves an item; after the last it disables the channel and *)
(* raises TFR_DONE.                                                         *)
Move(channels, ch) ==
  [channels EXCEPT ![ch].left = @ - 1, ![ch].en = (channels[ch].left > 1),
                   ![ch].done = (channels[ch].left = 1)]
=============================================================================
