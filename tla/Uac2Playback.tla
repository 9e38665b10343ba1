---------------------------- MODULE Uac2Playback ----------------------------
(***************************************************************************)
(* USB speaker playback: isochronous OUT packets are received by the USB   *)
(* device controller straight into a ring in memory, and the ring is       *)
(* played, one half at a time, by a DMA transfer to the I2S transmitter    *)
(* (cdl/usb/gadget/f_uac2.c, `ao_stat`; store = 0, dt_mode = DT_DMA,       *)
(* dma_irq_en = 1).                                                        *)
(*                                                                         *)
(* Two contexts share `ao_stat` without any lock:                          *)
(*   - the USB context (main loop or USB interrupt): agdev_iso_complete    *)
(*     for a received packet, afunc_set_alt and afunc_disable for the      *)
(*     requests of the host.  It is modelled at the grain at which the     *)
(*     DMA interrupt can cut it: `pc` is where it was cut.                 *)
(*   - the DMA interrupt: dma_int_i2s_handler, one atomic step, at any     *)
(*     value of pc.                                                        *)
(* The hardware is the third actor: a DMA transfer ends at any time.       *)
(*                                                                         *)
(* Sizes and positions are in bytes, scaled down by the constants.         *)
(***************************************************************************)
EXTENDS Integers, Sequences

CONSTANTS
  Psizes,      (* packet sizes (max_psize) of the alternate settings        *)
  BufSize,     (* UAC2_RX_BUF_SIZE, 768 KiB in the code                     *)
  Align,       (* the pointer is rounded down to this, 16 in the code       *)
  CounterMod,  (* 2^32: the byte counters are unsigned long on this CPU     *)
  UsbXfers,    (* USB_XFERS, requests queued at once, 2 in the code         *)
  MaxBytes,    (* bound of the model: bytes counted in one stream           *)
  MaxStreams   (* bound of the model: streams started                       *)

(* Requests are queued in rounds of at least two, and a ring holds a round. *)
ASSUME SizesAssumption ==
  /\ Psizes \subseteq Nat \ {0} /\ Psizes # {}
  /\ BufSize \in Nat /\ Align \in Nat \ {0} /\ UsbXfers \in Nat \ {0, 1}
  /\ CounterMod \in Nat \ {0} /\ MaxBytes \in Nat /\ MaxStreams \in Nat
  /\ \A m \in Psizes : m * UsbXfers <= BufSize

(* Definitions named X_Y are X with the defect Y, one that an edit of the   *)
(* code could introduce: no action uses them, they show that a property     *)
(* would notice the defect.                                                 *)

VARIABLES
  epEnabled,    (* prm->ep_enabled                                          *)
  psize,        (* prm->max_psize, the length of every request              *)
  reqs,         (* buffers (ring offsets) of the queued requests, in order  *)
  rxBufPtr,     (* ao_stat.uac2_rx_buf_ptr: next buffer to hand out         *)
  rxBufSize,    (* ao_stat.uac2_rx_buf_size                                 *)
  playbackSize, (* ao_stat.i2s_playback_size: half of the ring              *)
  playbackPtr,  (* ao_stat.i2s_playback_ptr: next half to play              *)
  sched,        (* ao_stat.dma_i2s_tx_sched                                 *)
  rxedSize,     (* ao_stat.uac2_rxed_size                                   *)
  txedSize,     (* ao_stat.i2s_txed_size                                    *)
  pc,           (* where the USB context is                                 *)
  cur,          (* req->buf of the request being completed                  *)
  dmaDone,      (* the local dma_done of the USB context                    *)
  dma,          (* the I2S transmit channel: the half it is playing         *)
  tfrDone,      (* its TFR_DONE status, which drives the interrupt          *)
  streams       (* streams started, for the bound                           *)

\* History variables: what really happened, for the properties only.
VARIABLES
  fill,   (* bytes received and not dropped minus bytes played, this stream *)
  stale,  (* the transfer in flight was started for an earlier stream       *)
  slip    (* a stale transfer has been counted as played by this stream     *)

aoStat  == <<rxBufPtr, rxBufSize, playbackSize, playbackPtr, sched,
             rxedSize, txedSize>>
channel == <<dma, tfrDone, stale>>
history == <<fill, slip>>
vars    == <<epEnabled, psize, reqs, aoStat, pc, cur, dmaDone, channel,
             streams, history>>

-----------------------------------------------------------------------------
(* dma_i2s_tx_sched.                                                        *)
IrqTrig   == "DMA_I2S_TX_IRQ_TRIG"
ByUac2    == "DMA_I2S_TX_SCHED_BY_UAC2"
WaitData  == "DMA_I2S_TX_WAIT_UAC2_DATA"
SchedVals == {IrqTrig, ByUac2, WaitData}

I2sTxBufCnt  == 2
Uac2RxBufCnt == 2

Idle  == [on |-> FALSE, from |-> 0, len |-> 0]
Add32(a, b) == (a + b) % CounterMod
Sub32(a, b) == (a - b) % CounterMod

(* uac2_rx_buf_init: whole rounds of requests, played in two halves.        *)
RxBufSizeOf(m)    == (BufSize \div (m * UsbXfers)) * (m * UsbXfers)
PlaybackSizeOf(m) == RxBufSizeOf(m) \div I2sTxBufCnt

(* uac2_rx_buf_alloc: where the pointer stands after `size` bytes.          *)
PtrAfter_NoWrap(ptr, size, bufSize) == ptr + size
PtrAfter(ptr, size, bufSize) ==
  LET next == (ptr + size) % bufSize IN next - (next % Align)

(* agdev_iso_complete, the overrun test: is there room for another packet?  *)
HasRoom_ToTheBrim == rxedSize <= Add32(txedSize, playbackSize * Uac2RxBufCnt)
HasRoom_ThreeHalves == rxedSize < Add32(txedSize, playbackSize * 3)
HasRoom == rxedSize < Add32(txedSize, playbackSize * Uac2RxBufCnt)

-----------------------------------------------------------------------------
(* afunc_bind: the ring is laid out for the bind-time packet size, nothing  *)
(* is queued and the DMA channel is idle.                                   *)
Init ==
  /\ psize \in Psizes
  /\ epEnabled = FALSE
  /\ reqs = <<>>
  /\ rxBufSize = RxBufSizeOf(psize)
  /\ playbackSize = PlaybackSizeOf(psize)
  /\ rxBufPtr = PtrAfter(0, psize * UsbXfers, rxBufSize)
  /\ playbackPtr = 0
  /\ sched = ByUac2
  /\ rxedSize = 0 /\ txedSize = 0
  /\ pc = "idle" /\ cur = 0 /\ dmaDone = FALSE
  /\ dma = Idle /\ tfrDone = FALSE
  /\ streams = 0
  /\ fill = 0 /\ stale = FALSE /\ slip = FALSE

(* free_ep under alternate setting 0 and in afunc_disable: the queued       *)
(* requests are given back, and their completions return at once because    *)
(* ep_enabled is already false.  Neither ao_stat nor the DMA is touched.    *)
StopStream ==
  /\ pc = "idle" /\ epEnabled
  /\ epEnabled' = FALSE
  /\ reqs' = <<>>
  /\ UNCHANGED <<psize, aoStat, pc, cur, dmaDone, channel, streams, history>>

(* afunc_set_alt, alt > 0: free_ep, enable the endpoint with the packet     *)
(* size of the setting, and clear ao_stat (memset in uac2_rx_buf_init).     *)
(* The DMA channel, which may still be playing, is left running.            *)
SetAltClear(m) ==
  /\ pc = "idle" /\ streams < MaxStreams
  /\ streams' = streams + 1
  /\ epEnabled' = TRUE
  /\ psize' = m
  /\ reqs' = <<>>
  /\ rxBufPtr' = 0 /\ rxBufSize' = 0 /\ playbackSize' = 0 /\ playbackPtr' = 0
  /\ sched' = IrqTrig
  /\ rxedSize' = 0 /\ txedSize' = 0
  /\ pc' = "init"
  /\ stale' = (dma.on \/ tfrDone)
  /\ fill' = 0 /\ slip' = FALSE
  /\ UNCHANGED <<cur, dmaDone, dma, tfrDone>>

(* ... then set up the ring, take the first round of buffers from it and    *)
(* queue the requests.                                                      *)
SetAltSetup_AllocOne ==
  /\ pc = "init"
  /\ rxBufSize' = RxBufSizeOf(psize)
  /\ playbackSize' = PlaybackSizeOf(psize)
  /\ rxBufPtr' = PtrAfter(0, psize, RxBufSizeOf(psize))
  /\ playbackPtr' = 0
  /\ rxedSize' = 0 /\ txedSize' = 0
  /\ sched' = ByUac2
  /\ reqs' = [i \in 1 .. UsbXfers |-> (i - 1) * psize]
  /\ pc' = "idle"
  /\ slip' = FALSE
  /\ UNCHANGED <<epEnabled, psize, cur, dmaDone, channel, streams, fill>>
SetAltSetup ==
  /\ pc = "init"
  /\ rxBufSize' = RxBufSizeOf(psize)
  /\ playbackSize' = PlaybackSizeOf(psize)
  /\ rxBufPtr' = PtrAfter(0, psize * UsbXfers, RxBufSizeOf(psize))
  /\ playbackPtr' = 0
  /\ rxedSize' = 0 /\ txedSize' = 0
  /\ sched' = ByUac2
  /\ reqs' = [i \in 1 .. UsbXfers |-> (i - 1) * psize]
  /\ pc' = "idle"
  /\ slip' = FALSE
  /\ UNCHANGED <<epEnabled, psize, cur, dmaDone, channel, streams, fill>>

-----------------------------------------------------------------------------
(* i2s_xfer_tx_async down to dma_i2s_tx: dma_ch_select force-stops the      *)
(* channel if it is active and clears its status, then the channel is       *)
(* programmed with the next half and enabled.  The start, the new pointer   *)
(* and the new state are one step: a half takes seconds to play, the three  *)
(* assignments do not last as long.                                         *)
StartHalf ==
  /\ dma' = [on |-> TRUE, from |-> playbackPtr, len |-> playbackSize]
  /\ tfrDone' = FALSE /\ stale' = FALSE
  /\ playbackPtr' = (playbackPtr + playbackSize) % rxBufSize
  /\ sched' = IrqTrig

(* Nothing to play: the next packet will have to start the channel again.   *)
GoWait_KeepState(left) ==
  /\ tfrDone' = left
  /\ UNCHANGED <<sched, playbackPtr, dma>>
GoWait(left) ==
  /\ sched' = WaitData
  /\ tfrDone' = left
  /\ UNCHANGED <<playbackPtr, dma>>

(* dma_int_i2s_handler once dma_i2s_tx_is_done has read `done` and cleared  *)
(* the status, of which `left` remains: count the half that was played,     *)
(* then play the next one or wait for the host.                             *)
Handler(done, left) ==
  LET txed == IF done THEN Add32(txedSize, playbackSize) ELSE txedSize
  IN /\ txedSize' = txed
     /\ fill' = IF done /\ ~stale THEN fill - playbackSize ELSE fill
     /\ slip' = (slip \/ (done /\ stale))
     /\ IF ~(done \/ sched = ByUac2)
        THEN /\ tfrDone' = left
             /\ UNCHANGED <<sched, playbackPtr, dma, stale>>
        ELSE IF rxedSize <= txed
        THEN GoWait(left) /\ stale' = (stale /\ ~done)
        ELSE StartHalf

(* INT_DMAC, level triggered by TFR_DONE.                                   *)
DmaInterrupt_NotCleared ==
  /\ tfrDone
  /\ Handler(TRUE, TRUE)
  /\ UNCHANGED <<epEnabled, psize, reqs, rxBufPtr, rxBufSize, playbackSize,
                 rxedSize, pc, cur, dmaDone, streams>>
DmaInterrupt ==
  /\ tfrDone
  /\ Handler(TRUE, FALSE)
  /\ UNCHANGED <<epEnabled, psize, reqs, rxBufPtr, rxBufSize, playbackSize,
                 rxedSize, pc, cur, dmaDone, streams>>

(* The hardware: a transfer ends and the channel clears its enable bit.     *)
DmaComplete ==
  /\ dma.on
  /\ dma' = Idle
  /\ tfrDone' = TRUE
  /\ UNCHANGED <<epEnabled, psize, reqs, aoStat, pc, cur, dmaDone, stale,
                 streams, history>>

-----------------------------------------------------------------------------
(* agdev_iso_complete, in the four steps the DMA interrupt can separate.    *)

(* A packet has been received in the buffer of the oldest request.  It      *)
(* counts for the length of the request, short or failed packets included.  *)
PacketArrives ==
  /\ pc = "idle" /\ epEnabled /\ reqs # <<>>
  /\ rxedSize + psize <= MaxBytes
  /\ cur' = Head(reqs)
  /\ reqs' = Tail(reqs)
  /\ rxedSize' = Add32(rxedSize, psize)
  /\ fill' = fill + psize
  /\ pc' = "counted"
  /\ UNCHANGED <<epEnabled, psize, rxBufPtr, rxBufSize, playbackSize,
                 playbackPtr, sched, txedSize, dmaDone, channel, streams, slip>>

(* Under SCHED_BY_UAC2 the handler is called: it first reads and clears     *)
(* the channel's status, two accesses that are taken as one.  They matter   *)
(* only when a transfer of an earlier stream is still running.              *)
CheckSched ==
  /\ pc = "counted"
  /\ IF sched = ByUac2
     THEN pc' = "handler" /\ dmaDone' = tfrDone /\ tfrDone' = FALSE
     ELSE pc' = "handled" /\ UNCHANGED <<dmaDone, tfrDone>>
  /\ UNCHANGED <<epEnabled, psize, reqs, aoStat, cur, dma, stale, streams,
                 history>>

CallHandler ==
  /\ pc = "handler"
  /\ Handler(dmaDone, tfrDone)
  /\ pc' = "handled"
  /\ dmaDone' = FALSE
  /\ UNCHANGED <<epEnabled, psize, reqs, rxBufPtr, rxBufSize, playbackSize,
                 rxedSize, cur, streams>>

(* A playback that waits for data is rescheduled when there is some.        *)
Reschedule_Always ==
  /\ pc = "handled"
  /\ sched' = IF rxedSize > txedSize THEN ByUac2 ELSE sched
  /\ pc' = "room"
  /\ UNCHANGED <<epEnabled, psize, reqs, rxBufPtr, rxBufSize, playbackSize,
                 playbackPtr, rxedSize, txedSize, cur, dmaDone, channel,
                 streams, history>>
Reschedule_WholeHalf ==
  /\ pc = "handled"
  /\ sched' = IF sched = WaitData /\ rxedSize > txedSize + playbackSize
              THEN ByUac2 ELSE sched
  /\ pc' = "room"
  /\ UNCHANGED <<epEnabled, psize, reqs, rxBufPtr, rxBufSize, playbackSize,
                 playbackPtr, rxedSize, txedSize, cur, dmaDone, channel,
                 streams, history>>
Reschedule_Never ==
  /\ pc = "handled"
  /\ pc' = "room"
  /\ UNCHANGED <<epEnabled, psize, reqs, aoStat, cur, dmaDone, channel,
                 streams, history>>
Reschedule ==
  /\ pc = "handled"
  /\ sched' = IF sched = WaitData /\ rxedSize > txedSize THEN ByUac2 ELSE sched
  /\ pc' = "room"
  /\ UNCHANGED <<epEnabled, psize, reqs, rxBufPtr, rxBufSize, playbackSize,
                 playbackPtr, rxedSize, txedSize, cur, dmaDone, channel,
                 streams, history>>

(* Room: queue the request again with a new buffer.  No room: drop the      *)
(* packet, queue the request again with the same buffer.                    *)
TakeOrDrop ==
  /\ pc = "room"
  /\ IF HasRoom
     THEN /\ reqs' = Append(reqs, rxBufPtr)
          /\ rxBufPtr' = PtrAfter(rxBufPtr, psize, rxBufSize)
          /\ UNCHANGED <<rxedSize, fill>>
     ELSE /\ reqs' = Append(reqs, cur)
          /\ rxedSize' = Sub32(rxedSize, psize)
          /\ fill' = fill - psize
          /\ UNCHANGED rxBufPtr
  /\ pc' = "idle"
  /\ UNCHANGED <<epEnabled, psize, rxBufSize, playbackSize, playbackPtr,
                 sched, txedSize, cur, dmaDone, channel, streams, slip>>

-----------------------------------------------------------------------------
IsoComplete == CheckSched \/ CallHandler \/ Reschedule \/ TakeOrDrop

Next ==
  \/ StopStream
  \/ \E m \in Psizes : SetAltClear(m)
  \/ SetAltSetup
  \/ PacketArrives
  \/ IsoComplete
  \/ DmaInterrupt
  \/ DmaComplete

Spec == Init /\ [][Next]_vars

(* The code runs to its end, a pending interrupt is taken, a transfer ends, *)
(* and the host sends a packet per frame while the stream is open.          *)
Fairness ==
  /\ WF_vars(SetAltSetup \/ IsoComplete)
  /\ WF_vars(PacketArrives)
  /\ WF_vars(DmaInterrupt)
  /\ WF_vars(DmaComplete)

FairSpec == Spec /\ Fairness

-----------------------------------------------------------------------------
Transfers == [on : BOOLEAN, from : 0 .. BufSize, len : 0 .. BufSize]
Pcs == {"idle", "init", "counted", "handler", "handled", "room"}

(* The type invariant: positions stay inside the ring, the requests inside  *)
(* the memory the code set aside.                                           *)
TypeOK ==
  /\ epEnabled \in BOOLEAN /\ tfrDone \in BOOLEAN /\ dmaDone \in BOOLEAN
  /\ stale \in BOOLEAN /\ slip \in BOOLEAN
  /\ psize \in Psizes
  /\ reqs \in Seq(0 .. BufSize) /\ Len(reqs) <= UsbXfers
  /\ cur \in 0 .. BufSize /\ rxBufPtr \in 0 .. BufSize
  /\ rxBufSize \in 0 .. BufSize /\ playbackSize \in 0 .. BufSize
  /\ playbackPtr \in 0 .. BufSize
  /\ sched \in SchedVals /\ pc \in Pcs
  /\ rxedSize \in 0 .. CounterMod - 1 /\ txedSize \in 0 .. CounterMod - 1
  /\ dma \in Transfers
  /\ streams \in 0 .. MaxStreams /\ fill \in Int

(* Wake-ups are not lost: while the scheduler relies on the interrupt, a    *)
(* transfer is in flight or its completion is still to be handled.  If this *)
(* failed nothing would ever start the channel again: neither the handler   *)
(* nor agdev_iso_complete acts in state IRQ_TRIG.                           *)
WakeupNotLost ==
  pc # "init" /\ sched = IrqTrig => dma.on \/ tfrDone

(* A transfer that plays this stream is never cut short by the start of the *)
(* next one: StartHalf finds the channel idle, unless what it plays was     *)
(* started for an earlier stream.                                           *)
NoHalfCutShort == [][dma.on /\ dma'.on => dma' = dma \/ stale]_vars

(* Between two packets the playback waits for data only when everything     *)
(* that was received and not dropped has been played.                       *)
WaitOnlyWhenDry ==
  pc = "idle" /\ sched = WaitData /\ ~slip => fill <= 0

(* The backlog: what was received and not yet played fits the ring, and     *)
(* playback runs ahead of the host by less than a half.                     *)
BacklogBounded ==
  pc = "idle" /\ epEnabled /\ ~slip => fill < rxBufSize /\ fill > -playbackSize

(* "Linux host plays one wav file, USB will transfer data to device and     *)
(* playback through I2Stx": a packet is dropped only when the ring is full  *)
(* of data that has not been played.                                        *)
DropOnlyWhenFull == pc = "room" /\ ~HasRoom => fill >= rxBufSize

(* The slots of the ring a request or a transfer occupies.                  *)
Slot(p) == p .. p + psize - 1

(* Two queued requests never share memory.                                  *)
RequestsDisjoint ==
  \A i, j \in DOMAIN reqs : i # j => Slot(reqs[i]) \cap Slot(reqs[j]) = {}

(* Where a queued request may lie relative to the backlog, which starts at  *)
(* txedSize: behind it in free memory, or on one packet at either end of    *)
(* it.  The overrun test does not count the requests already queued, so the *)
(* controller may write the first packet of the half that is being played;  *)
(* after a drop the requests change places and the last packet of the       *)
(* backlog is received twice.  It never reaches further into the backlog.   *)
RequestsStayOffBacklog ==
  pc = "idle" /\ ~slip => \A i \in DOMAIN reqs :
    LET off == (reqs[i] - txedSize) % rxBufSize
    IN off + psize <= psize * (UsbXfers - 1) \/ off >= fill - psize * (UsbXfers - 1)

(* The detailed playback implements PlayoutBuffer: a half is being played   *)
(* from the start of its transfer until the handler has counted it.         *)
Playout == INSTANCE PlayoutBuffer WITH
  Packets <- Psizes, CapacityOf <- RxBufSizeOf,
  open <- epEnabled, packet <- psize, backlog <- fill,
  playing <- (dma.on \/ tfrDone \/ dmaDone) /\ ~stale

(* ... as long as no transfer of an earlier stream has been counted as      *)
(* played by this one.                                                      *)
ImplementsPlayout ==
  Playout!Init /\ [][slip' \/ Playout!Next]_(Playout!playoutVars)

(* What the compile-time check of the buffer counts promises ("uac2 rx buf  *)
(* can not be larger than i2s tx buf"): the bytes waiting to be played are  *)
(* at most the I2S transmit buffers.                                        *)
RxWithinTxBuffers ==
  pc = "idle" => fill <= PlaybackSizeOf(psize) * I2sTxBufCnt

(* A stopped playback is taken up again while the host keeps sending.       *)
PlaybackResumes ==
  (epEnabled /\ sched # IrqTrig) ~>
    (sched = IrqTrig \/ ~epEnabled \/ rxedSize + psize > MaxBytes)
=============================================================================
