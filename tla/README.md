# Verification of kunlun_cdl

TLA+ models of the Kunlun chip driver library: the bare-metal drivers under
`src/cdl` of a dual-core HiFi4 audio SoC and the programs under `src/test` that
use them. There is no operating system. Concurrency is one main program,
interrupt handlers that preempt it, and the hardware: DMA channels, the USB
device controller, timers, and the peers on the buses.

Every definition is translated from the C source. `PROJECT.json` gives the
lines each one stands for (`map`), the runs, the mutants that show that each
property can fail, the hazards and the theorems.

## The system

| Component | State it keeps | Operations | Interacts with | What is hard | What makes it correct |
|---|---|---|---|---|---|
| USB audio playback (`usb/gadget/f_uac2.c`) | `ao_stat`: ring pointer, playback pointer, byte counters, scheduler state; `prm`: endpoint enabled, packet size, requests | set and clear an alternate setting, completion of a packet, DMA interrupt | endpoint queue (requests, callback), I2S and DMA (start of a half) | the USB context and the DMA interrupt share `ao_stat` without a lock; the transfer outlives the stream | no lost wake-up, backlog within the ring, every half played once |
| USB class requests (same file) | selected control, sample rates, volume | setup and data stage of a request | endpoint 0 | state kept between two stages that can be interrupted | a control is set only from data the host sent for it |
| USB endpoint queues (`usb/musb-new/musb_gadget.c`, `musb_core.c`) | per endpoint: request list, `busy`, `edma_busy`, `desc`; latched interrupt bits | queue, dequeue, enable, disable, transmit and receive interrupt, disconnect | function (callback), DMA channels 4 and 5, FIFO, host | callbacks re-enter the queue; interrupt bits latched before the endpoint is set up anew | requests complete in order, truthfully, and always |
| USB endpoint 0 (`musb_gadget_ep0.c`) | `ep0_state`, `ackpend`, `set_address`, one request | setup, data and status stages, halt | composite framework, host | the host may abort any stage | a request is completed with the outcome of its own data stage |
| USB composite framework (`composite.c`, `config.c`, `epautoconf.c`, ...) | configuration, interfaces | standard requests | function and driver | little: imported code | |
| DMA controller (`dma/cdl_dma.c`) | 8 channels, their set-up and status | select (with force-stop), configure, start, poll | every peripheral driver | channels are fixed numbers that drivers share; results are ignored | no transfer is stopped by another driver |
| I2S (`i2s/cdl_i2s.c`) | format, channel state, progress | transmit, receive, asynchronous transmit | DMA, playback | asynchronous use from an interrupt | |
| I2C (`i2c/cdl_i2c.c`) | controller set-up | read, write, slave, loop-back | devices, DMA channels 0 and 1 | timeouts, aborts, a reset that hits both controllers | an error is reported, a transfer does not disturb another one |
| SPI and SPI flash (`spi`, `spi_flash`) | transfer progress; flash geometry | transfer; probe, erase, read, write | flash chip | page and sector boundaries, busy chip, timeouts | what is written is read back |
| UART (`uart/cdl_uart.c`) | line set-up | read, write, non-blocking read | DMA channel 0 | timeouts | |
| System time (`test/timer/sys_timer.c`, `timer/cdl_timer.c`) | `tick_high`, the counter, its interrupt status | `get_ticks`, `get_timer`, delays | every timeout of the drivers | overflow of the counter in the middle of a reading; interrupt handlers read the time too | the time is exact, delays last and end |
| Watchdog, GPIO, PTC, LED, PLL, pins, codecs, VAD | registers of the devices | set-up | | little state of their own | |
| Runtime library, test programs, console | | | | | |

A packet's way through the system: the host sends an isochronous packet; the
controller raises a bit; `generic_interrupt` reads and clears the bits;
`musb_g_rx` waits for the DMA channel that moves the packet into the buffer of
the request at the head of the queue, gives the request back, and
`agdev_iso_complete` counts it, starts the I2S DMA if playback is waiting, takes
the next buffer from the ring and queues the request again. The I2S DMA
interrupt counts the half of the ring that was played and starts the next one.

## The modules

| Module | Models |
|---|---|
| `PlayoutBuffer` | What playback promises, without ring, counters or interrupts: a backlog of bounded capacity, played by halves, each taken exactly once |
| `Uac2Playback` | `f_uac2.c`: the ring, `agdev_iso_complete`, `dma_int_i2s_handler`, `afunc_set_alt`, `free_ep` |
| `MusbEndpoint` | `musb_gadget.c` and the endpoint part of `musb_core.c`: one isochronous endpoint, with the audio function as its user |
| `MusbConfig` | The FIFOs of the controller, the endpoints offered, the automatic choice of one for a descriptor; no state |
| `UsbControl` | Control transfers: `musb_gadget_ep0.c`, `composite.c`, the class requests, settings and rates of `f_uac2.c`; extends `MusbConfig` |
| `SysTimer` | `sys_timer.c`: the 64-bit time on top of a 32-bit counter |
| `Dmac` | A channel of the DMA controller as the SPI and I2C drivers use it: select with force-stop, set up, start, move, done; no state of its own |
| `FlashMemory` | What the flash calls promise: a NOR memory of sectors and pages |
| `SpiFlash` | The flash driver, the SPI driver under it, two DMA channels and the chip; shown to implement `FlashMemory` |
| `I2c` | The I2C driver as a master, its controller, a DMA channel and a device |
| `SysRegs` | The register words and fields of the `*_macro.h` files, and what reading and setting a field does |
| `SysCalls` | The functions of `cdl_sys.c` and `cdl_dac.c` as scripts of register accesses |
| `PortCalls` | The same for GPIO, timer, watchdog, PTC, UART and I2S |
| `SysControl` | The processor that runs these scripts, the interrupts that split them, and the reset lines, PLL, pins and codecs on the other side |
| `SeqFacts` | Facts about sequences used as FIFOs, and arguments by the least number, cited by three of the next |
| `*_proofs` | The theorems about `Uac2Playback`, `MusbEndpoint`, `UsbControl`, `SysTimer`, `SpiFlash`, `I2c` and `SysControl` |
| `MC*` | Instances for TLC |

`SysControl` extends `PortCalls`, that extends `SysCalls`, that extends
`SysRegs`; `SpiFlash` and `I2c` each extend `Dmac`. `UsbControl` and
`MusbEndpoint` meet at the alternate setting: what `SET_INTERFACE` decides in the
former is the action `Ep0` of the latter, and `SetAltClear` and `SetAltSetup` of
`Uac2Playback`. They are not composed in one specification: each keeps the
behaviours the others offer it (a setting at any time, a packet at any time) as
free choices, which allows more than a composition would.

Definitions named `X_Y` are definition `X` with a defect `Y` that an edit of the
code could introduce (a dropped test, an off-by-one). No action uses them; each
shows that some property notices.

### Uac2Playback

The variables are the fields of `ao_stat`, the queue of the endpoint reduced to
the buffers of its requests, and the I2S DMA channel. The USB context (main loop
or USB interrupt, the code does not care) is cut where the DMA interrupt can cut
it: `pc` tells where. `afunc_set_alt` is two steps (`SetAltClear`, the `memset`;
`SetAltSetup`, the rest); `agdev_iso_complete` is five (`PacketArrives`,
`CheckSched`, `CallHandler`, `Reschedule`, `TakeOrDrop`), and the interrupt
handler `DmaInterrupt` may run between any two. `Handler` is
`dma_int_i2s_handler`, shared by its two callers. Three accesses are not cut:
the two of `dma_i2s_tx_is_done`, and the three assignments after a half has been
started, since a half plays for hundreds of milliseconds at least.

`fill`, `stale` and `slip` are history variables: the bytes received, not
dropped and not yet played; whether the running transfer was started for an
earlier stream; whether such a transfer has been counted by the present one.
The properties hold as long as `slip` is false; that it can become true is the
finding of `uac2_restart`.

### MusbEndpoint

The handlers are operators from a state record to a state record (`TxState`,
`RxState`, `Giveback`, `Queue`, ...), so that they nest as the C functions do:
`Giveback` calls `Complete`, which calls `QueueBusy`, the part of
`musb_gadget_queue` that runs under `ep->busy`. The actions are the stages of the
interrupt handler (`ReadStatus`, `Stage0`, `Nuke`, `Ep0`, `EpIrq`, the end of the
DMA poll), the DMA channel and the host. `conf` selects one of the set-ups a
build can have: direction, PIO or DMA, length of the requests, and whether the
host sends short packets. Requests are of one packet because those of the audio
function are.

The channel fills the FIFO before an IN token can ask for the packet, and the
500 ms of `dma_polling_st` are over only when the channel has nothing left to
move; both are assumptions on time.

### SysTimer

`get_ticks` is cut at every access to the timer and to `tick_high`. Callers are
numbered by interrupt level; a level runs only while no higher one does.
`Levels = 1` is the main program alone, `Levels = 2` adds one interrupt handler
(`dma_int_i2s_handler` reads the time in `dma_ch_select`). Not modelled is a
second overflow before the first has been seen: the code relies on being called
once per period, as the comment at `sys_timer.c:14-16` says, and the guard of
`Tick` states it.

### UsbControl and MusbConfig

Three actors. The host runs one control transfer after another: it sends SETUP,
data and status packets, and may give up a data stage or reset the bus. The
controller is what these packets do to CSR0 and the FIFO (`SETUPEND`,
`SENTSTALL`, `RXPKTRDY`, `TXPKTRDY`). The interrupt handler is one action,
`Irq`: `musb_g_ep0_irq` with all it calls, since it runs for microseconds and
a packet takes longer. Inside it everything is an operator from a state to a
state (`ReadSetup`, `Forward`, `CompositeSetup`, `SetAlt`, `Giveback`, ...), which
nest as the C functions do.

| Variable | In the code |
|---|---|
| `csr`, `fifo`, `irq`, `faddr` | CSR0, the FIFO of endpoint 0, its bit in `INTRTX`, `FADDR` |
| `ep0` | `musb->ep0_state`, `ackpend`, `set_address`, `address` |
| `req` | `cdev->req` and its place in the endpoint's queue |
| `config`, `fn` | `cdev->config`; settings, rates, packet sizes, volume, mute and the data-stage selectors of `f_uac2.c` |
| `host`, `belief`, `count` | the host's transfer, what it thinks of the device, the bounds |

Data is the number in its first bytes; a descriptor is its length and first byte.

`RequestsAssumption` says what the host may ask: what has no data, the controls it
sets, in their size and with a rate the function offers, and what it reads, of a
range no more than there is. A request outside it (a rate not offered, say) is one
no host driver makes; the code stores it unchecked, see the last section of the
findings. `TablesAssumption` is arithmetic over the descriptor and FIFO tables,
which TLC evaluates.

`MusbConfig` computes, from the tables in the code, where each FIFO lies and which
endpoint each streaming interface gets; `PacketFits` compares the packet sizes a
rate leads to with the result.

### Dmac, SpiFlash and FlashMemory

A call of the flash driver (`flash_erase`, `flash_write`, `flash_read`, the
probe) is a script of exchanges repeated for every sector or page; an exchange is
a command phase and a data phase under one chip select; a phase is a series of
packets of at most `FifoSize` words, as `spi_xfer_packet` of the only caller cuts
them; a packet is words written, shifted and read, by the CPU's loop or by
channels 0 and 1. Actors beside the program are the wire (one word at a time),
the two channels, the chip, which may finish an erase or a program operation late
(at most `MaxSlow` times later than the driver waits), and time.

`FlashMemory` is a memory whose cells are one bit: an erase sets whole sectors, a
write clears bits, a read tells. `KeepsPromises` maps `chip.cells` to the memory;
`late`, the only history variable, holds the cells of calls that gave up: the chip
may still be at work there, and until then nothing is promised beyond that no
other cell changes. A protected sector is exempt from what a call does (`Reach`), since
the chip refuses what the driver asks of it; `EraseOk` states what the comments of the
driver say instead, and `spi_protected` shows that it does not hold. Sums of address
and length are taken modulo `AddrMod`, as in the code.

### SysRegs, SysCalls, PortCalls and SysControl

A register is the set of its bits that are 1, a field a position and a width. The
functions are not actions but data: each is a script, a sequence of accesses
(`read`, `write` back with a field changed, wait for a status, drive a pin). The
action `Access` runs one of them, a read-modify-write in two steps (`Read` and
`WriteBack`); a register write of a codec becomes a frame of 51 such accesses, one for
each level `soft_spi_write` puts out. `Interrupt` may put the script of a handler between any
two; `interrupted` holds what the processor was doing, with the word it had read and not
written back. Which handlers can interrupt which program is taken from the programs:

- with USB interrupts, the handler sets the codec's volume (`f_uac2.c:1370`),
  switches an endpoint and starts the I2S, once the soft-connect has been done
  (after the I2S master has been set up);
- in polling mode the main loop serves the USB, and only the I2S DMA interrupts;
- the GPIO handler comes only inside `gpio_int_type`;
- I2S handlers come while their channel is unmasked.

On the other side of the registers, `Settle` lets a reset's status line follow
its request, `Lock` is the lock of the PLL, and the two WM8766 codecs shift a bit
in on each edge of their clock pin and take a frame on the edge of their select.
`set` and `asked` are history variables: what was last put into each field, and
the volumes last asked for. A reset of a port does not clear its registers in the
model: each call writes anew what it relies on.

`ProgramAssumption` says what a program must be for the drivers to work, and TLC
evaluates it on the programs of the instance: the fields that the program and its
handlers set are the same or have no bit in common, values fit their fields, a
register that is written whole (`load`, `banked`) has no other fields; and a script that
needs a field to have a value (`Needs`: the latch bit that tells apart the two registers
at one address of a UART, the direction of a GPIO pin that is put out) has put it
there before, or finds it so between calls (`Prepared`). `CallersConsiderate` says what must
hold when they run together: a handler that interrupts an access between its read
and its write back leaves the fields of that register alone, or as the word has them;
it does not talk to a codec in the middle of a call that does; and no codec is
talked to before its init. Nothing in the drivers ensures that, so it is a
property of their callers, checked for the programs of the repository.

### I2c

The program is in a call at a place (`p.at`: set-up, writing commands, reading,
awaiting a byte, DMA, the final STOP). The controller has the command FIFO, the
receive FIFO, the abort state (after which it keeps the command FIFO empty until
the program clears `TX_ABRT`) and whether a transfer is open. The bus carries one command at
a time and the device may stretch the clock for as long as it likes, `MaxStalls`
times; a time-out of the driver may strike only when nothing moves, since a byte
takes microseconds and the timers milliseconds. `p.calm` records whether the
device has been there and let the clock go during the call.

### The proof modules

`SeqFacts` holds what the proofs need of FIFOs: that a sequence stays one when a
word comes in or goes out, and how its length changes; and that a property of 0
that passes from each number to the next holds up to any bound, by the least
counterexample; and which numbers have the same quotient, which is how a sector,
a page and a position in a FIFO are told apart. The other proof modules extend
the module they are about and hold nothing else.

## The runs

| Run | Shows | Bounds and why they are enough |
|---|---|---|
| `uac2_playback` | Nine properties of playback, among them that it implements `PlayoutBuffer` and that a waiting playback resumes | Ring of 16 bytes, alignment 2, packets of 2 and of 4: four or two packets per half, so the ring fills, wraps, drops and runs dry. Three streams: start, restart with the same and with another packet size. 80 bytes per stream: the ring is passed five times. |
| `uac2_restart` | Finding: a stale transfer counted by the new stream | as above |
| `uac2_wrap` | Finding: the byte counters wrap | `CounterMod` 64 stands for 2^32 |
| `musb_endpoint` | Six properties of the request queue | Two requests, as `USB_XFERS`; three settings selected, so that a setting follows a running one twice |
| `musb_disconnect` | Finding: the loop in `nuke` does not end | one setting |
| `sys_timer` | The time is exact with one caller, delays last and end | Counter of four ticks, three overflows, delays shorter and longer than the counter |
| `sys_timer_nested` | Finding: an interrupt that reads the time makes the interrupted reading jump ahead | as above |
| `usb_control` | Six properties of control transfers and their type invariant | Requests of the kinds the code serves, and some it refuses: enumeration, one streaming setting of each interface, halts, rates, volume, mute (the other settings, `GET_CONFIGURATION` and any number of transfers are left to the proofs). Five transfers, one of them given up or one bus reset: enough for a fault to leave something behind, a next request to be served with it and a later one to see it. |
| `spi_flash` | Calls keep the promises of `FlashMemory`, no word is lost, calls end | Two sectors of one page of four cells, FIFO and packets of two words, so that a call spans sectors, a page spans packets and a packet fills the FIFO; with or without a protected sector, three makes of chip; an address space of 64 cells, so that no sum wraps; eight calls, among them an unaligned write and refused ones, in any order and without limit; one slow chip operation |
| `spi_protected` | Finding: the erase of a protected sector returns 0 and does nothing | As `spi_flash`, with one erase and no slow chip operation |
| `sys_control` | The callers keep to what the drivers need, no field is lost, the codecs agree with the driver, volumes change in pairs, no wait hangs | Twelve programs: what `main.c`, the console commands and `usb_playback` call, all pads, all fields with a macro, all ports; up to three interrupts in each program that can be interrupted, from the states 0 and 1 of all untouched bits |
| `i2c` | What is reported good is the device's, calls end | Three registers, FIFO of three, DMA level 1; calls longer than a FIFO, with and without a register address, and to an absent device, in any order and without limit; two clock stretches |

TLC checks for deadlock in `spi_flash` and `i2c`, whose program can always make
another call. `CHECK_DEADLOCK` is off in the other runs: there the bounds stop the
models (streams, settings, transfers, time, the end of a program), and an idle
device with no host may stop.

What the properties of the passing runs say:

- `WakeupNotLost`, `WaitOnlyWhenDry`, `PlaybackResumes`: the scheduler of
  playback has three states and two contexts that change them; it never waits
  for an interrupt that cannot come, never waits with data left, and leaves the
  waiting state when data comes.
- `BacklogBounded`, `RequestsDisjoint`, `RequestsStayOffBacklog`: the overrun
  test compares counters and does not know which buffers are queued. It keeps
  the backlog below the ring, and queued requests disjoint; they may reach into
  the backlog by `USB_XFERS - 1` packets at either end and no further.
- `NoHalfCutShort`, `ImplementsPlayout`: no transfer is stopped by the next one,
  and every half is counted exactly once.
- `ArmedIsHead`: `edma_busy` implies a request at the head of the queue, and the
  DMA works on its buffer.
- `CompletedTrue`, `NoneLost`, `PacketStays`, `HeadMoves`: a request completes
  successfully only with what was moved, no packet is acknowledged unread or
  overwritten unsent, and every request completes. Short packets come only where
  the driver reads the FIFO by itself, see the findings.
- `OverflowsCounted`, `TicksTrue`, `DelayElapsed`, `DelayEnds`: every overflow is
  counted once, a reading was true at some moment of the call, and a delay lasts
  at least as long as asked and ends.
- `Agreement`, `ReadsAnswer`: between transfers the host and the device agree on
  address, configuration, settings, rates, volume and mute, as far as the host can
  know, and a read answers the request that was made, in full, whatever stage the
  transfer before it was cut in.
- `PacketFits`: over every order of settings and rates, the packets of a streaming
  endpoint fit its FIFO and its packet size register.
- `VolumeFromHost`, `RateFromHost`: the selectors left over by a request whose data
  stage failed never make data of another request a volume or a rate.
- `TransferEnds`, and `CallEnds` of `SpiFlash`, `SysControl` and `I2c`: every
  transfer is answered, stalled or given up, and every call returns.
- `NoOverrun`, `KeepsPromises`: the loops never have more words under way than the
  receive FIFO holds, and across packets, pages, sectors and time-outs the memory
  changes as promised: a call that returns 0 has done all of it outside the protected
  sectors, and those do not change. That a call returns 0 for a protected sector too is
  a finding.
- `CallersConsiderate`: no handler comes between a read and its write back with a
  change that the write back would undo, nor between the accesses of two codec frames.
- `FieldsIntact`, `CodecAgrees`, `VolumesTogether`: no read-modify-write of an
  interrupt is undone by the one it interrupted, no codec frame is torn, and both
  sides of a channel change at once.
- `TrueToDevice`: after refusals, clock stretches, aborts and resets, a call the
  device lets through returns 0 and its bytes are those of the registers it named.

### Fairness

The code runs to its end once entered (weak fairness of the steps of a handler);
a pending level-triggered interrupt is taken; a DMA transfer ends; the host of an
isochronous stream sends or fetches a packet in every frame while the stream is
open; the clock ticks. The interrupt of endpoint 0 is taken, and a host goes on
with a control transfer it has started (it may instead give it up). The program
goes on with its call; the SPI wire, the channels and the driver's timers go on;
a chip operation ends unless it is one of the slow ones. A reset line follows its
request and the PLL locks. The I2C program, bus and channel go on, the device
owes nothing: a call on a bus that is held ends by the driver's timers. Nothing is
assumed about when the host opens or closes a stream, selects a setting, starts a
transfer or disconnects, when the program makes a call, nor about who reads the
time.

## Findings

1. `uac2_restart`: `afunc_set_alt` clears `ao_stat` and leaves the I2S DMA
   running. Its completion is counted in the new stream (`f_uac2.c:383`), and the
   overrun test then admits half a ring too much.
2. `uac2_wrap`: `i2s_txed_size + i2s_playback_size * 2` (`f_uac2.c:323`) wraps
   near 4 GiB of a stream, after which every packet is dropped.
3. `musb_disconnect`: `stop_activity` empties the queue with `-ECONNRESET`, which
   `agdev_iso_complete` answers by queueing the request again, so the loop at
   `musb_gadget.c:134` does not end.
4. `sys_timer_nested`: `get_ticks` is not reentrant and interrupt handlers call it.
5. `spi_protected`: the probe is to "unportect blocks" (`cdl_spi_flash.c:575`), but
   `sf_blk_unprotect` writes the status back as it was (line 409). The erase or the
   write of a protected sector is refused by the chip; `sf_chk_st` sees a chip that is
   ready, and the call returns 0 ("erase ok", line 590) with nothing done.

More observations have no run. In DMA mode `musb_g_rx` adds the full length of the
request for a short packet and ignores the outcome of the poll
(`musb_gadget.c:500-501`), although `actual` "may be less than the requested length"
(`gadget.h:58-59`): with the set-up `Out(TRUE, TRUE)` added to `MCConfigs`,
`CompletedTrue` fails. `CompletedTrue` and `NoneLost` except the settings that were selected with an interrupt of the previous setting pending
(`monitor.stale`): the handler takes the old bit for a packet of the new
endpoint, and waits in the interrupt for the next packet from then on. The DMA is
not stopped when an endpoint is disabled, in spite of the comment at
`musb_gadget.c:768`. Others, met while modelling:

- a sample rate is stored before it is validated, and the refusal is ignored
  (`f_uac2.c:1879`); a volume set while muted unmutes; a mute request given up by the
  host stores a byte it has not sent, since its size is not checked (`f_uac2.c:1892`);
- the OUT endpoint is kept in `ep_in`, as its FIFO is shared (`musb_gadget.c:1133`), and
  endpoint 0 looks for it in `ep_out` (`musb_gadget_ep0.c:92`, `:247`, `:410`): its
  status and halt requests are always stalled;
- `sf_erase_sec` adds address and length in 32 bits (`cdl_spi_flash.c:605`), so that an
  erase whose sum wraps passes the test of the capacity;
- a flash write that does not start at a page wraps inside it
  (`cdl_spi_flash.c:722`), which is why `FlashMemory` promises data only for
  aligned writes;
- an I2C write the device refused returns 0 (`cdl_i2c.c:354`), and a STOP that is
  not seen in time resets both ports and leaves the DMA requests off
  (`cdl_i2c.c:434`): `TrueToDevice` holds in DMA mode only until then;
- `i2s_xfer_tx` with two channels never ends (`cdl_i2s.c:1113`);
- the watchdog's load value overflows for long times (`cdl_wdog.c:427`), the
  UART's receive threshold is set by writing back what its interrupt
  identification reads as (`cdl_uart.c:595`), and the chip select of the SPI is
  made an output before its level is set.

## What is proved

Every theorem holds for all values of the constants that the stated assumptions
allow; the runs show the same formulas on a small instance.

### Uac2Playback

`Uac2Playback_proofs` proves, for every set of packet sizes, ring size, alignment
and number of requests allowed by `SizesAssumption`:

- `TypeCorrect`, `WakeupsKept`, `WaitsOnlyDry`, `BacklogStaysBounded`: four of the
  invariants TLC checks;
- `HalvesPlayToTheEnd`: the action property `NoHalfCutShort`;
- `PlayoutImplemented`: the refinement of `PlayoutBuffer`;
- `QueueOrdered`, and from it `RequestsApart` and `OffTheBacklog`: the queue of
  requests is in order (`QueueInv`), so that `RequestsDisjoint` and
  `RequestsStayOffBacklog` hold.

All assume `NoWrap`, that the stream is too short for the 32-bit counters to
wrap; `uac2_wrap` shows that the assumption is needed. `PlayoutImplemented` also
assumes `EvenRings`: a ring is two equal halves, true whenever `USB_XFERS` is
even, as it is in the code.

The argument is the inductive invariant `IInv`, five named parts:

- `TypeOK`;
- `Geometry`: the ring and its half belong to the packet size of the stream
  (except between the two steps of `afunc_set_alt`);
- `RequestsInv`: while a packet is being completed one request is missing from
  the queue, so there is room for it;
- `ChannelInv`: who may have started the transfer in flight, and where its
  completion is pending, for each state of the scheduler and each `pc`;
- `CounterInv`: while no stale transfer has been counted, `fill` is the
  difference of the byte counters, bounded by the ring plus the packet that is
  being completed; and a playback that waits has nothing left once the completion
  has made its reschedule test.

`TypeOK` and the properties are not inductive by themselves: that the handler may
not be entered twice for one transfer needs `ChannelInv`, and the bound of the
backlog needs the relation between `fill` and the counters. `Invariance` proves
`IInv` with one lemma per action; the properties follow from it. The refinement
maps `dma.on \/ tfrDone \/ dmaDone` (and not `stale`) to `playing`: a half is being
played until the handler has counted it.

The queue needs an invariant of its own, `QueueInv`, on top of `IInv`. The overrun
test never looks at the buffers, so why does it not hand one out that is still
queued? Positions are counted in packets. `Behind` says how many packets `d` before
the next buffer one was handed out, and `Old` bounds `d` for the i-th buffer from
now: a buffer gets older by a packet whenever another packet is taken, and is put
at the end of the queue again only by a drop. It can be dropped into repeatedly, but
only while the ring is full (`Room <= 0`), when no buffer gets older. Then a half is
played, which makes room for at least one whole round of requests: every buffer is
taken the next time, before it is `2 * USB_XFERS` packets old. `DropQueue` and
`TakeQueue` prove that for the two outcomes of the overrun test, `Steady` for the
steps that count a half. `OffTheBacklog` adds that bytes received and bytes played
are whole packets and whole halves, and finds the request modulo the ring
(`OffBacklog`). Further assumptions, all true of the code:

- `AlignedPackets`: packet sizes are multiples of the alignment, 16 bytes. The
  offered rates (12 to 64 kHz, `f_uac2.c:196`) and sample formats give 48 to 256
  bytes, all of them multiples of 16;
- `TwoRounds`: two rounds of requests fit the ring, where 1536 do. In a ring of one
  round of three a drop leads to a buffer that is queued twice;
- `WholeHalves`, for `OffTheBacklog` only: a half is whole packets, as `USB_XFERS` is
  even. With three requests the property fails.

### MusbEndpoint

`MusbEndpoint_proofs` proves, for every number of requests, every set of set-ups
and any number of settings:

- `TypeCorrect`, `ArmedForHead`, `PacketsStay`, and
  `NoneForgotten`, which no run checks: while the function is on each of its
  requests is in the queue, and while it is off the queue is empty;
- `CompletionsTrue` and `NoPacketLost`, which assume `OnePacket`: where the DMA
  reads, a request is one packet long and the host sends no short ones.
  With short packets by DMA the first fails, see the findings.

The invariant has four parts. `Control` says where the interrupt handler can be.
`Ok` is about the queue: no request twice, `edma_busy` only with a request at the
head and the channel set up for it, no request that counts more than its length.
`Switched` is the theorem `NoneForgotten`: without it, after a setting, the handler
could find the queue short of a request. `Books` relates what
each queued request counts to what was moved for it, and the interrupt bits to the
packets in the FIFO; it is what the last two theorems need and does not follow from
them, since they say nothing of a request that is still queued.

`afunc_set_alt` and `free_ep` queue and dequeue the requests in a loop, a function over the
numbers of the requests. What a loop keeps is proved with `Induct` of `SeqFacts`:
of the numbers for which it fails there is a least one, and the step before it
contradicts that.

### UsbControl

`UsbControl_proofs` proves, for every set of requests that fulfils
`RequestsAssumption` and any number of transfers, given-up data stages and bus
resets:

- `TypeCorrect`, `AgreementHolds`, `ReadsHold`, `PacketsFit`: the four invariants
  TLC checks;
- `VolumeHolds`, `RateHolds`: the action properties `VolumeFromHost` and
  `RateFromHost`.

None of them is inductive: each speaks of a moment (between transfers, in the
status stage) and the handler's work lies before it. The invariant `IInv` says
where a transfer is at any time, seven phases named after it: there is none
(`Idle`), its SETUP packet is in the FIFO over whatever was left there (`Asked`),
it is refused (`Stalled`), carried out and waiting for the status stage (`Done`), a
full packet of the answer that is not the last is in the FIFO or was taken
(`Sending`), the last one is (`LastSent`), or it waits for a value or has it in
the FIFO (`Receiving`). Each says what CSR0, `ep0_state`, the request and the
interrupt bit are then, and that the device is what the host believes (`Match`):
what it will believe once the transfer is over, in `Done` and `Stalled`. `FnOk`
keeps the settings, the rates and the packet sizes consistent, over every order in
which they can be selected. `ReqOk` is the part that took longest to find: a
request left in the queue by an aborted data stage is given back with status 0 by
the next SETUP packet or status stage, through the completion callback of the
control it was for; it does no harm because the single packet of such a request
never moved, so `actual` is 0 and the callbacks refuse the size, or because it is
an answer, whose callback does nothing. Mute is the exception: the code does not
check its size, so a leftover stores the byte in the buffer. `MuteInDoubt` says when
that can still happen (`Pending`), and that the host then knows nothing of mute: it has
given up the transfer that set it. Otherwise mute is part of `Match`, like the volume.

The proof follows the calls: one lemma per function of the handler (`Setup`,
`SetAlt`, `Giveback`, `TxState`, ...), one per request that it ends in a phase
(`...Outcome`), one per phase for the handler (`...Irq`), and one per action of the
host. `Allowed`, carried along the same path, is what the handler may do to the
rates and the volume.

### SysTimer

`SysTimer_proofs` proves `TypeCorrect`, `EveryOverflowCounted`, `TimeTrue` and
`DelaysElapse` for every period of the counter, delay and length of the run. They
assume `OneCaller` (`Levels = 1`); `sys_timer_nested` shows that it is needed. The
invariant relates `tick_high` to the number of times the counter has reached zero
(`HighInv`, `LastInv`: outside the handling of an overflow they differ by one
exactly while the raw status is set, inside it until the store), and what
`get_ticks` has read at each place to the time (`ReadInv`); `DelayInv` says that a delay's end was
computed from a true reading. `TicksTrue` alone is not inductive: it speaks of the
return only, and says nothing of the two halves of the time before they are put
together. The tick on which the counter stands at zero with the overflow already
flagged is the case that needs care.

### SpiFlash

`SpiFlash_proofs` proves `NoWordLost` (`NoOverrun`) and `TypeCorrect` for every
geometry, depth of the FIFOs and set of calls. Assumptions: calls are inside the
chip (`CallsWithin`), and a packet fits the 22 bits of a channel's block size
(`BlocksFit`). The words of a packet are counted four times: written, in the
transmit FIFO, in the receive FIFO, read. `CpuInv` says that written words are in a
FIFO or read, so that together they are at most `len <= FifoSize`; `DmaInv` says the
same with what the channels have left; `Quiet`, that a packet leaves nothing behind
when it ends, which is what lets the next one start counting at zero. `NoOverrun`
alone says nothing of the words still in the transmit FIFO.

`Refinement` proves `KeepsPromises`, that `SpiFlash` implements `FlashMemory`, for
every content of the chip, by CPU and by DMA, under `CallsFit`: the two assumptions
above; reads and writes are of a cell at least and inside the chip (`CallsInside`:
`sf_read` and `sf_write` check neither, and with a length of 0 `sf_write` does nothing
and `sf_read` sends a command without data, which the scripts do not model); the address
and the length of an erase add up to less than `AddrMod`, 2^32 in the code, since a sum
that wraps passes the test of `sf_erase_sec`; and a page lies in a sector (`PagesFit`).
The calls `sf_erase_sec` refuses are included. Of protected sectors the theorem says
that they keep their cells, not that a call tells so, which it does not
(`spi_protected`). The invariant, `FlashInv`, follows a call from the wire to the cells:

- `WireInv`: the chip has received the first words of the exchange, in their order,
  and the transmit FIFO holds the next. It is what survives the cut into packets,
  and the reason why the command that the end of chip select starts (`CommandDoes`)
  is the one of the script.
- `AnswerInv`: the answers in the driver's buffer and in the receive FIFO number what the
  chip has received of the data phase, and each is true when it was given and still: a
  status that says ready was read from a chip that is ready now, because nothing starts
  before the end of chip select; the words of a read are the cells as they are.
- `ChipInv`: what the operation in the chip will change, a call in progress or one that
  gave up has asked for. A program operation wraps around in its page, the page is
  in one sector (`SectorOfPage`), and the chip has refused a protected one.
- `CleanInv`, as long as no call gave up (`late` is empty): a busy chip is waited for
  (`BusyInv`), only a call that may change cells can time out (`ElapsedInv`, because the
  probe's status write is never slow), and the cells behind the position are done
  (`DoneInv`): the operation of the position does them (`DoneNow`), later ones keep them
  (`DoneStays`), and those the chip refused are protected (`ProtectedDone`).

`KeepsPromises` alone is not inductive: it speaks of the return, when the cells were
written an exchange or more ago. The steps are then matched one by one: a call begins, an
answer of a read fills the buffer, the end of an operation changes cells, the end of
the last exchange returns or gives up; every other step is a stutter (`StepRefines`).

### I2c

`I2c_proofs` proves `NothingLeftBehind` (`TypeOK`) for every depth of the FIFOs and
every set of calls that move a byte at least (`CallsProper`). `ReadsInv` follows
the read commands: at most one is queued, and none while a byte waits, hence no
byte can be left for a later call once the byte of the last command is taken;
`RestInv` follows the bus between calls: idle with nothing queued, or being
aborted, after which the controller takes nothing.

`CallsAreTrue` proves `TrueToDevice` under three assumptions. `CallsProper` as above.
`DeviceCalls`: a register address is a number, and a write is not longer than the
device has registers, so that it visits none twice. `ModeFits`: in DMA mode, the
bytes of a write but the last are 1 to 2^22, because the channel has 22 bits for
its block and the driver starts it with a length of 0 too, which the channel takes
for the longest block (`cdl_i2c.c:659`). The calls with one byte in the repository
(LED driver, AC108) are made in CPU mode; they are covered by the theorem, and are not
in the TLC instance.

The property speaks of the return; `PromiseInv` says what holds on the way there, of
a call whose device is there and lets the clock go. It counts the commands of the
call twice: those given to the controller (`Given`) and those it has sent (`Sent`).
`CtlGood`: the transmit FIFO holds the commands between the two, nothing was
refused, and the bus is open exactly while some but not all commands are sent.
`DmaGood`: the channel has left what was not given yet. `DevGood`: the device stands
at the register of the next byte, what was sent is in its registers, and what they
hold has been read or waits in the receive FIFO. No timer can expire in such a call
(`NeverLate`, `NeverBusy`), which is why it returns 0.

### SysControl

`SysControl_proofs` proves, for every word, position and width, that setting a field
reads back, keeps disjoint fields and commutes with setting them; and that the
clock-divider macros, which do not mask their value, are safe as long as it fits.
On these rest four theorems about the processor, for all programs and handlers that
`ProgramAssumption` admits and any number of interrupts:

- `TypesHold`: `TypeOK`, for which `TypeInv` follows what a script can consist of (`Ops`)
  and what a driver of a codec can compute from its cache;
- `FieldsStayIntact`: `FieldsIntact`, for every behaviour in which the callers are
  considerate (`[]CallersConsiderate`). Without that it is false: a handler that sets a
  field of the register whose word is held loses it;
- `CodecsAgree` and `VolumesStayTogether`: `CodecAgrees` and `VolumesTogether`, for the
  same behaviours: a handler that talks to a codec between the accesses of a frame of
  the interrupted call tears it, and a volume that is set before the init was, for the
  history variable `asked`, asked by nobody.

`FieldsIntact` speaks of the registers, and the hazards lie in what the processor holds.
The invariant `FieldInv` adds:

- `FreshWord`: a word that was read and not yet written back still agrees with every
  field that was set in its register, but those the access is about to put. It holds for
  the running script and for the interrupted one. A handler's stores keep it for the
  interrupted word because of `WordsKept`; nothing else would.
- `Prepped`: what the rest of a script needs (`Needs`) is put by an earlier access of the
  rest or holds now (`HoldNow`), so that a banked register is reached under the right
  address and a pin that is put out is an output. It holds for the script that was
  interrupted too, because handlers neither need nor put such a field (`Harmless`).
- `Driven`: a pin whose level was put out is an output, hence reads as that level when
  the register is read for the next change (`Sampled`).

`Stores` says what a store must be to keep the fields: what it puts is in the new word, and
the new word has the other fields as they are; each kind of access is shown to be one.

`CodecAgrees` speaks of the moments between calls only. In between, the codec, the
driver's cache, the pads, the rest of the script and the volumes that were asked have to
fit together; `Speaking` says how:

- `Framing`: a codec in the middle of a frame has shifted in exactly the bits that were
  clocked (`InFrame`: with the levels of select, clock and data for the next access), and
  one that is not in a frame none. Its lemmas follow the 51 accesses; `Decoded` shows
  that the sixteen bits are read as the address and the data that were sent.
- `TameOuts`, `WordOfPads`: the other accesses to the pads neither clock nor select a
  codec, and the word that is held for a pad is the register of the pads.
- `Told`, of a codec after its init: every register agrees with the cache or is still to
  be written, the volumes are those that were asked or are still to be written, and what
  the codec holds back is one pair (`HeldTogether`), but in the one moment when the left
  side is written and the right one is next. What is still to be written keeps to three rules: the
  left side goes without its update bit and the right side follows at once with it
  (`LeftRule`, `RightRule`), and a reset is followed by every register (`ResetRule`).
  `CallInstructs` shows that the script of each of the ten calls keeps to them.
- `Untold`, of a codec before its init: it holds nothing back that was not its own.

`CodecInv` says of which script `Speaking` holds: the running one, or, when a handler that
does not talk to the codecs has interrupted one, the interrupted one. A script that does
not talk leaves the codecs as they are between calls (`HandOver`), so the two change places
at the interrupt, at the return, and where the last write of a handler is done.

### Model-checked only

- Liveness (`PlaybackResumes`, `HeadMoves`, `DelayEnds`, `TransferEnds`,
  `CallEnds`) and whatever rests on `ENABLED`: out of the prover's reach.
- `CallersConsiderate`: it is about the programs, which are the instance.

## What is not modelled

| Part | Why |
|---|---|
| LED and PLL drivers | writes of whole registers nothing else reads |
| Codec AC108, start of the voice detection | a fixed list of writes |
| Runtime library, interrupt registration | imported code, thin wrappers |
| Test programs, console | the callers of the models, not their subject |
| Descriptors' contents, string tables, registration at start-up | read-only data; lengths only in `UsbControl` |
| Test modes, remote wake-up, wedge, FIFO flush | no caller in the repository |
| Store-and-replay and CPU modes of playback | test aids |
| Blocking loops of I2S, character loops of UART | the processor waits for one FIFO; no second actor changes what they test |
| Time-outs of the SPI's receive loop (`cdl_spi.c:831`) and of the poll of its channels (`cdl_spi.c:1006-1007`) | the master clocks its own bus, so what they wait for comes in microseconds; `CallEnds` of `SpiFlash` rests on the wire and the channels going on, not on these. The time-out of the DMA poll is modelled in `I2c`, where a device can hold the bus |
| I2C slave and loop-back, SPI slave and interrupt mode | board tests only |
| Linked lists and interrupts of DMA channels 0 to 3 | no caller in the repository |

Logging and statistics counters are left out everywhere.

## Plan

What is left, in the order it would add most:

1. The composition of `UsbControl` with `MusbEndpoint`: a setting selected by a
   control transfer while packets of the old one are in the FIFO, to replace the
   exclusion of `monitor.stale` by its consequences at the host.
2. The memory the requests own, so that a channel left running by `stop_activity`
   is seen to write into it.
3. The second data path of the I2S driver: blocking transfers by the handlers of
   `PortCalls`, with the buffers.
4. I2C as a slave, against a master on the bus.
