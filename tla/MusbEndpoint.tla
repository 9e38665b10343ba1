----------------------------- MODULE MusbEndpoint ----------------------------
(***************************************************************************)
(* One isochronous endpoint of the USB device controller driver, with the  *)
(* request queue of cdl/usb/musb-new/musb_gadget.c and the audio function  *)
(* of cdl/usb/gadget/f_uac2.c as its user.                                 *)
(*                                                                         *)
(* Actors: the interrupt handler (generic_interrupt and musb_interrupt,    *)
(* with everything they call), the controller's FIFO, the DMA channel, and *)
(* the host.  The handler is cut where the hardware can get in between:    *)
(* after the interrupt status has been read and cleared (`latched` is      *)
(* musb->int_rx or int_tx), between the stages it runs through, between    *)
(* two requests nuke gives back, and while it polls the DMA channel.       *)
(*                                                                         *)
(* Sizes are in half packets: packet_sz is PacketSz = 2, a short packet    *)
(* has 1.                                                                  *)
(***************************************************************************)
EXTENDS Integers, Sequences

CONSTANTS
  UsbXfers,   (* requests the function queues                              *)
  Configs,    (* endpoint set-ups, one per behaviour                       *)
  MaxSets     (* bound of the model: settings the host selects             *)

PacketSz == 2
Reqs == 1 .. UsbXfers

ASSUME MusbAssumption ==
  /\ UsbXfers \in Nat \ {0} /\ MaxSets \in Nat
  /\ Configs \subseteq [isIn : BOOLEAN, edma : BOOLEAN,
                         length : 1 .. PacketSz, short : BOOLEAN]

VARIABLES
  conf,      (* the set-up: direction, edma_mode, length of the requests,  *)
             (* and whether the host sends short packets                   *)
  pc,        (* where the interrupt handler is                             *)
  irq,       (* the endpoint's bit in the controller's interrupt status    *)
  latched,   (* the bit musb_interrupt works on                            *)
  ep,        (* the endpoint, its requests and the function's state        *)
  fifo,      (* the controller's FIFO                                      *)
  dma,       (* the DMA channel                                            *)
  sets       (* settings selected, for the bound                           *)

\* History, for the properties only.
VARIABLES
  moved,     (* half packets really moved for a request since it was queued *)
  monitor    (* what went wrong or might have                               *)

vars == <<conf, pc, irq, latched, ep, fifo, dma, sets, moved, monitor>>

(* ep: desc (enabled), busy, edmaBusy, list (req_list), actual and status   *)
(* of every request, on (the function's ep_enabled).                        *)
(* fifo: ready (TXPKTRDY or RXPKTRDY), size, from (the request whose buffer *)
(* the packet came from or has been moved to, 0 for none yet), overrun.     *)
(* dma: req (the request whose buffer it is programmed with, 0 if DMAENAB   *)
(* is off), done (TFR_DONE).                                                *)
(* Handlers are operators from a state to a state, so that calls nest as    *)
(* they do in the code.                                                     *)
State == [ep |-> ep, fifo |-> fifo, dma |-> dma, moved |-> moved, mon |-> monitor]

Become(s) ==
  /\ ep' = s.ep /\ fifo' = s.fifo /\ dma' = s.dma
  /\ moved' = s.moved /\ monitor' = s.mon

InProgress == "-EINPROGRESS"
NoDma == [req |-> 0, done |-> FALSE]
EmptyFifo == [ready |-> FALSE, size |-> 0, from |-> 0, overrun |-> FALSE]

Least(a, b) == IF a < b THEN a ELSE b

-----------------------------------------------------------------------------
(* Starting a transfer for the head of the queue.                           *)

(* txstate: hand the next packet of request r to the controller.  The DMA   *)
(* fills the FIFO faster than the host can ask for the packet.              *)
TxLoad(s, r) ==
  LET count == IF conf.edma THEN conf.length
               ELSE Least(PacketSz, conf.length - s.ep.actual[r])
      t == [s EXCEPT !.fifo = [@ EXCEPT !.ready = TRUE, !.size = count, !.from = r],
                     !.moved[r] = @ + count]
  IN IF conf.edma
     THEN [t EXCEPT !.ep.edmaBusy = TRUE, !.dma = [req |-> r, done |-> TRUE]]
     ELSE [t EXCEPT !.ep.actual[r] = @ + count]

(* ... unless the old packet is still there or the DMA is busy.             *)
TxState_NoReadyCheck(s, r) == IF s.ep.edmaBusy THEN s ELSE TxLoad(s, r)
TxState(s, r) == IF s.fifo.ready \/ s.ep.edmaBusy THEN s ELSE TxLoad(s, r)

(* rxstate up to the completion: arm the DMA, or read the packet there is.  *)
RxRead(s, r) ==
  IF conf.edma
  THEN IF s.ep.edmaBusy THEN s
       ELSE [s EXCEPT !.ep.edmaBusy = TRUE, !.dma = [req |-> r, done |-> FALSE]]
  ELSE IF s.fifo.ready /\ s.ep.actual[r] < conf.length
  THEN [s EXCEPT !.ep.actual[r] = @ + s.fifo.size,
                 !.fifo = [@ EXCEPT !.ready = FALSE],
                 !.moved[r] = @ + s.fifo.size]
  ELSE s

(* rxstate, PIO: the end of the request, or a short packet.                 *)
RxEnds(s, r) ==
  /\ ~conf.edma
  /\ \/ RxRead(s, r).ep.actual[r] = conf.length
     \/ s.fifo.ready /\ s.ep.actual[r] < conf.length /\ s.fifo.size < PacketSz

-----------------------------------------------------------------------------
(* Queueing and giving back.                                                *)

(* list_del of a request that is listed.                                    *)
Listed(list, r) == \E i \in DOMAIN list : list[i] = r
Remove(list, r) ==
  LET at == CHOOSE i \in DOMAIN list : list[i] = r
  IN [i \in 1 .. Len(list) - 1 |-> list[IF i < at THEN i ELSE i + 1]]

(* musb_gadget_queue under ep->busy, as in a completion callback: the       *)
(* request joins the list and nothing is started.                           *)
QueueBusy_KeepActual(s, r) ==
  IF ~s.ep.desc THEN [s EXCEPT !.ep.status[r] = InProgress]
  ELSE [s EXCEPT !.ep.status[r] = InProgress, !.ep.list = Append(@, r),
                 !.moved[r] = 0]
QueueBusy_AtFront(s, r) ==
  LET t == [s EXCEPT !.ep.actual[r] = 0, !.ep.status[r] = InProgress]
  IN IF ~s.ep.desc THEN t
     ELSE [t EXCEPT !.ep.list = <<r>> \o @, !.moved[r] = 0]
QueueBusy(s, r) ==
  LET t == [s EXCEPT !.ep.actual[r] = 0, !.ep.status[r] = InProgress]
  IN IF ~s.ep.desc THEN t
     ELSE [t EXCEPT !.ep.list = Append(@, r), !.moved[r] = 0]

(* agdev_iso_complete: return when the function or the endpoint is shutting *)
(* down, queue the request again otherwise.                                 *)
Complete(s, r) ==
  IF ~s.ep.on \/ s.ep.status[r] = "-ESHUTDOWN" THEN s ELSE QueueBusy(s, r)

(* musb_g_giveback: ep->busy is set around the callback and put back after. *)
(* The monitor notes a success that does not tell what was moved, or that   *)
(* comes while the packet is still in the FIFO.                             *)
Untrue(s, r, status) ==
  /\ status = "0"
  /\ \/ s.ep.actual[r] # s.moved[r]
     \/ conf.isIn /\ s.fifo.ready /\ s.fifo.from = r
Giveback_KeepListed(s, r, status) ==
  LET t == [s EXCEPT !.ep.status[r] = IF @ = InProgress THEN status ELSE @,
                     !.ep.edmaBusy = FALSE,
                     !.mon.lie = @ \/ Untrue(s, r, status)]
  IN Complete(t, r)
Giveback_KeepDmaBusy(s, r, status) ==
  LET t == [s EXCEPT !.ep.list = Remove(@, r),
                     !.ep.status[r] = IF @ = InProgress THEN status ELSE @,
                     !.mon.lie = @ \/ Untrue(s, r, status)]
  IN Complete(t, r)
Giveback(s, r, status) ==
  LET t == [s EXCEPT !.ep.list = Remove(@, r),
                     !.ep.status[r] = IF @ = InProgress THEN status ELSE @,
                     !.ep.edmaBusy = FALSE,
                     !.mon.lie = @ \/ Untrue(s, r, status)]
  IN Complete(t, r)

RxState(s, r) == IF RxEnds(s, r) THEN Giveback(RxRead(s, r), r, "0") ELSE RxRead(s, r)

(* musb_gadget_queue outside a callback: the head of an idle queue starts.  *)
Queue(s, r) ==
  LET t == QueueBusy(s, r)
  IN IF t.ep.desc /\ ~t.ep.busy /\ Head(t.ep.list) = r
     THEN IF conf.isIn THEN TxState(t, r) ELSE RxState(t, r)
     ELSE t

-----------------------------------------------------------------------------
(* The two interrupt handlers of the endpoint, with a request at the head.  *)

StartHead(s) ==
  IF s.ep.list = <<>> THEN s
  ELSE IF conf.isIn THEN TxState(s, Head(s.ep.list)) ELSE RxState(s, Head(s.ep.list))

(* musb_g_tx: a finished request is given back, then the head goes on.      *)
GTx_KeepFinished(s) == StartHead(s)
GTx(s) ==
  IF s.ep.list = <<>> THEN s
  ELSE LET r == Head(s.ep.list)
           t == IF s.ep.edmaBusy THEN [s EXCEPT !.ep.actual[r] = @ + conf.length]
                ELSE s
       IN StartHead(IF t.ep.actual[r] = conf.length THEN Giveback(t, r, "0") ELSE t)

(* musb_g_rx up to the DMA poll: note an overrun of the FIFO.               *)
GRxBegin(s) ==
  LET r == Head(s.ep.list) IN
  IF s.ep.list = <<>> \/ ~s.fifo.overrun THEN s
  ELSE [s EXCEPT !.fifo.overrun = FALSE,
                 !.ep.status[r] = IF @ = InProgress THEN "-EOVERFLOW" ELSE @]

(* musb_g_rx after the poll: the packet is acknowledged, the request given  *)
(* back whatever the poll said, and the next one started.                   *)
GRxDma_NoAck(s) ==
  LET r == Head(s.ep.list)
      t == [s EXCEPT !.ep.actual[r] = @ + conf.length,
                     !.dma.done = FALSE]
  IN StartHead(Giveback(t, r, "0"))
GRxDma(s) ==
  LET r == Head(s.ep.list)
      t == [s EXCEPT !.ep.actual[r] = @ + conf.length,
                     !.fifo.ready = FALSE,
                     !.mon.lost = @ \/ (s.fifo.ready /\ s.fifo.from = 0),
                     !.dma.done = FALSE]
  IN StartHead(Giveback(t, r, "0"))

-----------------------------------------------------------------------------
(* The audio function.                                                      *)

(* usb_ep_dequeue: a queued request is given back, and the DMA that may be  *)
(* filling its buffer goes on.                                              *)
Dequeue(s, r) ==
  IF Listed(s.ep.list, r) THEN Giveback(s, r, "-ECONNRESET") ELSE s

(* free_ep: dequeue every request, then disable the endpoint; nuke finds    *)
(* the queue empty and leaves ep->busy set.  The DMA is not stopped.        *)
FreeEp(s) ==
  IF ~s.ep.on THEN s
  ELSE LET done[r \in 0 .. UsbXfers] ==
             IF r = 0 THEN [s EXCEPT !.ep.on = FALSE] ELSE Dequeue(done[r - 1], r)
       IN [done[UsbXfers] EXCEPT !.ep.desc = FALSE, !.ep.busy = TRUE]

(* musb_gadget_enable: FIFO flushed, DMAENAB and the rest of the endpoint's *)
(* control register cleared; a pending interrupt bit stays.                 *)
Enable_KeepBusy(s) ==
  [s EXCEPT !.ep.desc = TRUE, !.fifo = EmptyFifo, !.dma = NoDma]
Enable(s) ==
  [s EXCEPT !.ep.desc = TRUE, !.ep.busy = FALSE,
            !.fifo = EmptyFifo, !.dma = NoDma]

(* afunc_set_alt, alt > 0: free_ep, enable, queue the requests in order.    *)
(* The monitor starts again, and notes an interrupt of what was there       *)
(* before.                                                                  *)
SetAlt(s) ==
  LET t == [Enable(FreeEp(s)) EXCEPT
              !.ep.on = TRUE,
              !.mon = [lie |-> FALSE, lost |-> FALSE, stale |-> latched \/ irq]]
      queued[r \in 0 .. UsbXfers] ==
        IF r = 0 THEN t ELSE Queue(queued[r - 1], r)
  IN queued[UsbXfers]

-----------------------------------------------------------------------------
Init ==
  /\ conf \in Configs
  /\ pc = "idle" /\ irq = FALSE /\ latched = FALSE
  /\ ep = [desc |-> FALSE, busy |-> FALSE, edmaBusy |-> FALSE, on |-> FALSE,
           list |-> <<>>, actual |-> [r \in Reqs |-> 0],
           status |-> [r \in Reqs |-> "0"]]
  /\ fifo = EmptyFifo /\ dma = NoDma
  /\ moved = [r \in Reqs |-> 0] /\ sets = 0
  /\ monitor = [lie |-> FALSE, lost |-> FALSE, stale |-> FALSE]

(* generic_interrupt: the status registers are read, which clears them.     *)
ReadStatus ==
  /\ pc = "idle"
  /\ latched' = irq /\ irq' = FALSE
  /\ pc' = "stage0"
  /\ UNCHANGED <<conf, ep, fifo, dma, moved, monitor, sets>>

(* stop_activity begins to nuke the queue.                                  *)
Disconnect == pc' = "nuke" /\ ep' = [ep EXCEPT !.busy = TRUE]

(* musb_stage0_irq.                                                         *)
Stage0 ==
  /\ pc = "stage0"
  /\ Disconnect \/ (pc' = "ep0" /\ UNCHANGED ep)
  /\ UNCHANGED <<conf, irq, latched, fifo, dma, moved, monitor, sets>>

(* One turn of nuke's loop; when the queue is empty, the disconnect callback *)
(* of the composite driver disables the function.                           *)
Nuke ==
  /\ pc = "nuke"
  /\ IF ep.list # <<>>
     THEN Become(Giveback(State, Head(ep.list), "-ECONNRESET")) /\ pc' = "nuke"
     ELSE Become(FreeEp(State)) /\ pc' = "ep0"
  /\ UNCHANGED <<conf, irq, latched, sets>>

(* musb_g_ep0_irq: the host may select another setting of the interface.    *)
Ep0 ==
  /\ pc = "ep0"
  /\ pc' = "ep"
  /\ \/ Become(State) /\ UNCHANGED sets
     \/ sets < MaxSets /\ sets' = sets + 1 /\ Become(SetAlt(State))
     \/ Become(FreeEp(State)) /\ UNCHANGED sets
  /\ UNCHANGED <<conf, irq, latched>>

(* musb_g_tx, or musb_g_rx down to the poll, if the endpoint's bit is set.  *)
EpIrq_NoPoll ==
  /\ pc = "ep"
  /\ IF ~latched THEN Become(State)
     ELSE IF conf.isIn THEN Become(GTx(State))
     ELSE LET s == GRxBegin(State) IN
       IF s.ep.edmaBusy THEN Become(GRxDma(s)) ELSE Become(StartHead(s))
  /\ pc' = "idle"
  /\ latched' = FALSE
  /\ UNCHANGED <<conf, irq, sets>>
EpIrq ==
  /\ pc = "ep"
  /\ IF ~latched THEN Become(State) /\ pc' = "idle"
     ELSE IF conf.isIn THEN Become(GTx(State)) /\ pc' = "idle"
     ELSE LET s == GRxBegin(State) IN
       IF s.ep.edmaBusy
       THEN Become(s) /\ pc' = "poll"
       ELSE Become(StartHead(s)) /\ pc' = "idle"
  /\ latched' = FALSE
  /\ UNCHANGED <<conf, irq, sets>>

(* dma_polling_st: until TFR_DONE, or until the time is up, which only      *)
(* happens when the channel has nothing left to move.                       *)
PollDone ==
  /\ pc = "poll"
  /\ dma.done
  /\ Become(GRxDma(State)) /\ pc' = "idle"
  /\ UNCHANGED <<conf, irq, latched, sets>>

PollTimeout ==
  /\ pc = "poll"
  /\ ~dma.done /\ (fifo.ready => fifo.from # 0)
  /\ Become(GRxDma(State)) /\ pc' = "idle"
  /\ UNCHANGED <<conf, irq, latched, sets>>

-----------------------------------------------------------------------------
(* The hardware and the host.                                               *)

(* OUT: a packet for an enabled endpoint.  A full FIFO loses it.           *)
HostSends ==
  /\ ~conf.isIn /\ ep.desc
  /\ IF fifo.ready
     THEN fifo' = [fifo EXCEPT !.overrun = TRUE] /\ UNCHANGED irq
     ELSE \E size \in IF conf.short THEN 1 .. PacketSz ELSE {PacketSz} :
            /\ fifo' = [fifo EXCEPT !.ready = TRUE, !.size = size, !.from = 0]
            /\ irq' = TRUE
  /\ UNCHANGED <<conf, pc, latched, ep, dma, moved, monitor, sets>>

(* The channel empties the FIFO into the buffer it is programmed with; it   *)
(* is done when it has moved the length of the request.                     *)
DmaDrains ==
  /\ ~conf.isIn /\ conf.edma
  /\ fifo.ready /\ fifo.from = 0 /\ dma.req # 0 /\ ~dma.done
  /\ fifo' = [fifo EXCEPT !.from = dma.req]
  /\ moved' = [moved EXCEPT ![dma.req] = @ + fifo.size]
  /\ dma' = [dma EXCEPT !.done = moved'[dma.req] >= conf.length]
  /\ UNCHANGED <<conf, pc, irq, latched, ep, monitor, sets>>

(* IN: the host fetches the packet.                                         *)
HostFetches ==
  /\ conf.isIn /\ ep.desc /\ fifo.ready
  /\ fifo' = [fifo EXCEPT !.ready = FALSE]
  /\ irq' = TRUE
  /\ UNCHANGED <<conf, pc, latched, ep, dma, moved, monitor, sets>>

-----------------------------------------------------------------------------
Handler == Stage0 \/ Nuke \/ Ep0 \/ EpIrq \/ PollDone \/ PollTimeout

Next == ReadStatus \/ Handler \/ HostSends \/ HostFetches \/ DmaDrains

Spec == Init /\ [][Next]_vars

(* The handler runs to its end and is entered again while the controller    *)
(* requests it, the host keeps the frames going, the DMA moves data.        *)
Fairness ==
  /\ WF_vars(irq /\ ReadStatus)
  /\ WF_vars(Handler)
  /\ WF_vars(HostSends) /\ WF_vars(HostFetches)
  /\ WF_vars(DmaDrains)

FairSpec == Spec /\ Fairness

-----------------------------------------------------------------------------
(* The type invariant; a request is queued at most once.                    *)
TypeOK ==
  /\ conf \in Configs
  /\ pc \in {"idle", "stage0", "nuke", "ep0", "ep", "poll"}
  /\ irq \in BOOLEAN /\ latched \in BOOLEAN
  /\ ep \in [desc : BOOLEAN, busy : BOOLEAN, edmaBusy : BOOLEAN, on : BOOLEAN,
             list : Seq(Reqs), actual : [Reqs -> Nat],
             status : [Reqs -> {"0", InProgress, "-EOVERFLOW", "-ECONNRESET"}]]
  /\ \A i, j \in DOMAIN ep.list : i # j => ep.list[i] # ep.list[j]
  /\ fifo \in [ready : BOOLEAN, size : Nat, from : 0 .. UsbXfers, overrun : BOOLEAN]
  /\ dma \in [req : 0 .. UsbXfers, done : BOOLEAN]
  /\ sets \in 0 .. MaxSets
  /\ moved \in [Reqs -> Nat]
  /\ monitor \in [lie : BOOLEAN, lost : BOOLEAN, stale : BOOLEAN]

(* While the endpoint counts on the DMA there is a request it works for     *)
(* (musb_g_tx adds to the request's `actual` before it tests for one, and   *)
(* musb_g_rx gives back the head of the queue), and it is the request at    *)
(* the head, the one that will be given back, whose buffer the channel is   *)
(* programmed with.                                                         *)
ArmedIsHead == ep.edmaBusy => ep.list # <<>> /\ dma.req = Head(ep.list)

(* "actual: Reports bytes transferred to/from the buffer": a request is     *)
(* given back with success only when what `actual` says has been moved and, *)
(* for IN, fetched by the host.  Excepted is a setting that was selected    *)
(* with an interrupt of the old one pending: the handler takes it for a     *)
(* packet and from then on runs one packet ahead of the host.               *)
CompletedTrue == monitor.stale \/ ~monitor.lie

(* No packet is acknowledged before it is in a buffer (same exception).     *)
NoneLost == monitor.stale \/ ~monitor.lost

(* A packet handed to the controller stays until the host fetches it, or    *)
(* until the endpoint is set up anew.                                       *)
PacketStays ==
  [][conf.isIn /\ pc # "ep0" /\ fifo.ready => fifo' = fifo \/ ~fifo'.ready]_vars

(* Every request at the head of the queue is given back, unless the stream  *)
(* is stopped.                                                              *)
HeadMoves == \A r \in Reqs :
  (ep.on /\ Head(ep.list) = r) ~> (~ep.on \/ Head(ep.list) # r \/ pc = "nuke")

(* "killing any outstanding requests will quiesce the driver; then report   *)
(* disconnect": the loop in nuke ends.                                      *)
NukeEnds == pc = "nuke" ~> pc # "nuke"
=============================================================================
