------------------------- MODULE Uac2Playback_proofs ------------------------
(***************************************************************************)
(* Proofs about Uac2Playback for every packet size, ring size, alignment   *)
(* and number of requests, as long as the byte counters do not wrap.       *)
(***************************************************************************)
EXTENDS Uac2Playback, SequenceTheorems, TLAPS

(* A stream short enough for 32-bit byte counters.                          *)
NoWrap == MaxBytes + 2 * BufSize < CounterMod

-----------------------------------------------------------------------------
(* Arithmetic of the ring.                                                  *)

(* A remainder is below the divisor.                                        *)
LEMMA ModRange ==
  ASSUME NEW a \in Int, NEW b \in Nat \ {0}
  PROVE  a % b \in 0 .. b - 1
OBVIOUS

(* Numbers below the modulus are their own remainder.                       *)
LEMMA ModSmall ==
  ASSUME NEW b \in Nat \ {0}, NEW a \in 0 .. b - 1
  PROVE  a % b = a
OBVIOUS

(* A ring of whole rounds of requests, played in two equal halves, each at  *)
(* least as long as a packet; a round of requests fits it.                  *)
LEMMA RingGeometry ==
  ASSUME NEW m \in Psizes
  PROVE  /\ RxBufSizeOf(m) \in Nat \ {0} /\ PlaybackSizeOf(m) \in Nat \ {0}
         /\ RxBufSizeOf(m) <= BufSize
         /\ m \in Nat \ {0} /\ m <= PlaybackSizeOf(m)
         /\ m * UsbXfers \in Nat /\ m * UsbXfers <= RxBufSizeOf(m)
         /\ 2 * PlaybackSizeOf(m) <= RxBufSizeOf(m)
<1> DEFINE x == m * UsbXfers
<1>1. m \in Nat \ {0} /\ UsbXfers \in Nat \ {0, 1} /\ BufSize \in Nat
  BY SizesAssumption
<1>2. x \in Nat /\ x >= 2 * m
  BY <1>1
<1>3. x <= BufSize
  BY SizesAssumption
<1> DEFINE k == BufSize \div x
<1>4. k \in Nat /\ k >= 1 /\ k * x <= BufSize
  BY <1>1, <1>2, <1>3
<1>5. k * x >= x /\ k * x \in Nat
  BY <1>2, <1>4
<1>6. RxBufSizeOf(m) = k * x
  BY DEF RxBufSizeOf
<1>7. PlaybackSizeOf(m) = (k * x) \div 2
  BY <1>6 DEF PlaybackSizeOf, I2sTxBufCnt
<1> HIDE DEF x, k
<1>8. QED
  BY <1>1, <1>2, <1>3, <1>4, <1>5, <1>6, <1>7 DEF x

(* A buffer handed out lies in the ring.                                    *)
LEMMA PtrInRing ==
  ASSUME NEW ptr \in Nat, NEW size \in Nat, NEW bufSize \in Nat \ {0},
         bufSize <= BufSize
  PROVE  PtrAfter(ptr, size, bufSize) \in 0 .. BufSize
<1> DEFINE next == (ptr + size) % bufSize
<1>1. next \in Nat /\ next < bufSize
  BY ModRange
<1>2. Align \in Nat \ {0}
  BY SizesAssumption
<1>3. next % Align \in 0 .. next
  BY <1>1, <1>2
<1>4. PtrAfter(ptr, size, bufSize) = next - (next % Align)
  BY DEF PtrAfter
<1> HIDE DEF next
<1>5. QED
  BY <1>1, <1>3, <1>4, SizesAssumption

(* So does the next half.                                                   *)
LEMMA HalfInRing ==
  ASSUME NEW ptr \in Nat, NEW size \in Nat, NEW bufSize \in Nat \ {0},
         bufSize <= BufSize
  PROVE  (ptr + size) % bufSize \in 0 .. BufSize
BY SizesAssumption

-----------------------------------------------------------------------------
(* The inductive invariant.                                                 *)

(* Outside afunc_set_alt the ring has the geometry of the packet size; in   *)
(* the middle of it everything is cleared.                                  *)
Geometry ==
  /\ pc = "init" => /\ playbackSize = 0 /\ rxedSize = 0 /\ txedSize = 0
                    /\ fill = 0 /\ sched # ByUac2
  /\ pc # "init" => /\ rxBufSize = RxBufSizeOf(psize)
                    /\ playbackSize = PlaybackSizeOf(psize)

(* The channel has one transfer, which is in flight, finished but not seen, *)
(* or seen by a handler call that has not counted it yet.                   *)
Pending == dma.on \/ tfrDone \/ dmaDone

(* The state of the scheduler tells what the channel is doing for this      *)
(* stream.                                                                  *)
ChannelInv ==
  /\ ~(dma.on /\ tfrDone)
  /\ dmaDone => ~dma.on /\ ~tfrDone /\ pc = "handler"
  /\ stale => Pending
  /\ pc = "init" /\ Pending => stale
  /\ pc # "init" =>
       /\ sched = IrqTrig => ~stale /\ (dma.on \/ tfrDone)
       /\ sched = WaitData => ~Pending
       /\ sched = ByUac2 /\ Pending => stale
  /\ pc = "handled" => sched # ByUac2

(* The byte counters and what they stand for.                               *)
CounterInv ==
  /\ rxedSize <= MaxBytes
  /\ txedSize <= rxedSize + playbackSize
  /\ pc # "init" =>
       /\ sched = IrqTrig => txedSize < rxedSize
       /\ sched = ByUac2 => txedSize <= rxedSize
       /\ sched = ByUac2 /\ pc # "idle" => txedSize < rxedSize
       /\ sched = WaitData /\ pc \in {"idle", "room"} => rxedSize <= txedSize
       /\ rxedSize < txedSize + 2 * playbackSize + psize
       /\ pc = "idle" => rxedSize < txedSize + 2 * playbackSize
       /\ ~slip => txedSize < rxedSize + playbackSize
       /\ ~slip => fill = rxedSize - txedSize

(* A packet that is being completed has taken its request off the queue.    *)
RequestsInv ==
  /\ pc \notin {"idle", "init"} => Len(reqs) < UsbXfers /\ epEnabled
  /\ pc = "init" => reqs = <<>>

IInv == TypeOK /\ Geometry /\ RequestsInv /\ ChannelInv /\ CounterInv

-----------------------------------------------------------------------------
(* The sizes in a reachable state.                                          *)
LEMMA Sizes ==
  ASSUME TypeOK, Geometry
  PROVE  /\ psize \in Nat \ {0} /\ playbackSize \in Nat /\ BufSize \in Nat
         /\ 2 * playbackSize <= BufSize
         /\ pc # "init" => /\ playbackSize \in Nat \ {0} /\ psize <= playbackSize
                           /\ rxBufSize \in Nat \ {0} /\ rxBufSize <= BufSize
                           /\ 2 * playbackSize <= rxBufSize
<1>1. psize \in Psizes /\ BufSize \in Nat
  BY SizesAssumption DEF TypeOK
<1>2. CASE pc = "init"
  <2>1. playbackSize = 0
    BY <1>2 DEF Geometry
  <2>2. psize \in Nat \ {0}
    BY <1>1, RingGeometry
  <2> QED BY <1>1, <1>2, <2>1, <2>2
<1>3. CASE pc # "init"
  <2>1. rxBufSize = RxBufSizeOf(psize) /\ playbackSize = PlaybackSizeOf(psize)
    BY <1>3 DEF Geometry
  <2>2. /\ rxBufSize \in Nat \ {0} /\ playbackSize \in Nat \ {0}
        /\ rxBufSize <= BufSize /\ psize \in Nat \ {0}
        /\ psize <= playbackSize /\ 2 * playbackSize <= rxBufSize
    BY <1>1, <2>1, RingGeometry
  <2> QED BY <1>1, <2>2
<1> QED BY <1>2, <1>3

(* Without wrap-around the counters are added up as integers.               *)
LEMMA Sums ==
  ASSUME NoWrap, TypeOK, Geometry, CounterInv
  PROVE  /\ Add32(txedSize, playbackSize) = txedSize + playbackSize
         /\ Add32(txedSize, playbackSize * Uac2RxBufCnt) = txedSize + 2 * playbackSize
         /\ txedSize + playbackSize \in 0 .. CounterMod - 1
<1>1. /\ playbackSize \in Nat /\ BufSize \in Nat /\ 2 * playbackSize <= BufSize
      /\ rxedSize \in Nat /\ txedSize \in Nat /\ MaxBytes \in Nat
      /\ CounterMod \in Nat \ {0}
  BY Sizes, SizesAssumption DEF TypeOK
<1>2. /\ txedSize + playbackSize \in 0 .. CounterMod - 1
      /\ txedSize + 2 * playbackSize \in 0 .. CounterMod - 1
  BY <1>1 DEF NoWrap, CounterInv
<1>3. playbackSize * Uac2RxBufCnt = 2 * playbackSize
  BY <1>1 DEF Uac2RxBufCnt
<1> QED BY <1>1, <1>2, <1>3, ModSmall DEF Add32

(* What a call of the handler does, case by case.                           *)
HandlerIgnores(done, left) ==
  /\ ~done /\ sched # ByUac2
  /\ txedSize' = txedSize /\ fill' = fill /\ slip' = slip
  /\ tfrDone' = left /\ sched' = sched /\ playbackPtr' = playbackPtr
  /\ dma' = dma /\ stale' = stale

HandlerCounts(done) ==
  /\ txedSize' = txedSize + (IF done THEN playbackSize ELSE 0)
  /\ fill' = fill - (IF done /\ ~stale THEN playbackSize ELSE 0)
  /\ slip' = (slip \/ (done /\ stale))
  /\ done \/ sched = ByUac2

HandlerWaits(done, left) ==
  /\ HandlerCounts(done)
  /\ rxedSize <= txedSize'
  /\ sched' = WaitData /\ tfrDone' = left /\ playbackPtr' = playbackPtr
  /\ dma' = dma /\ stale' = (stale /\ ~done)

NextHalf == (playbackPtr + playbackSize) % rxBufSize
HalfTransfer == [on |-> TRUE, from |-> playbackPtr, len |-> playbackSize]

HandlerStarts(done) ==
  /\ HandlerCounts(done)
  /\ rxedSize > txedSize'
  /\ sched' = IrqTrig /\ tfrDone' = FALSE /\ stale' = FALSE
  /\ dma' = HalfTransfer /\ HalfTransfer.on
  /\ playbackPtr' = NextHalf

(* What the handler can do: nothing, wait for the host, or play a half.      *)
LEMMA HandlerCases ==
  ASSUME NoWrap, TypeOK, Geometry, CounterInv, NEW done \in BOOLEAN,
         NEW left \in BOOLEAN, Handler(done, left)
  PROVE  HandlerIgnores(done, left) \/ HandlerWaits(done, left) \/ HandlerStarts(done)
<1>1. /\ Add32(txedSize, playbackSize) = txedSize + playbackSize
      /\ rxedSize \in Int /\ txedSize \in Int /\ fill \in Int /\ playbackSize \in Int
  BY Sums DEF TypeOK
<1>2. CASE ~(done \/ sched = ByUac2)
  BY <1>1, <1>2 DEF Handler, HandlerIgnores, TypeOK
<1>3. CASE done \/ sched = ByUac2
  <2> DEFINE txed == IF done THEN txedSize + playbackSize ELSE txedSize
  <2>1. HandlerCounts(done) /\ txedSize' = txed /\ txed \in Int
    BY <1>1, <1>3 DEF Handler, HandlerCounts
  <2>2. CASE rxedSize <= txed
    BY <1>1, <1>3, <2>1, <2>2 DEF Handler, GoWait, HandlerWaits
  <2>3. CASE ~(rxedSize <= txed)
    BY <1>1, <1>3, <2>1, <2>3 DEF Handler, StartHalf, HandlerStarts, NextHalf, HalfTransfer
  <2> QED BY <2>2, <2>3
<1> QED BY <1>2, <1>3

(* Everything the byte counters and the scheduler decide in the handler.    *)
LEMMA HandlerStep ==
  ASSUME NoWrap, IInv, NEW done \in BOOLEAN, NEW left \in BOOLEAN,
         Handler(done, left), left <=> tfrDone /\ ~done,
         done => Pending /\ ~dma.on, dmaDone => done, dmaDone' = FALSE,
         UNCHANGED <<epEnabled, psize, reqs, rxBufPtr, rxBufSize, playbackSize,
                     rxedSize, cur, streams>>,
         (done /\ pc' = pc) \/ (pc = "handler" /\ pc' = "handled")
  PROVE  IInv'
<1>1. HandlerIgnores(done, left) \/ HandlerWaits(done, left) \/ HandlerStarts(done)
  BY HandlerCases DEF IInv
<1>2. /\ psize \in Nat \ {0} /\ playbackSize \in Nat /\ BufSize \in Nat
      /\ playbackSize <= BufSize /\ txedSize + playbackSize \in 0 .. CounterMod - 1
      /\ rxedSize \in Int /\ txedSize \in Int /\ fill \in Int /\ pc \in Pcs
      /\ pc # "init" => rxBufSize \in Nat \ {0} /\ rxBufSize <= BufSize
  BY Sizes, Sums DEF IInv, TypeOK
<1>3. pc = "init" => ~HandlerStarts(done)
  BY <1>2 DEF IInv, Geometry, HandlerStarts, HandlerCounts, ByUac2
<1>4. playbackPtr' \in 0 .. BufSize
  <2>1. CASE HandlerStarts(done)
    <3>1. pc # "init" /\ playbackPtr \in 0 .. BufSize
      BY <1>3, <2>1 DEF IInv, TypeOK
    <3>2. /\ playbackPtr \in Nat /\ playbackSize \in Nat
          /\ rxBufSize \in Nat \ {0} /\ rxBufSize <= BufSize
      BY <1>2, <3>1
    <3>3. NextHalf \in 0 .. BufSize
      BY <3>2, HalfInRing, Zenon DEF NextHalf
    <3>4. playbackPtr' = NextHalf
      BY <2>1 DEF HandlerStarts
    <3> QED BY <3>3, <3>4
  <2>2. CASE ~HandlerStarts(done)
    BY <1>1, <2>2 DEF HandlerIgnores, HandlerWaits, IInv, TypeOK
  <2> QED BY <2>1, <2>2
<1>5. TypeOK'
  <2>1. /\ txedSize' \in 0 .. CounterMod - 1 /\ fill' \in Int
        /\ slip' \in BOOLEAN /\ stale' \in BOOLEAN /\ tfrDone' \in BOOLEAN
        /\ sched' \in SchedVals
    <3>1. CASE HandlerIgnores(done, left)
      BY <1>2, <3>1 DEF HandlerIgnores, IInv, TypeOK
    <3>2. CASE HandlerWaits(done, left)
      BY <1>2, <3>2 DEF HandlerWaits, HandlerCounts, IInv, TypeOK, SchedVals
    <3>3. CASE HandlerStarts(done)
      <4>1. /\ txedSize' \in 0 .. CounterMod - 1 /\ fill' \in Int
        BY <1>2, <3>3 DEF HandlerStarts, HandlerCounts, IInv, TypeOK
      <4>2. /\ slip' \in BOOLEAN /\ stale' \in BOOLEAN /\ tfrDone' \in BOOLEAN
            /\ sched' \in SchedVals
        BY <3>3 DEF HandlerStarts, HandlerCounts, SchedVals
      <4> QED BY <4>1, <4>2
    <3> QED BY <1>1, <3>1, <3>2, <3>3
  <2>2. dma' \in Transfers
    <3>1. dma \in Transfers
      BY DEF IInv, TypeOK
    <3>2. playbackPtr \in 0 .. BufSize /\ playbackSize \in 0 .. BufSize
      BY DEF IInv, TypeOK
    <3>3. HalfTransfer \in Transfers
      BY <3>2 DEF HalfTransfer, Transfers
    <3> QED BY <1>1, <3>1, <3>3 DEF HandlerIgnores, HandlerWaits, HandlerStarts
  <2>3. pc' \in Pcs
    BY <1>2 DEF Pcs
  <2> QED BY <1>4, <2>1, <2>2, <2>3 DEF IInv, TypeOK
<1>6. Geometry'
  BY <1>1, <1>3 DEF IInv, Geometry, ChannelInv, HandlerIgnores, HandlerWaits,
     HandlerStarts, HandlerCounts, WaitData, ByUac2
<1>7. RequestsInv'
  BY DEF IInv, RequestsInv
<1>8. ChannelInv'
  <2>1. CASE HandlerIgnores(done, left)
    BY <1>2, <1>3, <2>1 DEF IInv, TypeOK, ChannelInv, CounterInv, Pending,
       HandlerIgnores, SchedVals, WaitData, ByUac2, IrqTrig
  <2>2. CASE HandlerWaits(done, left)
    <3>1. CASE done
      BY <2>2, <3>1 DEF IInv, TypeOK, ChannelInv, CounterInv, Pending,
         HandlerWaits, HandlerCounts, SchedVals, WaitData, ByUac2, IrqTrig
    <3>2. CASE ~done
      BY <1>2, <2>2, <3>2 DEF IInv, TypeOK, ChannelInv, CounterInv, Pending,
         HandlerWaits, HandlerCounts, SchedVals, WaitData, ByUac2, IrqTrig
    <3> QED BY <3>1, <3>2
  <2>3. CASE HandlerStarts(done)
    BY <1>2, <1>3, <2>3 DEF IInv, TypeOK, ChannelInv, CounterInv, Pending,
       HandlerStarts, HandlerCounts, SchedVals, WaitData, ByUac2, IrqTrig
  <2> QED BY <1>1, <2>1, <2>2, <2>3
<1>9. CounterInv'
  <2>1. CASE HandlerIgnores(done, left)
    BY <1>2, <1>3, <2>1 DEF IInv, TypeOK, Geometry, ChannelInv, CounterInv, Pending,
       HandlerIgnores, SchedVals, WaitData, ByUac2, IrqTrig
  <2>2. CASE HandlerWaits(done, left)
    <3>1. CASE done
      BY <1>2, <2>2, <3>1 DEF IInv, TypeOK, Geometry, ChannelInv, CounterInv,
         Pending, HandlerWaits, HandlerCounts, SchedVals, WaitData, ByUac2, IrqTrig
    <3>2. CASE ~done
      BY <1>2, <2>2, <3>2 DEF IInv, TypeOK, Geometry, ChannelInv, CounterInv,
         Pending, HandlerWaits, HandlerCounts, SchedVals, WaitData, ByUac2, IrqTrig
    <3> QED BY <3>1, <3>2
  <2>3. CASE HandlerStarts(done)
    BY <1>2, <1>3, <2>3 DEF IInv, TypeOK, Geometry, ChannelInv, CounterInv, Pending,
       HandlerStarts, HandlerCounts, SchedVals, WaitData, ByUac2, IrqTrig
  <2> QED BY <1>1, <2>1, <2>2, <2>3
<1> QED BY <1>5, <1>6, <1>7, <1>8, <1>9 DEF IInv

-----------------------------------------------------------------------------
(* Init satisfies the invariant.                                            *)
LEMMA InitInv ==
  ASSUME Init PROVE IInv
<1>1. psize \in Psizes /\ psize \in Nat \ {0}
  BY SizesAssumption DEF Init
<1>2. /\ rxBufSize \in Nat \ {0} /\ rxBufSize <= BufSize
      /\ playbackSize \in Nat \ {0} /\ 2 * playbackSize <= rxBufSize
      /\ psize * UsbXfers \in Nat
  BY <1>1, RingGeometry DEF Init
<1>3. rxBufPtr \in 0 .. BufSize
  <2>1. PtrAfter(0, psize * UsbXfers, rxBufSize) \in 0 .. BufSize
    BY <1>2, PtrInRing
  <2> QED BY <2>1 DEF Init
<1>4. TypeOK
  <2>1. reqs \in Seq(0 .. BufSize) /\ Len(reqs) <= UsbXfers
    BY SizesAssumption DEF Init
  <2>2. dma \in Transfers
    BY SizesAssumption DEF Init, Idle, Transfers
  <2>3. /\ rxBufSize \in 0 .. BufSize /\ playbackSize \in 0 .. BufSize
        /\ 0 \in 0 .. BufSize /\ 0 \in 0 .. CounterMod - 1 /\ 0 \in 0 .. MaxStreams
    BY <1>2, SizesAssumption
  <2>4. /\ epEnabled = FALSE /\ tfrDone = FALSE /\ dmaDone = FALSE
        /\ stale = FALSE /\ slip = FALSE /\ sched = ByUac2 /\ pc = "idle"
        /\ cur = 0 /\ playbackPtr = 0 /\ rxedSize = 0 /\ txedSize = 0
        /\ streams = 0 /\ fill = 0
    BY DEF Init
  <2>5. sched \in SchedVals /\ pc \in Pcs
    BY <2>4 DEF SchedVals, Pcs
  <2>6. /\ cur \in 0 .. BufSize /\ playbackPtr \in 0 .. BufSize /\ fill \in Int
        /\ rxedSize \in 0 .. CounterMod - 1 /\ txedSize \in 0 .. CounterMod - 1
        /\ streams \in 0 .. MaxStreams
    BY <2>3, <2>4
  <2> QED BY <1>1, <1>3, <2>1, <2>2, <2>3, <2>4, <2>5, <2>6 DEF TypeOK
<1>5. Geometry
  BY DEF Init, Geometry
<1>6. RequestsInv
  BY DEF Init, RequestsInv
<1>7. ChannelInv
  BY DEF Init, ChannelInv, Pending, ByUac2, IrqTrig, WaitData, Idle
<1>8. CounterInv
  BY <1>1, <1>2, SizesAssumption DEF Init, CounterInv, ByUac2, IrqTrig, WaitData
<1> QED BY <1>4, <1>5, <1>6, <1>7, <1>8 DEF IInv

(* Closing a stream touches the requests only.                              *)
LEMMA StopStreamStep ==
  ASSUME IInv, StopStream PROVE IInv'
<1>1. TypeOK'
  <2>1. reqs' \in Seq(0 .. BufSize) /\ Len(reqs') <= UsbXfers
    BY SizesAssumption DEF StopStream
  <2> QED BY <2>1 DEF IInv, TypeOK, StopStream, aoStat, channel, history
<1>2. Geometry' /\ ChannelInv' /\ CounterInv'
  BY DEF IInv, Geometry, ChannelInv, Pending, CounterInv, StopStream, aoStat,
     channel, history
<1>3. RequestsInv'
  BY DEF IInv, RequestsInv, StopStream
<1> QED BY <1>1, <1>2, <1>3 DEF IInv

(* Clearing ao_stat disowns whatever the channel is doing.                  *)
LEMMA SetAltClearStep ==
  ASSUME IInv, NEW m \in Psizes, SetAltClear(m) PROVE IInv'
<1>1. TypeOK'
  <2>1. reqs' \in Seq(0 .. BufSize) /\ Len(reqs') <= UsbXfers
    BY SizesAssumption DEF SetAltClear
  <2>2. streams' \in 0 .. MaxStreams /\ stale' \in BOOLEAN
    BY SizesAssumption DEF IInv, TypeOK, SetAltClear
  <2>3. 0 \in 0 .. BufSize /\ 0 \in 0 .. CounterMod - 1 /\ 0 \in Int
    BY SizesAssumption
  <2> QED BY <2>1, <2>2, <2>3 DEF IInv, TypeOK, SetAltClear, SchedVals, Pcs
<1>2. Geometry'
  BY DEF Geometry, SetAltClear, IrqTrig, ByUac2
<1>3. RequestsInv'
  BY SizesAssumption DEF RequestsInv, SetAltClear
<1>4. ChannelInv'
  BY DEF IInv, ChannelInv, Pending, SetAltClear
<1>5. CounterInv'
  BY SizesAssumption DEF CounterInv, SetAltClear
<1> QED BY <1>1, <1>2, <1>3, <1>4, <1>5 DEF IInv

(* The first round of requests lies in the ring that has been set up.       *)
LEMMA SetAltSetupStep ==
  ASSUME IInv, SetAltSetup PROVE IInv'
<1>1. psize \in Psizes /\ psize \in Nat \ {0} /\ UsbXfers \in Nat \ {0, 1}
      /\ BufSize \in Nat
  BY SizesAssumption DEF IInv, TypeOK
<1> DEFINE ring == RxBufSizeOf(psize)
           half == PlaybackSizeOf(psize)
<1>2. /\ ring \in Nat \ {0} /\ ring <= BufSize
      /\ half \in Nat \ {0} /\ 2 * half <= ring
      /\ psize * UsbXfers \in Nat /\ psize * UsbXfers <= BufSize
  BY <1>1, RingGeometry
<1>3. PtrAfter(0, psize * UsbXfers, ring) \in 0 .. BufSize
  BY <1>2, PtrInRing
<1>4. \A i \in 1 .. UsbXfers : (i - 1) * psize \in 0 .. BufSize
  <2> SUFFICES ASSUME NEW i \in 1 .. UsbXfers PROVE (i - 1) * psize \in 0 .. BufSize
    OBVIOUS
  <2>1. (i - 1) * psize \in Nat /\ (i - 1) * psize <= psize * UsbXfers
    BY <1>1
  <2> QED BY <1>1, <1>2, <2>1
<1>5. /\ reqs' = [i \in 1 .. UsbXfers |-> (i - 1) * psize]
      /\ reqs' \in Seq(0 .. BufSize) /\ Len(reqs') <= UsbXfers
  BY <1>1, <1>4 DEF SetAltSetup
<1> HIDE DEF ring, half
<1>6. /\ rxBufSize' = ring /\ playbackSize' = half
      /\ rxBufPtr' = PtrAfter(0, psize * UsbXfers, ring)
      /\ playbackPtr' = 0 /\ rxedSize' = 0 /\ txedSize' = 0 /\ fill' = fill
      /\ sched' = ByUac2 /\ pc' = "idle" /\ slip' = FALSE /\ pc = "init"
      /\ UNCHANGED <<epEnabled, psize, cur, dmaDone, dma, tfrDone, stale, streams>>
  BY DEF SetAltSetup, channel, ring, half
<1>7. TypeOK'
  <2>1. /\ ring \in 0 .. BufSize /\ half \in 0 .. BufSize
        /\ 0 \in 0 .. BufSize /\ 0 \in 0 .. CounterMod - 1
    BY <1>1, <1>2, SizesAssumption
  <2> QED BY <1>3, <1>5, <1>6, <2>1 DEF IInv, TypeOK, SchedVals, Pcs
<1>8. Geometry'
  BY <1>6 DEF Geometry, ring, half
<1>9. RequestsInv'
  BY <1>6 DEF RequestsInv
<1>10. ChannelInv'
  BY <1>6 DEF IInv, ChannelInv, Pending, ByUac2, IrqTrig, WaitData
<1>11. CounterInv'
  BY <1>1, <1>2, <1>6, SizesAssumption
     DEF IInv, Geometry, CounterInv, ByUac2, IrqTrig, WaitData
<1> QED BY <1>7, <1>8, <1>9, <1>10, <1>11 DEF IInv

(* A packet is counted before anything else; there is room for it.          *)
LEMMA PacketArrivesStep ==
  ASSUME NoWrap, IInv, PacketArrives PROVE IInv'
<1>1. /\ psize \in Nat \ {0} /\ playbackSize \in Nat \ {0} /\ psize <= playbackSize
      /\ rxedSize \in Nat /\ txedSize \in Nat /\ fill \in Int /\ MaxBytes \in Nat
      /\ CounterMod \in Nat \ {0} /\ UsbXfers \in Nat /\ MaxBytes < CounterMod
  BY Sizes, SizesAssumption DEF IInv, TypeOK, PacketArrives, NoWrap
<1>2. rxedSize + psize \in 0 .. CounterMod - 1 /\ rxedSize' = rxedSize + psize
  <2>1. rxedSize + psize \in 0 .. CounterMod - 1
    BY <1>1 DEF PacketArrives
  <2>2. (rxedSize + psize) % CounterMod = rxedSize + psize
    BY <1>1, <2>1, ModSmall
  <2> QED BY <2>1, <2>2 DEF PacketArrives, Add32
<1>3. /\ reqs \in Seq(0 .. BufSize) /\ Len(reqs) <= UsbXfers /\ reqs # <<>>
      /\ cur' = Head(reqs) /\ reqs' = Tail(reqs)
  BY DEF IInv, TypeOK, PacketArrives
<1>4. /\ cur' \in 0 .. BufSize /\ reqs' \in Seq(0 .. BufSize)
      /\ Len(reqs') < UsbXfers
  <2>1. /\ Head(reqs) \in 0 .. BufSize /\ Tail(reqs) \in Seq(0 .. BufSize)
        /\ Len(Tail(reqs)) = Len(reqs) - 1 /\ Len(reqs) \in Nat
    <3>1. Len(reqs) \in Nat
      BY <1>3
    <3> QED BY <1>3, <3>1, HeadTailProperties, Zenon
  <2> QED BY <1>1, <1>3, <2>1
<1>5. TypeOK'
  BY <1>1, <1>2, <1>4 DEF IInv, TypeOK, PacketArrives, channel, Pcs
<1>6. Geometry'
  BY DEF IInv, Geometry, PacketArrives
<1>7. RequestsInv'
  BY <1>4 DEF RequestsInv, PacketArrives
<1>8. ChannelInv'
  BY DEF IInv, ChannelInv, Pending, PacketArrives, channel
<1>9. CounterInv'
  BY <1>1, <1>2 DEF IInv, TypeOK, CounterInv, PacketArrives, SchedVals
<1> QED BY <1>5, <1>6, <1>7, <1>8, <1>9 DEF IInv

(* Reading the status moves the completion into dmaDone.                    *)
LEMMA CheckSchedStep ==
  ASSUME IInv, CheckSched PROVE IInv'
<1>1. TypeOK'
  BY DEF IInv, TypeOK, CheckSched, aoStat, history, Pcs
<1>2. Geometry' /\ RequestsInv' /\ CounterInv'
  BY DEF IInv, Geometry, RequestsInv, CounterInv, CheckSched, aoStat, history
<1>3. ChannelInv'
  BY DEF IInv, TypeOK, ChannelInv, Pending, CheckSched, aoStat, ByUac2, IrqTrig,
     WaitData
<1> QED BY <1>1, <1>2, <1>3 DEF IInv

(* The handler, called by the USB context with the status it has read ...   *)
LEMMA CallHandlerStep ==
  ASSUME NoWrap, IInv, CallHandler PROVE IInv'
<1>1. /\ dmaDone \in BOOLEAN /\ tfrDone \in BOOLEAN /\ Handler(dmaDone, tfrDone)
      /\ dmaDone' = FALSE /\ pc = "handler" /\ pc' = "handled"
      /\ UNCHANGED <<epEnabled, psize, reqs, rxBufPtr, rxBufSize, playbackSize,
                     rxedSize, cur, streams>>
  BY DEF IInv, TypeOK, CallHandler
<1>2. /\ tfrDone <=> tfrDone /\ ~dmaDone
      /\ dmaDone => Pending /\ ~dma.on
  BY DEF IInv, ChannelInv, Pending
<1> QED BY <1>1, <1>2, HandlerStep

(* ... or by the interrupt, which finds it set.                             *)
LEMMA DmaInterruptStep ==
  ASSUME NoWrap, IInv, DmaInterrupt PROVE IInv'
<1>1. /\ Handler(TRUE, FALSE) /\ tfrDone /\ dmaDone = FALSE /\ pc' = pc
      /\ dmaDone' = FALSE
      /\ UNCHANGED <<epEnabled, psize, reqs, rxBufPtr, rxBufSize, playbackSize,
                     rxedSize, cur, streams>>
  BY DEF IInv, TypeOK, ChannelInv, DmaInterrupt
<1>2. Pending /\ ~dma.on
  BY <1>1 DEF IInv, ChannelInv, Pending
<1> QED BY <1>1, <1>2, HandlerStep

(* A finished transfer becomes a pending interrupt.                         *)
LEMMA DmaCompleteStep ==
  ASSUME IInv, DmaComplete PROVE IInv'
<1>1. dma.on /\ dma' = Idle /\ ~dma'.on /\ tfrDone' = TRUE
  BY DEF DmaComplete, Idle
<1>2. Idle \in Transfers
  BY SizesAssumption DEF Idle, Transfers
<1>3. TypeOK'
  BY <1>1, <1>2 DEF IInv, TypeOK, DmaComplete, aoStat, history
<1>4. Geometry' /\ RequestsInv' /\ CounterInv'
  BY DEF IInv, Geometry, RequestsInv, CounterInv, DmaComplete, aoStat, history
<1>5. ChannelInv'
  BY <1>1 DEF IInv, ChannelInv, Pending, DmaComplete, aoStat
<1> QED BY <1>3, <1>4, <1>5 DEF IInv

(* After the test no waiting playback has data left.                        *)
LEMMA RescheduleStep ==
  ASSUME IInv, Reschedule PROVE IInv'
<1>1. rxedSize \in Int /\ txedSize \in Int
  BY DEF IInv, TypeOK
<1>2. TypeOK'
  BY DEF IInv, TypeOK, Reschedule, channel, history, SchedVals, Pcs
<1>3. Geometry' /\ RequestsInv'
  BY DEF IInv, Geometry, RequestsInv, Reschedule
<1>4. ChannelInv'
  BY DEF IInv, TypeOK, ChannelInv, Pending, Reschedule, channel, ByUac2, IrqTrig,
     WaitData
<1>5. CounterInv'
  BY <1>1 DEF IInv, TypeOK, ChannelInv, CounterInv, Reschedule, history, ByUac2,
     IrqTrig, WaitData, SchedVals
<1> QED BY <1>2, <1>3, <1>4, <1>5 DEF IInv

(* The packet is taken if that leaves the backlog below the ring, and taken *)
(* back otherwise.                                                          *)
LEMMA TakeOrDropStep ==
  ASSUME NoWrap, IInv, TakeOrDrop PROVE IInv'
<1>1. /\ psize \in Nat \ {0} /\ playbackSize \in Nat \ {0} /\ psize <= playbackSize
      /\ rxBufSize \in Nat \ {0} /\ rxBufSize <= BufSize /\ UsbXfers \in Nat
      /\ rxedSize \in 0 .. CounterMod - 1 /\ txedSize \in Nat /\ fill \in Int
      /\ CounterMod \in Nat \ {0} /\ MaxBytes \in Nat
  BY Sizes, SizesAssumption DEF IInv, TypeOK, TakeOrDrop
<1>2. HasRoom <=> rxedSize < txedSize + 2 * playbackSize
  BY Sums DEF IInv, HasRoom
<1>3. PtrAfter(rxBufPtr, psize, rxBufSize) \in 0 .. BufSize
  <2>1. rxBufPtr \in Nat
    BY SizesAssumption DEF IInv, TypeOK
  <2> QED BY <1>1, <2>1, PtrInRing
<1>4. ~HasRoom => /\ rxedSize - psize \in 0 .. CounterMod - 1
                 /\ Sub32(rxedSize, psize) = rxedSize - psize
  <2>1. ~HasRoom => rxedSize - psize \in 0 .. CounterMod - 1
    BY <1>1, <1>2
  <2> QED BY <1>1, <2>1, ModSmall DEF Sub32
<1>5. /\ pc = "room" /\ pc' = "idle"
      /\ UNCHANGED <<epEnabled, psize, rxBufSize, playbackSize, playbackPtr, sched,
                     txedSize, cur, dmaDone, dma, tfrDone, stale, streams, slip>>
  BY DEF TakeOrDrop, channel
<1>6. \/ /\ HasRoom /\ rxedSize' = rxedSize /\ fill' = fill
         /\ rxBufPtr' = PtrAfter(rxBufPtr, psize, rxBufSize)
      \/ /\ ~HasRoom /\ rxedSize' = rxedSize - psize /\ fill' = fill - psize
         /\ rxBufPtr' = rxBufPtr
  BY <1>4 DEF TakeOrDrop
<1>7. reqs' \in Seq(0 .. BufSize) /\ Len(reqs') <= UsbXfers
  <2>1. /\ reqs \in Seq(0 .. BufSize) /\ Len(reqs) < UsbXfers
        /\ rxBufPtr \in 0 .. BufSize /\ cur \in 0 .. BufSize
    BY <1>5 DEF IInv, TypeOK, RequestsInv
  <2>2. reqs' = Append(reqs, rxBufPtr) \/ reqs' = Append(reqs, cur)
    BY DEF TakeOrDrop
  <2>3. \A p \in 0 .. BufSize : /\ Append(reqs, p) \in Seq(0 .. BufSize)
                                /\ Len(Append(reqs, p)) = Len(reqs) + 1
    BY <2>1, AppendProperties
  <2>4. /\ reqs' \in Seq(0 .. BufSize) /\ Len(reqs') = Len(reqs) + 1
        /\ Len(reqs) \in Nat
    <3>1. Len(reqs) \in Nat
      BY <2>1
    <3> QED BY <2>1, <2>2, <2>3, <3>1, Zenon
  <2> QED BY <1>1, <2>1, <2>4
<1>8. TypeOK'
  <2>1. rxBufPtr \in 0 .. BufSize
    BY DEF IInv, TypeOK
  <2>2. CASE HasRoom
    <3>1. /\ rxedSize' = rxedSize /\ fill' = fill
          /\ rxBufPtr' = PtrAfter(rxBufPtr, psize, rxBufSize)
      BY <1>6, <2>2, Zenon
    <3>2. rxedSize' \in 0 .. CounterMod - 1 /\ fill' \in Int
      BY <1>1, <3>1
    <3>3. rxBufPtr' \in 0 .. BufSize
      BY <1>3, <3>1, Zenon
    <3> QED BY <1>5, <1>7, <3>2, <3>3 DEF IInv, TypeOK, Pcs
  <2>3. CASE ~HasRoom
    <3>1. rxedSize' = rxedSize - psize /\ fill' = fill - psize /\ rxBufPtr' = rxBufPtr
      BY <1>6, <2>3, Zenon
    <3>2. rxedSize' \in 0 .. CounterMod - 1
      BY <1>4, <2>3, <3>1, Zenon
    <3>3. fill' \in Int
      BY <1>1, <3>1
    <3>4. rxBufPtr' \in 0 .. BufSize
      BY <2>1, <3>1, Zenon
    <3> QED BY <1>5, <1>7, <3>2, <3>3, <3>4 DEF IInv, TypeOK, Pcs
  <2> QED BY <2>2, <2>3
<1>9. Geometry' /\ RequestsInv'
  BY <1>5 DEF IInv, Geometry, RequestsInv
<1>10. ChannelInv'
  BY <1>5 DEF IInv, ChannelInv, Pending
<1>11. CounterInv'
  BY <1>1, <1>2, <1>5, <1>6 DEF IInv, CounterInv, ByUac2, IrqTrig, WaitData
<1> QED BY <1>8, <1>9, <1>10, <1>11 DEF IInv

-----------------------------------------------------------------------------
(* Every step preserves the invariant.                                      *)
LEMMA StepInv ==
  ASSUME NoWrap, IInv, [Next]_vars PROVE IInv'
<1>1. CASE StopStream
  BY <1>1, StopStreamStep
<1>2. CASE \E m \in Psizes : SetAltClear(m)
  BY <1>2, SetAltClearStep
<1>3. CASE SetAltSetup
  BY <1>3, SetAltSetupStep
<1>4. CASE PacketArrives
  BY <1>4, PacketArrivesStep
<1>5. CASE IsoComplete
  BY <1>5, CheckSchedStep, CallHandlerStep, RescheduleStep, TakeOrDropStep
     DEF IsoComplete
<1>6. CASE DmaInterrupt
  BY <1>6, DmaInterruptStep
<1>7. CASE DmaComplete
  BY <1>7, DmaCompleteStep
<1>8. CASE UNCHANGED vars
  BY <1>8 DEF vars, aoStat, channel, history, IInv, TypeOK, Geometry, RequestsInv,
     ChannelInv, Pending, CounterInv
<1> QED BY <1>1, <1>2, <1>3, <1>4, <1>5, <1>6, <1>7, <1>8 DEF Next

(* The invariant holds in every reachable state.                            *)
THEOREM Invariance ==
  ASSUME NoWrap PROVE Spec => []IInv
<1>1. Init => IInv
  BY InitInv
<1>2. IInv /\ [Next]_vars => IInv'
  BY StepInv
<1> QED BY <1>1, <1>2, PTL DEF Spec

(* Positions, requests and counters keep their ranges.                      *)
THEOREM TypeCorrect ==
  ASSUME NoWrap PROVE Spec => []TypeOK
<1>1. IInv => TypeOK
  BY DEF IInv
<1> QED BY <1>1, Invariance, PTL

(* afunc_set_alt, agdev_iso_complete and the DMA interrupt never leave the  *)
(* scheduler waiting for an interrupt that cannot come.                     *)
THEOREM WakeupsKept ==
  ASSUME NoWrap PROVE Spec => []WakeupNotLost
<1>1. IInv => WakeupNotLost
  BY DEF IInv, ChannelInv, WakeupNotLost
<1> QED BY <1>1, Invariance, PTL

(* Playback waits for the host only with nothing left to play.              *)
THEOREM WaitsOnlyDry ==
  ASSUME NoWrap PROVE Spec => []WaitOnlyWhenDry
<1>1. IInv => WaitOnlyWhenDry
  BY DEF IInv, TypeOK, CounterInv, WaitOnlyWhenDry
<1> QED BY <1>1, Invariance, PTL

(* The overrun test keeps the backlog within the ring, and the half that is *)
(* played ahead of the host within a half.                                  *)
THEOREM BacklogStaysBounded ==
  ASSUME NoWrap PROVE Spec => []BacklogBounded
<1>1. IInv => BacklogBounded
  <2> SUFFICES ASSUME IInv, pc = "idle", ~slip
               PROVE  fill < rxBufSize /\ fill > -playbackSize
    BY DEF BacklogBounded
  <2>1. /\ playbackSize \in Nat /\ rxBufSize \in Nat /\ 2 * playbackSize <= rxBufSize
        /\ rxedSize \in Int /\ txedSize \in Int
    BY Sizes DEF IInv, TypeOK
  <2>2. /\ fill = rxedSize - txedSize /\ rxedSize < txedSize + 2 * playbackSize
        /\ txedSize < rxedSize + playbackSize
    BY DEF IInv, CounterInv
  <2> QED BY <2>1, <2>2
<1> QED BY <1>1, Invariance, PTL

(* i2s_xfer_tx_async never finds the channel busy with a half of the same   *)
(* stream.                                                                  *)
THEOREM HalvesPlayToTheEnd ==
  ASSUME NoWrap PROVE Spec => NoHalfCutShort
<1>1. IInv /\ [Next]_vars => [dma.on /\ dma'.on => dma' = dma \/ stale]_vars
  <2> SUFFICES ASSUME IInv, Next, dma.on, dma' # dma, ~stale PROVE ~dma'.on
    OBVIOUS
  <2>1. CASE StopStream \/ (\E m \in Psizes : SetAltClear(m)) \/ SetAltSetup
             \/ PacketArrives
    BY <2>1 DEF StopStream, SetAltClear, SetAltSetup, PacketArrives, channel
  <2>2. CASE CheckSched \/ Reschedule \/ TakeOrDrop
    BY <2>2 DEF CheckSched, Reschedule, TakeOrDrop, channel
  <2>3. CASE CallHandler
    <3>1. ~dmaDone /\ sched # ByUac2
      BY <2>3 DEF IInv, ChannelInv, Pending, CallHandler
    <3> QED BY <2>3, <3>1 DEF CallHandler, Handler
  <2>4. CASE DmaInterrupt
    BY <2>4 DEF IInv, ChannelInv, DmaInterrupt
  <2>5. CASE DmaComplete
    BY <2>5 DEF DmaComplete, Idle
  <2> QED BY <2>1, <2>2, <2>3, <2>4, <2>5 DEF Next, IsoComplete
<1> QED BY <1>1, Invariance, PTL DEF Spec, NoHalfCutShort

-----------------------------------------------------------------------------
(* Refinement of PlayoutBuffer.                                             *)

(* Two halves make up the ring: true whenever USB_XFERS is even.            *)
EvenRings == \A m \in Psizes : 2 * PlaybackSizeOf(m) = RxBufSizeOf(m)

(* The mapped variables.                                                    *)
Playing == Pending /\ ~stale

(* The sizes the refinement mapping hands to PlayoutBuffer.                 *)
LEMMA MappedSizes ==
  ASSUME EvenRings, TypeOK, Geometry, pc # "init"
  PROVE  /\ Playout!Capacity = 2 * playbackSize /\ Playout!Half = playbackSize
         /\ playbackSize \in Nat /\ psize \in Nat
         /\ rxedSize \in Int /\ txedSize \in Int /\ fill \in Int
<1>1. psize \in Psizes /\ playbackSize \in Nat /\ psize \in Nat
  BY Sizes DEF TypeOK
<1>2. rxBufSize = RxBufSizeOf(psize) /\ playbackSize = PlaybackSizeOf(psize)
  BY DEF Geometry
<1>3. 2 * playbackSize = RxBufSizeOf(psize)
  BY <1>1, <1>2 DEF EvenRings
<1>4. Playout!Capacity = 2 * playbackSize
  BY <1>3 DEF Playout!Capacity
<1>5. Playout!Half = playbackSize
  BY <1>2 DEF Playout!Half, Playout!Capacity, PlaybackSizeOf, I2sTxBufCnt
<1> QED BY <1>1, <1>4, <1>5 DEF TypeOK

(* The handler plays the next half, finishes one, or does nothing that the  *)
(* abstract playout can see.                                                *)
LEMMA HandlerRefines ==
  ASSUME NoWrap, EvenRings, IInv, NEW done \in BOOLEAN, NEW left \in BOOLEAN,
         Handler(done, left), left <=> tfrDone /\ ~done,
         done => Pending /\ ~dma.on, dmaDone => done, dmaDone' = FALSE,
         UNCHANGED <<epEnabled, psize, rxedSize>>,
         done \/ pc = "handler"
  PROVE  slip' \/ Playout!Next \/ UNCHANGED Playout!playoutVars
<1>1. HandlerIgnores(done, left) \/ HandlerWaits(done, left) \/ HandlerStarts(done)
  BY HandlerCases DEF IInv
<1>2. CASE HandlerIgnores(done, left)
  <2>1. UNCHANGED <<epEnabled, psize, fill, stale>> /\ (Pending' <=> Pending)
    BY <1>2 DEF HandlerIgnores, Pending
  <2> QED BY <2>1 DEF Playout!playoutVars, Pending
<1>3. CASE (HandlerWaits(done, left) \/ HandlerStarts(done)) /\ done /\ stale
  BY <1>3 DEF HandlerWaits, HandlerStarts, HandlerCounts
<1>4. CASE (HandlerWaits(done, left) \/ HandlerStarts(done)) /\ done /\ ~stale /\ ~slip
  <2>1. Playing /\ pc # "init"
    BY <1>4 DEF IInv, ChannelInv, Playing
  <2>2. /\ Playout!Half = playbackSize /\ playbackSize \in Nat
        /\ rxedSize \in Int /\ txedSize \in Int /\ fill \in Int
    BY <2>1, MappedSizes DEF IInv
  <2>3. /\ fill = rxedSize - txedSize
        /\ fill' = fill - playbackSize /\ txedSize' = txedSize + playbackSize
    BY <1>4, <2>1 DEF IInv, CounterInv, HandlerWaits, HandlerStarts, HandlerCounts
  <2>4. Playing' \in {FALSE, fill' > 0}
    <3>1. CASE HandlerWaits(done, left)
      BY <1>4, <3>1 DEF HandlerWaits, Playing, Pending
    <3>2. CASE HandlerStarts(done)
      <4>1. Playing' = TRUE
        BY <3>2 DEF HandlerStarts, Playing, Pending
      <4>2. fill' > 0
        BY <2>2, <2>3, <3>2 DEF HandlerStarts
      <4> QED BY <4>1, <4>2
    <3> QED BY <1>4, <3>1, <3>2
  <2>5. Playout!Finish
    BY <2>1, <2>2, <2>3, <2>4 DEF Playout!Finish, Playing, Pending
  <2> QED BY <2>5 DEF Playout!Next
<1>5. CASE HandlerWaits(done, left) /\ ~done
  BY <1>5 DEF IInv, TypeOK, CounterInv, HandlerWaits, HandlerCounts
<1>6. CASE HandlerStarts(done) /\ ~done /\ ~slip
  <2>1. pc = "handler" /\ sched = ByUac2
    BY <1>6 DEF HandlerStarts, HandlerCounts
  <2>2. ~Playing
    BY <2>1 DEF IInv, ChannelInv, Playing
  <2>3. Playing'
    BY <1>6 DEF HandlerStarts, Playing, Pending
  <2>4. fill > 0 /\ fill' = fill
    BY <1>6, <2>1 DEF IInv, TypeOK, CounterInv, HandlerStarts, HandlerCounts
  <2>5. Playout!Play
    BY <2>2, <2>3, <2>4 DEF Playout!Play, Playing, Pending
  <2> QED BY <2>5 DEF Playout!Next
<1>7. slip => slip'
  BY <1>1 DEF HandlerIgnores, HandlerWaits, HandlerStarts, HandlerCounts, IInv, TypeOK
<1> QED BY <1>1, <1>2, <1>3, <1>4, <1>5, <1>6, <1>7

(* Every step is a step of the playout, or one it does not see.             *)
LEMMA StepRefines ==
  ASSUME NoWrap, EvenRings, IInv, [Next]_vars
  PROVE  slip' \/ Playout!Next \/ UNCHANGED Playout!playoutVars
<1>1. CASE StopStream
  <2>1. /\ epEnabled /\ epEnabled' = FALSE /\ UNCHANGED <<psize, fill, stale>>
        /\ UNCHANGED <<dma, tfrDone, dmaDone>>
    BY <1>1 DEF StopStream, channel, history
  <2>2. Playout!Close
    BY <2>1 DEF Playout!Close
  <2> QED BY <2>2 DEF Playout!Next
<1>2. CASE \E m \in Psizes : SetAltClear(m)
  <2>1. PICK m \in Psizes : SetAltClear(m)
    BY <1>2
  <2>2. /\ epEnabled' = TRUE /\ psize' = m /\ fill' = 0 /\ stale' = (dma.on \/ tfrDone)
        /\ UNCHANGED <<dma, tfrDone, dmaDone>> /\ ~dmaDone
    BY <2>1 DEF IInv, ChannelInv, SetAltClear
  <2>3. Playout!Open
    BY <2>2 DEF Playout!Open
  <2> QED BY <2>3 DEF Playout!Next
<1>3. CASE SetAltSetup
  BY <1>3 DEF SetAltSetup, channel, Playout!playoutVars
<1>4. CASE PacketArrives /\ ~slip
  <2>1. /\ epEnabled /\ pc = "idle" /\ fill' = fill + psize
        /\ UNCHANGED <<epEnabled, psize, dma, tfrDone, dmaDone, stale>>
    BY <1>4 DEF PacketArrives, channel
  <2>2. /\ Playout!Capacity = 2 * playbackSize /\ playbackSize \in Nat
        /\ rxedSize \in Int /\ txedSize \in Int /\ fill \in Int
    BY <2>1, MappedSizes DEF IInv
  <2>3. fill < Playout!Capacity
    BY <1>4, <2>1, <2>2 DEF IInv, CounterInv
  <2>4. Playout!Receive
    BY <2>1, <2>3 DEF Playout!Receive
  <2> QED BY <2>4 DEF Playout!Next
<1>5. CASE CheckSched
  BY <1>5 DEF IInv, TypeOK, ChannelInv, CheckSched, history, Playout!playoutVars
<1>6. CASE CallHandler
  <2>1. /\ dmaDone \in BOOLEAN /\ tfrDone \in BOOLEAN /\ Handler(dmaDone, tfrDone)
        /\ dmaDone' = FALSE /\ pc = "handler" /\ UNCHANGED <<epEnabled, psize, rxedSize>>
    BY <1>6 DEF IInv, TypeOK, CallHandler
  <2>2. (tfrDone <=> tfrDone /\ ~dmaDone) /\ (dmaDone => Pending /\ ~dma.on)
    BY DEF IInv, ChannelInv, Pending
  <2> QED BY <2>1, <2>2, HandlerRefines
<1>7. CASE DmaInterrupt
  <2>1. /\ Handler(TRUE, FALSE) /\ tfrDone /\ dmaDone = FALSE /\ dmaDone' = FALSE
        /\ UNCHANGED <<epEnabled, psize, rxedSize>>
    BY <1>7 DEF IInv, TypeOK, ChannelInv, DmaInterrupt
  <2>2. Pending /\ ~dma.on
    BY <2>1 DEF IInv, ChannelInv, Pending
  <2> QED BY <2>1, <2>2, HandlerRefines
<1>8. CASE Reschedule
  BY <1>8 DEF Reschedule, channel, history, Playout!playoutVars
<1>9. CASE TakeOrDrop /\ HasRoom
  BY <1>9 DEF TakeOrDrop, channel, Playout!playoutVars
<1>10. CASE TakeOrDrop /\ ~HasRoom /\ ~slip
  <2>1. /\ pc = "room" /\ fill' = fill - psize
        /\ UNCHANGED <<epEnabled, psize, dma, tfrDone, dmaDone, stale>>
    BY <1>10 DEF TakeOrDrop, channel
  <2>2. /\ Playout!Capacity = 2 * playbackSize /\ playbackSize \in Nat
        /\ rxedSize \in Int /\ txedSize \in Int /\ fill \in Int
    BY <2>1, MappedSizes DEF IInv
  <2>3. fill >= Playout!Capacity
    <3>1. ~(rxedSize < txedSize + 2 * playbackSize)
      BY <1>10, Sums DEF IInv, HasRoom
    <3>2. fill = rxedSize - txedSize
      BY <1>10, <2>1 DEF IInv, CounterInv
    <3> QED BY <2>2, <3>1, <3>2
  <2>4. epEnabled = TRUE
    BY <2>1 DEF IInv, RequestsInv
  <2>5. Playout!Drop
    BY <2>1, <2>3, <2>4 DEF Playout!Drop
  <2> QED BY <2>5 DEF Playout!Next
<1>11. CASE DmaComplete
  BY <1>11 DEF DmaComplete, Idle, history, aoStat, Playout!playoutVars
<1>12. CASE UNCHANGED vars
  BY <1>12 DEF vars, channel, history, Playout!playoutVars
<1>13. (PacketArrives \/ TakeOrDrop) /\ slip => slip'
  BY DEF PacketArrives, TakeOrDrop, IInv, TypeOK
<1> QED BY <1>1, <1>2, <1>3, <1>4, <1>5, <1>6, <1>7, <1>8, <1>9, <1>10, <1>11, <1>12,
           <1>13 DEF Next, IsoComplete

(* The interrupt-driven ring implements the abstract playout: every byte    *)
(* that joins the backlog is played once, in halves, and a packet is        *)
(* dropped only when the backlog fills the ring.                            *)
THEOREM PlayoutImplemented ==
  ASSUME NoWrap, EvenRings PROVE Spec => ImplementsPlayout
<1>1. Init => Playout!Init
  BY DEF Init, Playout!Init, Idle
<1>2. IInv /\ [Next]_vars => [slip' \/ Playout!Next]_(Playout!playoutVars)
  BY StepRefines
<1> QED BY <1>1, <1>2, Invariance, PTL DEF Spec, ImplementsPlayout

-----------------------------------------------------------------------------
(* The queue of requests.                                                   *)

(* Quotient and remainder.                                                  *)
LEMMA DivMod ==
  ASSUME NEW a \in Int, NEW b \in Nat \ {0}, NEW q \in Int, NEW r \in 0 .. b - 1, a = b * q + r
  PROVE  a % b = r
<1> DEFINE x == q - (a \div b)
           e == a % b
<1>1. e \in 0 .. b - 1 /\ a = b * (a \div b) + e /\ a \div b \in Int
  OBVIOUS
<1>2. x \in Int /\ b * x = e - r
  BY <1>1
<1> HIDE DEF x, e
<1>3. ~(x >= 1)
  <2> SUFFICES ASSUME x >= 1 PROVE FALSE
    OBVIOUS
  <2>1. b * x >= b
    BY <1>2
  <2> QED BY <1>1, <1>2, <2>1
<1>4. ~(x <= -1)
  <2> SUFFICES ASSUME x <= -1 PROVE FALSE
    OBVIOUS
  <2>1. b * x <= -b
    BY <1>2
  <2> QED BY <1>1, <1>2, <2>1
<1>5. x = 0
  BY <1>2, <1>3, <1>4
<1>6. e = r
  BY <1>1, <1>2, <1>5
<1> QED BY <1>6 DEF e

(* A multiple leaves no remainder ...                                       *)
LEMMA MultipleOf ==
  ASSUME NEW a \in Int, NEW b \in Nat \ {0}, NEW q \in Int, a = b * q
  PROVE  a % b = 0
<1>1. 0 \in 0 .. b - 1 /\ a = b * q + 0
  OBVIOUS
<1> QED BY <1>1, DivMod

(* ... and is a product.                                                    *)
LEMMA Divides ==
  ASSUME NEW a \in Nat, NEW b \in Nat \ {0}, a % b = 0
  PROVE  \E q \in Nat : a = b * q
<1>1. a \div b \in Nat /\ a = b * (a \div b) + (a % b)
  OBVIOUS
<1>2. a = b * (a \div b)
  BY <1>1
<1> QED BY <1>1, <1>2

(* The packet sizes of the settings, at the rates the device offers (12 to  *)
(* 64 kHz), are 48 to 256 bytes and multiples of the 16 bytes the pointer   *)
(* is rounded to.                                                           *)
AlignedPackets == \A m \in Psizes : m % Align = 0

(* n packets on, in a ring of s packets.                                    *)
SlotsOn(m, s, k, n) ==
  PtrAfter(k * m, n * m, m * s) = IF k + n < s THEN (k + n) * m ELSE (k + n - s) * m

(* Multiples of the packet size are left alone by the rounding.             *)
LEMMA NextSlot ==
  ASSUME NEW m \in Nat \ {0}, NEW s \in Nat \ {0}, NEW k \in Nat, NEW n \in Nat,
         Align \in Nat \ {0}, m % Align = 0, k + n < 2 * s
  PROVE  SlotsOn(m, s, k, n)
<1>1. PICK z \in Nat : m = Align * z
  BY Divides
<1> DEFINE j == IF k + n < s THEN k + n ELSE k + n - s
           next == (k * m + n * m) % (m * s)
<1>2. j \in Nat /\ j < s /\ \E q \in Int : k + n = s * q + j
  <2>1. CASE k + n < s
    <3>1. k + n = s * 0 + j
      BY <2>1
    <3> QED BY <2>1, <3>1
  <2>2. CASE ~(k + n < s)
    <3>1. k + n = s * 1 + j
      BY <2>2
    <3> QED BY <2>2, <3>1
  <2> QED BY <2>1, <2>2
<1>3. PICK q \in Int : k + n = s * q + j
  BY <1>2
<1> HIDE DEF j
<1>4. k * m + n * m = (m * s) * q + j * m
  <2>1. (k + n) * m = (s * q + j) * m
    BY <1>3
  <2> QED BY <1>2, <2>1
<1>5. m * s \in Nat \ {0} /\ j * m \in 0 .. m * s - 1
  <2>1. j * m <= (s - 1) * m
    BY <1>2
  <2>2. (s - 1) * m = m * s - m
    OBVIOUS
  <2>3. j * m \in Nat /\ m * s \in Nat
    BY <1>2
  <2>4. m * s > 0
    BY <2>1, <2>2, <2>3
  <2> QED BY <2>1, <2>2, <2>3, <2>4
<1>6. next = j * m
  <2>1. k * m + n * m \in Int
    OBVIOUS
  <2> QED BY <1>4, <1>5, <2>1, DivMod
<1>7. (j * m) % Align = 0
  <2>1. j * m = Align * (z * j) /\ z * j \in Int /\ j * m \in Int
    BY <1>1, <1>2
  <2> QED BY <2>1, MultipleOf
<1>8. PtrAfter(k * m, n * m, m * s) = next - (next % Align)
  BY DEF PtrAfter
<1>9. PtrAfter(k * m, n * m, m * s) = j * m
  BY <1>2, <1>6, <1>7, <1>8
<1> QED BY <1>9 DEF j, SlotsOn

(* Two rounds of requests fit the ring: of packets of 256 bytes,            *)
(* UAC2_RX_BUF_SIZE holds 1536 rounds.                                      *)
TwoRounds == \A m \in Psizes : 2 * (m * UsbXfers) <= BufSize

(* The ring counted in packets.                                             *)
Slots == (BufSize \div (psize * UsbXfers)) * UsbXfers

Slotted(p) == \E k \in 0 .. Slots - 1 : p = k * psize

(* A buffer handed out d packets before the next one.                       *)
Behind(p, d) == p + d * psize \in {rxBufPtr, rxBufPtr + rxBufSize}

(* The packets that have been taken, in bytes.                              *)
Got == rxedSize - (IF pc = "idle" THEN 0 ELSE psize)

(* What the overrun test will find left for the next packet.                *)
Room == txedSize + 2 * playbackSize - Got - psize

(* The buffer the i-th packet from now is received in.                      *)
Buf(i) == IF pc = "idle" THEN reqs[i] ELSE IF i = 1 THEN cur ELSE reqs[i - 1]

(* It has been dropped into and put at the end of the queue only while the  *)
(* ring was full.  Then a half was played, which is room for a whole round  *)
(* of requests: it will be taken the next time.                             *)
Old(i, d) == \/ d <= UsbXfers - i + 1
             \/ d <= UsbXfers /\ Room <= 0
             \/ d <= 2 * UsbXfers - i /\ Room > (i - 1) * psize

(* So a buffer is handed out again less than two rounds later.              *)
Ages == 1 .. 2 * UsbXfers - 1

(* The queue: the buffers of the requests, the one being completed first,   *)
(* are different packets of the ring, and the ring moves by whole packets   *)
(* on the side of the host and by whole halves on the side of the speaker.  *)
QueueInv ==
  /\ pc # "init" => Slotted(rxBufPtr)
  /\ ~epEnabled => reqs = <<>> /\ pc # "init"
  /\ epEnabled /\ pc # "init" =>
       /\ Len(reqs) = IF pc = "idle" THEN UsbXfers ELSE UsbXfers - 1
       /\ \A i \in 1 .. UsbXfers :
            Slotted(Buf(i)) /\ \E d \in Ages : Behind(Buf(i), d) /\ Old(i, d)
       /\ \A i, j \in 1 .. UsbXfers : i # j => Buf(i) # Buf(j)
       /\ \E a, q \in Nat : Got = a * psize /\ (a + UsbXfers) * psize = rxBufPtr + q * rxBufSize
       /\ \E b \in Nat : txedSize = b * playbackSize

-----------------------------------------------------------------------------
(* A ring is a whole number of packets, two rounds at least.                *)
LEMMA RingSlots ==
  ASSUME TwoRounds, NEW m \in Psizes
  PROVE  LET s == (BufSize \div (m * UsbXfers)) * UsbXfers
         IN  /\ m \in Nat \ {0} /\ UsbXfers \in Nat \ {0, 1} /\ s \in Nat /\ 2 * UsbXfers <= s
             /\ RxBufSizeOf(m) = m * s /\ UsbXfers * m <= PlaybackSizeOf(m)
             /\ PlaybackSizeOf(m) \in Nat /\ 2 * PlaybackSizeOf(m) <= RxBufSizeOf(m)
             /\ m * s > 0
<1> DEFINE n == UsbXfers
           x == m * n
           r == BufSize \div x
           s == r * n
<1>1. m \in Nat \ {0} /\ n \in Nat \ {0, 1} /\ BufSize \in Nat
  BY SizesAssumption
<1>2. x \in Nat \ {0} /\ 2 * x <= BufSize
  <2>1. x \in Nat /\ x >= m
    BY <1>1
  <2>2. 2 * x <= BufSize
    BY DEF TwoRounds
  <2> QED BY <1>1, <2>1, <2>2
<1>3. r \in Nat /\ r >= 2
  BY <1>1, <1>2
<1>4. s \in Nat /\ 2 * n <= s
  BY <1>1, <1>3
<1>5. RxBufSizeOf(m) = m * s
  <2>1. RxBufSizeOf(m) = r * (m * n)
    BY DEF RxBufSizeOf
  <2>2. r * (m * n) = m * (r * n)
    BY <1>1, <1>3
  <2> QED BY <2>1, <2>2
<1>6. m * s \in Nat /\ 2 * (n * m) <= m * s
  <2>1. (2 * n) * m <= s * m
    BY <1>1, <1>4
  <2> QED BY <1>1, <1>4, <2>1
<1>7. PlaybackSizeOf(m) = (m * s) \div 2
  BY <1>5 DEF PlaybackSizeOf, I2sTxBufCnt
<1>8. n * m \in Nat /\ n * m > 0
  BY <1>1, <1>2
<1> HIDE DEF s
<1>9. /\ n * m <= (m * s) \div 2 /\ (m * s) \div 2 \in Nat
      /\ 2 * ((m * s) \div 2) <= m * s
  BY <1>6, <1>8
<1> QED BY <1>1, <1>4, <1>5, <1>6, <1>7, <1>8, <1>9 DEF s

(* The same in a reachable state.                                           *)
LEMMA Slotting ==
  ASSUME TwoRounds, TypeOK, Geometry, pc # "init"
  PROVE  /\ psize \in Nat \ {0} /\ UsbXfers \in Nat \ {0, 1} /\ Slots \in Nat
         /\ 2 * UsbXfers <= Slots /\ rxBufSize = psize * Slots
         /\ UsbXfers * psize <= playbackSize /\ playbackSize \in Nat
         /\ 2 * playbackSize <= rxBufSize /\ psize * Slots > 0
         /\ rxedSize \in Nat /\ txedSize \in Nat /\ fill \in Int /\ Slots \in Nat \ {0}
<1>1. psize \in Psizes /\ rxBufSize = RxBufSizeOf(psize) /\ playbackSize = PlaybackSizeOf(psize)
  BY DEF TypeOK, Geometry
<1>2. rxedSize \in Nat /\ txedSize \in Nat /\ fill \in Int
  BY SizesAssumption DEF TypeOK
<1>3. /\ psize \in Nat \ {0} /\ UsbXfers \in Nat \ {0, 1} /\ Slots \in Nat
      /\ 2 * UsbXfers <= Slots /\ rxBufSize = psize * Slots
      /\ UsbXfers * psize <= playbackSize /\ playbackSize \in Nat
      /\ 2 * playbackSize <= rxBufSize /\ psize * Slots > 0
  BY <1>1, RingSlots DEF Slots
<1> QED BY <1>2, <1>3

Aged(m, s, n, k, next) ==
  /\ \E l \in 0 .. s - 1 : next = l * m
  /\ next \in {k * m + m, k * m + m - m * s}
  /\ \A j \in 0 .. s - 1, d \in 1 .. 2 * n - 1 :
       j * m + d * m \in {k * m, k * m + m * s} =>
         /\ j # k
         /\ j * m # k * m
         /\ j * m + (d + 1) * m \in {next, next + m * s}

(* The next buffer: every other one is a packet older than it was.          *)
LEMMA Ageing ==
  ASSUME NEW m \in Nat \ {0}, NEW s \in Nat \ {0}, NEW n \in Nat \ {0, 1}, 2 * n <= s,
         Align \in Nat \ {0}, m % Align = 0, NEW k \in 0 .. s - 1,
         NEW next, next = PtrAfter(k * m, m, m * s)
  PROVE  Aged(m, s, n, k, next)
<1> DEFINE l == IF k + 1 < s THEN k + 1 ELSE 0
<1>1. next = l * m
  <2>1. PtrAfter(k * m, m, m * s) = IF k + 1 < s THEN (k + 1) * m ELSE (k + 1 - s) * m
    <3>1. k \in Nat /\ 1 \in Nat /\ k + 1 < 2 * s /\ m = 1 * m
      OBVIOUS
    <3>2. SlotsOn(m, s, k, 1)
      BY <3>1, NextSlot
    <3> QED BY <3>1, <3>2 DEF SlotsOn
  <2>2. 1 * m = m
    OBVIOUS
  <2>3. ~(k + 1 < s) => k + 1 - s = 0
    OBVIOUS
  <2> QED BY <2>1, <2>2, <2>3
<1>2. l \in 0 .. s - 1
  OBVIOUS
<1>3. next \in {k * m + m, k * m + m - m * s}
  <2>1. CASE k + 1 < s
    <3>1. (k + 1) * m = k * m + m
      OBVIOUS
    <3> QED BY <1>1, <2>1, <3>1
  <2>2. CASE ~(k + 1 < s)
    <3>1. k = s - 1
      BY <2>2
    <3>2. k * m = m * s - m
      BY <3>1
    <3> QED BY <1>1, <2>2, <3>2
  <2> QED BY <2>1, <2>2
<1>4. ASSUME NEW j \in 0 .. s - 1, NEW d \in 1 .. 2 * n - 1,
             j * m + d * m \in {k * m, k * m + m * s}
      PROVE  j # k /\ j * m # k * m /\ j * m + (d + 1) * m \in {next, next + m * s}
  <2>1. j + d = k \/ j + d = k + s
    <3>1. (j + d) * m = k * m \/ (j + d) * m = (k + s) * m
      BY <1>4
    <3>2. \A x, y \in Nat : x * m = y * m => x = y
      <4> SUFFICES ASSUME NEW x \in Nat, NEW y \in Nat, x * m = y * m, x < y PROVE FALSE
        OBVIOUS
      <4>1. (x + 1) * m <= y * m
        OBVIOUS
      <4> QED BY <4>1
    <3> QED BY <3>1, <3>2
  <2>2. j # k
    BY <2>1
  <2>3. j + (d + 1) = l \/ j + (d + 1) = l + s
    BY <2>1
  <2>4. j * m + (d + 1) * m = l * m \/ j * m + (d + 1) * m = (l + s) * m
    <3>1. j * m + (d + 1) * m = (j + (d + 1)) * m
      OBVIOUS
    <3> HIDE DEF l
    <3> QED BY <2>3, <3>1
  <2>5. (l + s) * m = l * m + m * s
    BY <1>2
  <2>6. j * m # k * m
    <3>1. j < k \/ k < j
      BY <2>2
    <3>2. j < k => (j + 1) * m <= k * m
      OBVIOUS
    <3>3. k < j => (k + 1) * m <= j * m
      OBVIOUS
    <3> QED BY <3>1, <3>2, <3>3
  <2> HIDE DEF l
  <2> QED BY <1>1, <2>2, <2>4, <2>5, <2>6
<1> HIDE DEF l
<1>5. \E x \in 0 .. s - 1 : next = x * m
  BY <1>1, <1>2, Zenon
<1>6. \A j \in 0 .. s - 1, d \in 1 .. 2 * n - 1 :
        j * m + d * m \in {k * m, k * m + m * s} =>
          j # k /\ j * m # k * m /\ j * m + (d + 1) * m \in {next, next + m * s}
  BY <1>4, Zenon
<1> QED BY <1>3, <1>5, <1>6 DEF Aged

(* Steps that leave the queue alone, a half counted as played or not.       *)
LEMMA Steady ==
  ASSUME TwoRounds, IInv, QueueInv,
         UNCHANGED <<epEnabled, psize, reqs, rxBufPtr, rxBufSize, playbackSize, rxedSize, cur>>,
         txedSize' = txedSize \/ txedSize' = txedSize + playbackSize,
         pc' = pc \/ (pc \notin {"idle", "init"} /\ pc' \notin {"idle", "init"})
  PROVE  QueueInv'
<1>1. Slots' = Slots /\ (pc' = "init" <=> pc = "init") /\ (pc' = "idle" <=> pc = "idle")
  BY DEF Slots
<1>2. \A p : Slotted(p)' = Slotted(p)
  BY <1>1 DEF Slotted
<1>3. \A p, d : Behind(p, d)' = Behind(p, d)
  BY DEF Behind
<1>4. \A i : Buf(i)' = Buf(i)
  BY <1>1 DEF Buf
<1>5. Got' = Got
  BY <1>1 DEF Got
<1>6. SUFFICES ASSUME epEnabled, pc # "init"
               PROVE  /\ \A i \in 1 .. UsbXfers : \E d \in Ages : Behind(Buf(i), d) /\ Old(i, d)'
                      /\ \E b \in Nat : txedSize' = b * playbackSize
  BY <1>1, <1>2, <1>3, <1>4, <1>5 DEF QueueInv
<1>7. /\ psize \in Nat \ {0} /\ UsbXfers \in Nat \ {0, 1} /\ UsbXfers * psize <= playbackSize
      /\ playbackSize \in Nat /\ txedSize \in Nat /\ rxedSize \in Nat
  BY <1>6, Slotting DEF IInv
<1>8. Got \in Int /\ Got < txedSize + 2 * playbackSize
  BY <1>6, <1>7 DEF IInv, CounterInv, Got
<1>9. Room \in Int /\ Room > -psize /\ (Room' = Room \/ Room' = Room + playbackSize)
  BY <1>5, <1>7, <1>8 DEF Room
<1>10. ASSUME NEW i \in 1 .. UsbXfers
       PROVE  \E d \in Ages : Behind(Buf(i), d) /\ Old(i, d)'
  <2>1. PICK d \in Ages : Behind(Buf(i), d) /\ Old(i, d)
    BY <1>6 DEF QueueInv
  <2>2. d \in Int
    BY <1>7 DEF Ages
  <2>3. (i - 1) * psize \in Nat /\ (i - 1) * psize <= UsbXfers * psize - psize
    <3>1. (i - 1) * psize <= (UsbXfers - 1) * psize
      BY <1>7
    <3> QED BY <1>7, <3>1
  <2> DEFINE x == (i - 1) * psize
  <2>4. x \in Nat /\ x <= UsbXfers * psize - psize
    BY <2>3
  <2>5. UsbXfers * psize \in Nat
    BY <1>7
  <2>6. Room' = Room + playbackSize => Room' > x
    <3> HIDE DEF x
    <3> QED BY <1>7, <1>9, <2>4, <2>5
  <2>7. Old(i, d)'
    <3>1. CASE d <= UsbXfers - i + 1
      BY <3>1 DEF Old
    <3>2. CASE d <= UsbXfers /\ Room <= 0
      <4>1. CASE Room' = Room
        BY <3>2, <4>1 DEF Old
      <4>2. CASE Room' = Room + playbackSize
        BY <1>7, <2>2, <2>6, <3>2, <4>2 DEF Old
      <4> QED BY <1>9, <4>1, <4>2
    <3>3. CASE d <= 2 * UsbXfers - i /\ Room > (i - 1) * psize
      <4>1. Room' > x
        BY <1>9, <2>6, <3>3
      <4> QED BY <3>3, <4>1 DEF Old
    <3> QED BY <2>1, <3>1, <3>2, <3>3 DEF Old
  <2> QED BY <2>1, <2>7
<1>11. \E b \in Nat : txedSize' = b * playbackSize
  <2>1. PICK b \in Nat : txedSize = b * playbackSize
    BY <1>6 DEF QueueInv
  <2>2. txedSize + playbackSize = (b + 1) * playbackSize
    BY <1>7, <2>1
  <2>3. b + 1 \in Nat
    OBVIOUS
  <2> QED BY <2>1, <2>2, <2>3
<1> QED BY <1>10, <1>11

(* The first round: the buffers from the start of the ring.                 *)
LEMMA FirstRound ==
  ASSUME TwoRounds, AlignedPackets, IInv, IInv', QueueInv, SetAltSetup PROVE QueueInv'
<1>1. /\ psize' = psize /\ pc' = "idle" /\ rxedSize' = 0 /\ txedSize' = 0
      /\ reqs' = [i \in 1 .. UsbXfers |-> (i - 1) * psize]
      /\ rxBufSize' = RxBufSizeOf(psize) /\ playbackSize' = PlaybackSizeOf(psize)
      /\ rxBufPtr' = PtrAfter(0, psize * UsbXfers, rxBufSize')
  BY DEF SetAltSetup
<1>2. psize \in Psizes /\ psize % Align = 0 /\ Slots' = Slots
  BY <1>1 DEF IInv, TypeOK, AlignedPackets, Slots
<1>3. /\ psize \in Nat \ {0} /\ UsbXfers \in Nat \ {0, 1} /\ Slots \in Nat
      /\ 2 * UsbXfers <= Slots /\ RxBufSizeOf(psize) = psize * Slots
  BY <1>2, RingSlots DEF Slots
<1>4. rxBufPtr' = UsbXfers * psize
  <2>1. SlotsOn(psize, Slots, 0, UsbXfers)
    BY <1>2, <1>3, NextSlot, SizesAssumption
  <2>2. UsbXfers < Slots /\ 0 * psize = 0 /\ UsbXfers * psize = psize * UsbXfers
    BY <1>3
  <2> QED BY <1>1, <1>3, <2>1, <2>2 DEF SlotsOn
<1>5. epEnabled' = epEnabled
  BY DEF SetAltSetup
<1>6. Slotted(rxBufPtr)'
  <2>1. UsbXfers \in 0 .. Slots - 1
    BY <1>3
  <2> QED BY <1>1, <1>2, <1>4, <2>1 DEF Slotted
<1>7. DOMAIN reqs' = 1 .. UsbXfers /\ Len(reqs') = UsbXfers
  BY <1>1, <1>3
<1>8. ASSUME NEW i \in 1 .. UsbXfers
      PROVE  Slotted(Buf(i))' /\ \E d \in Ages : Behind(Buf(i), d)' /\ Old(i, d)'
  <2>1. Buf(i)' = (i - 1) * psize
    BY <1>1 DEF Buf
  <2>2. i - 1 \in 0 .. Slots - 1
    BY <1>3
  <2>3. Slotted(Buf(i))'
    BY <1>1, <1>2, <2>1, <2>2 DEF Slotted
  <2> DEFINE d == UsbXfers - i + 1
  <2>4. d \in Ages
    BY <1>3 DEF Ages
  <2>5. (i - 1) * psize + d * psize = UsbXfers * psize
    BY <1>3
  <2>6. Behind(Buf(i), d)'
    BY <1>1, <1>4, <2>1, <2>5 DEF Behind
  <2>7. Old(i, d)'
    BY <1>3 DEF Old
  <2> HIDE DEF d
  <2> QED BY <2>3, <2>4, <2>6, <2>7
<1>9. ASSUME NEW i \in 1 .. UsbXfers, NEW j \in 1 .. UsbXfers, i # j
      PROVE  Buf(i)' # Buf(j)'
  <2>1. Buf(i)' = (i - 1) * psize /\ Buf(j)' = (j - 1) * psize
    BY <1>1 DEF Buf
  <2>2. (i - 1) * psize # (j - 1) * psize
    <3>1. CASE i < j
      <4>1. i * psize <= (j - 1) * psize
        BY <1>3, <3>1
      <4> QED BY <1>3, <4>1
    <3>2. CASE j < i
      <4>1. j * psize <= (i - 1) * psize
        BY <1>3, <3>2
      <4> QED BY <1>3, <4>1
    <3> QED BY <1>9, <3>1, <3>2
  <2> QED BY <2>1, <2>2
<1>10. \E a, q \in Nat : Got' = a * psize' /\ (a + UsbXfers) * psize' = rxBufPtr' + q * rxBufSize'
  <2>1. Got' = 0
    BY <1>1 DEF Got
  <2>2. 0 = 0 * psize /\ (0 + UsbXfers) * psize = UsbXfers * psize + 0 * rxBufSize'
    BY <1>1, <1>3
  <2> QED BY <1>1, <1>4, <2>1, <2>2
<1>11. \E b \in Nat : txedSize' = b * playbackSize'
  <2>1. playbackSize' \in Int
    BY DEF IInv, TypeOK
  <2>2. txedSize' = 0 * playbackSize' /\ 0 \in Nat
    BY <1>1, <2>1
  <2> QED BY <2>2, Zenon
<1>12. ~epEnabled' => reqs' = <<>>
  <2>1. pc = "init"
    BY DEF SetAltSetup
  <2> QED BY <1>5, <2>1 DEF QueueInv
<1> QED BY <1>1, <1>6, <1>7, <1>8, <1>9, <1>10, <1>11, <1>12 DEF QueueInv

(* The packet is being completed instead of queued; the order stays.        *)
LEMMA ArrivalQueue ==
  ASSUME TwoRounds, IInv, QueueInv, PacketArrives, rxedSize' = rxedSize + psize
  PROVE  QueueInv'
<1>1. /\ pc = "idle" /\ pc' = "counted" /\ epEnabled /\ reqs # <<>>
      /\ cur' = Head(reqs) /\ reqs' = Tail(reqs)
      /\ UNCHANGED <<epEnabled, psize, rxBufPtr, rxBufSize, playbackSize, txedSize>>
  BY DEF PacketArrives
<1>2. /\ psize \in Nat \ {0} /\ UsbXfers \in Nat \ {0, 1} /\ playbackSize \in Nat
      /\ txedSize \in Nat /\ rxedSize \in Nat /\ reqs \in Seq(0 .. BufSize)
  BY <1>1, Slotting DEF IInv, TypeOK
<1>3. Len(reqs) = UsbXfers
  BY <1>1 DEF QueueInv
<1>4. /\ reqs' \in Seq(0 .. BufSize) /\ Len(reqs') = UsbXfers - 1 /\ cur' = reqs[1]
      /\ \A i \in 1 .. UsbXfers - 1 : reqs'[i] = reqs[i + 1]
  BY <1>1, <1>2, <1>3
<1>5. \A i \in 1 .. UsbXfers : Buf(i)' = Buf(i)
  <2> SUFFICES ASSUME NEW i \in 1 .. UsbXfers PROVE Buf(i)' = Buf(i)
    OBVIOUS
  <2>1. Buf(i) = reqs[i] /\ Buf(i)' = IF i = 1 THEN cur' ELSE reqs'[i - 1]
    BY <1>1 DEF Buf
  <2>2. i # 1 => i - 1 \in 1 .. UsbXfers - 1 /\ (i - 1) + 1 = i
    BY <1>2
  <2>3. i # 1 => reqs'[i - 1] = reqs[i]
    BY <1>4, <2>2
  <2> QED BY <1>4, <2>1, <2>3
<1>6. Slots' = Slots /\ Got' = Got
  BY <1>1, <1>2 DEF Slots, Got
<1>7. Room' = Room
  BY <1>1, <1>6 DEF Room
<1>8. \A p : Slotted(p)' = Slotted(p)
  BY <1>1, <1>6 DEF Slotted
<1>9. \A p, d : Behind(p, d)' = Behind(p, d)
  BY <1>1 DEF Behind
<1>10. \A i, d : Old(i, d)' = Old(i, d)
  BY <1>1, <1>7 DEF Old
<1> QED BY <1>1, <1>3, <1>4, <1>5, <1>6, <1>8, <1>9, <1>10 DEF QueueInv

(* The packet is taken: the next buffer takes the place of its own, all     *)
(* others are a packet older.                                               *)
LEMMA TakeQueue ==
  ASSUME TwoRounds, AlignedPackets, IInv, QueueInv, pc = "room", pc' = "idle", Room > 0,
         reqs' = Append(reqs, rxBufPtr), rxBufPtr' = PtrAfter(rxBufPtr, psize, rxBufSize),
         UNCHANGED <<epEnabled, psize, rxBufSize, playbackSize, rxedSize, txedSize>>
  PROVE  QueueInv'
<1>1. /\ psize \in Nat \ {0} /\ UsbXfers \in Nat \ {0, 1} /\ Slots \in Nat \ {0}
      /\ 2 * UsbXfers <= Slots /\ rxBufSize = psize * Slots /\ psize * Slots > 0
      /\ rxedSize \in Nat /\ txedSize \in Nat /\ playbackSize \in Nat
      /\ psize \in Psizes /\ reqs \in Seq(0 .. BufSize)
  BY Slotting DEF IInv, TypeOK
<1>2. psize % Align = 0 /\ Align \in Nat \ {0} /\ Slots' = Slots
  BY <1>1, SizesAssumption DEF AlignedPackets, Slots
<1>3. epEnabled /\ Slotted(rxBufPtr) /\ Len(reqs) = UsbXfers - 1
  BY DEF IInv, RequestsInv, QueueInv
<1>4. PICK k \in 0 .. Slots - 1 : rxBufPtr = k * psize
  BY <1>3 DEF Slotted
<1>5. /\ \E l \in 0 .. Slots - 1 : rxBufPtr' = l * psize
      /\ rxBufPtr' \in {k * psize + psize, k * psize + psize - psize * Slots}
      /\ \A j \in 0 .. Slots - 1, d \in 1 .. 2 * UsbXfers - 1 :
           j * psize + d * psize \in {k * psize, k * psize + psize * Slots} =>
             /\ j # k
             /\ j * psize # k * psize
             /\ j * psize + (d + 1) * psize \in {rxBufPtr', rxBufPtr' + psize * Slots}
  <2>1. rxBufPtr' = PtrAfter(k * psize, psize, psize * Slots)
    BY <1>1, <1>4
  <2>2. Aged(psize, Slots, UsbXfers, k, rxBufPtr')
    BY <1>1, <1>2, <2>1, Ageing
  <2> QED BY <2>2 DEF Aged
<1>6. ASSUME NEW p, Slotted(p), NEW d \in Ages, Behind(p, d)
      PROVE  p # rxBufPtr /\ Behind(p, d + 1)'
  <2>1. PICK j \in 0 .. Slots - 1 : p = j * psize
    BY <1>6 DEF Slotted
  <2>2. j * psize + d * psize \in {k * psize, k * psize + psize * Slots}
    BY <1>1, <1>4, <1>6, <2>1 DEF Behind
  <2>3. j * psize # k * psize /\ j * psize + (d + 1) * psize \in {rxBufPtr', rxBufPtr' + psize * Slots}
    BY <1>5, <1>6, <2>2 DEF Ages
  <2> QED BY <1>1, <1>4, <2>1, <2>3 DEF Behind
<1>7. Got' = Got + psize /\ Room' = Room - psize /\ Got \in Int /\ Room \in Int
  BY <1>1 DEF Got, Room
<1>8. /\ Len(reqs') = UsbXfers /\ reqs'[UsbXfers] = rxBufPtr
      /\ \A i \in 1 .. UsbXfers - 1 : reqs'[i] = reqs[i]
  BY <1>1, <1>3
<1>9. /\ Buf(UsbXfers)' = rxBufPtr
      /\ \A i \in 1 .. UsbXfers - 1 : Buf(i)' = Buf(i + 1)
  <2>1. \A i : Buf(i)' = reqs'[i]
    BY DEF Buf
  <2>2. ASSUME NEW i \in 1 .. UsbXfers - 1 PROVE Buf(i + 1) = reqs[i]
    <3>1. i + 1 # 1 /\ (i + 1) - 1 = i
      BY <1>1
    <3> QED BY <3>1 DEF Buf
  <2> QED BY <1>8, <2>1, <2>2
<1>10. \A p : Slotted(p)' = Slotted(p)
  BY <1>2 DEF Slotted
<1>11. Slotted(rxBufPtr)'
  BY <1>2, <1>5 DEF Slotted
<1>12. ASSUME NEW i \in 1 .. UsbXfers
       PROVE  Slotted(Buf(i))' /\ \E d \in Ages : Behind(Buf(i), d)' /\ Old(i, d)'
  <2>1. CASE i = UsbXfers
    <3>1. Slotted(Buf(i))'
      BY <1>3, <1>9, <1>10, <2>1
    <3>2. 1 \in Ages
      BY <1>1 DEF Ages
    <3>3. Behind(Buf(i), 1)'
      <4>1. rxBufPtr + 1 * psize \in {rxBufPtr', rxBufPtr' + psize * Slots}
        BY <1>1, <1>4, <1>5
      <4> QED BY <1>1, <1>9, <2>1, <4>1 DEF Behind
    <3>4. Old(i, 1)'
      BY <1>1, <2>1 DEF Old
    <3> QED BY <3>1, <3>2, <3>3, <3>4
  <2>2. CASE i # UsbXfers
    <3>1. i \in 1 .. UsbXfers - 1 /\ i + 1 \in 1 .. UsbXfers
      BY <1>1, <2>2
    <3>2. PICK d \in Ages : Behind(Buf(i + 1), d) /\ Old(i + 1, d)
      BY <1>3, <3>1 DEF QueueInv
    <3>3. Slotted(Buf(i + 1)) /\ Buf(i)' = Buf(i + 1)
      BY <1>3, <1>9, <3>1 DEF QueueInv
    <3>4. Behind(Buf(i), d + 1)'
      BY <1>6, <3>2, <3>3
    <3>5. d \in Int /\ d >= 1
      BY <1>1 DEF Ages
    <3>6. ((i + 1) - 1) * psize = (i - 1) * psize + psize
      BY <1>1
    <3>7. \/ d + 1 <= UsbXfers - i + 1
          \/ d + 1 <= 2 * UsbXfers - i /\ Room' > (i - 1) * psize
      <4> DEFINE x == (i - 1) * psize
      <4>1. x \in Int
        BY <1>1
      <4>2. d <= UsbXfers - (i + 1) + 1 \/ (d <= 2 * UsbXfers - (i + 1) /\ Room > x + psize)
        BY <1>1, <1>7, <3>2, <3>6 DEF Old
      <4> HIDE DEF x
      <4>3. d + 1 <= UsbXfers - i + 1 \/ (d + 1 <= 2 * UsbXfers - i /\ Room' > x)
        BY <1>1, <1>7, <3>5, <4>1, <4>2
      <4> QED BY <4>3 DEF x
    <3>8. Old(i, d + 1)' /\ d + 1 \in Ages
      BY <1>1, <3>5, <3>7 DEF Old, Ages
    <3>9. Slotted(Buf(i))'
      BY <1>10, <3>3
    <3> QED BY <3>4, <3>8, <3>9
  <2> QED BY <2>1, <2>2
<1>13. ASSUME NEW i \in 1 .. UsbXfers, NEW j \in 1 .. UsbXfers, i # j
       PROVE  Buf(i)' # Buf(j)'
  <2>1. \A x \in 2 .. UsbXfers : Buf(x) # rxBufPtr
    <3> SUFFICES ASSUME NEW x \in 2 .. UsbXfers PROVE Buf(x) # rxBufPtr
      OBVIOUS
    <3>1. x \in 1 .. UsbXfers
      OBVIOUS
    <3>2. Slotted(Buf(x)) /\ \E d \in Ages : Behind(Buf(x), d)
      BY <1>3, <3>1 DEF QueueInv
    <3> QED BY <1>6, <3>2
  <2>2. \A x, y \in 1 .. UsbXfers : x # y => Buf(x) # Buf(y)
    BY <1>3 DEF QueueInv
  <2>3. \A x \in 1 .. UsbXfers : x # UsbXfers => x \in 1 .. UsbXfers - 1 /\ x + 1 \in 2 .. UsbXfers
                                                 /\ x + 1 \in 1 .. UsbXfers
    BY <1>1
  <2>4. CASE i = UsbXfers
    BY <1>9, <1>13, <2>1, <2>3, <2>4
  <2>5. CASE j = UsbXfers
    BY <1>9, <1>13, <2>1, <2>3, <2>5
  <2>6. CASE i # UsbXfers /\ j # UsbXfers
    <3>1. Buf(i)' = Buf(i + 1) /\ Buf(j)' = Buf(j + 1)
      BY <1>9, <2>3, <2>6
    <3>2. i + 1 # j + 1
      BY <1>13
    <3> QED BY <2>2, <2>3, <2>6, <3>1, <3>2
  <2> QED BY <2>4, <2>5, <2>6
<1>14. \E a, q \in Nat : Got' = a * psize' /\ (a + UsbXfers) * psize' = rxBufPtr' + q * rxBufSize'
  <2>1. PICK a \in Nat, q \in Nat : Got = a * psize /\ (a + UsbXfers) * psize = rxBufPtr + q * rxBufSize
    BY <1>3 DEF QueueInv
  <2>2. Got' = (a + 1) * psize
    BY <1>1, <1>7, <2>1
  <2>3. ((a + 1) + UsbXfers) * psize = (rxBufPtr + psize) + q * rxBufSize
    <3>1. ((a + 1) + UsbXfers) * psize = (a + UsbXfers) * psize + psize
      BY <1>1
    <3>2. rxBufPtr \in Int /\ q * rxBufSize \in Int
      BY <1>1, <1>4
    <3> QED BY <1>1, <2>1, <3>1, <3>2
  <2>4. rxBufPtr + psize = rxBufPtr' \/ rxBufPtr + psize = rxBufPtr' + rxBufSize
    BY <1>1, <1>4, <1>5
  <2>5. rxBufPtr' \in Int /\ rxBufSize \in Nat
    BY <1>1, <1>4, <1>5
  <2>6. \/ ((a + 1) + UsbXfers) * psize = rxBufPtr' + q * rxBufSize
        \/ ((a + 1) + UsbXfers) * psize = rxBufPtr' + (q + 1) * rxBufSize
    <3>1. (q + 1) * rxBufSize = q * rxBufSize + rxBufSize /\ q * rxBufSize \in Int
      BY <2>5
    <3> QED BY <2>3, <2>4, <2>5, <3>1
  <2>7. a + 1 \in Nat /\ q + 1 \in Nat /\ psize' = psize /\ rxBufSize' = rxBufSize
    OBVIOUS
  <2> QED BY <2>2, <2>6, <2>7, Zenon
<1>15. ~epEnabled' => reqs' = <<>> /\ pc' # "init"
  BY <1>3
<1> QED BY <1>3, <1>8, <1>11, <1>12, <1>13, <1>14, <1>15 DEF QueueInv

(* The packet is dropped: its buffer goes to the end of the queue, as it is *)
(* no more than a round of requests old.                                    *)
LEMMA DropQueue ==
  ASSUME TwoRounds, IInv, QueueInv, pc = "room", pc' = "idle", Room <= 0,
         reqs' = Append(reqs, cur), rxedSize' = rxedSize - psize,
         UNCHANGED <<epEnabled, psize, rxBufPtr, rxBufSize, playbackSize, txedSize>>
  PROVE  QueueInv'
<1>1. /\ psize \in Nat \ {0} /\ UsbXfers \in Nat \ {0, 1} /\ playbackSize \in Nat
      /\ rxedSize \in Nat /\ txedSize \in Nat /\ reqs \in Seq(0 .. BufSize)
  BY Slotting DEF IInv, TypeOK
<1>2. epEnabled /\ Slotted(rxBufPtr) /\ Len(reqs) = UsbXfers - 1
  BY DEF IInv, RequestsInv, QueueInv
<1>3. Slots' = Slots
  BY DEF Slots
<1>4. \A p : Slotted(p)' = Slotted(p)
  BY <1>3 DEF Slotted
<1>5. \A p, d : Behind(p, d)' = Behind(p, d)
  BY DEF Behind
<1>6. Got' = Got /\ Room' = Room /\ Room \in Int
  BY <1>1 DEF Got, Room
<1>7. /\ Len(reqs') = UsbXfers /\ reqs'[UsbXfers] = cur
      /\ \A i \in 1 .. UsbXfers - 1 : reqs'[i] = reqs[i]
  BY <1>1, <1>2
<1>8. /\ Buf(UsbXfers)' = Buf(1)
      /\ \A i \in 1 .. UsbXfers - 1 : Buf(i)' = Buf(i + 1)
  <2>1. \A i : Buf(i)' = reqs'[i]
    BY DEF Buf
  <2>2. ASSUME NEW i \in 1 .. UsbXfers - 1 PROVE Buf(i + 1) = reqs[i]
    <3>1. i + 1 # 1 /\ (i + 1) - 1 = i
      BY <1>1
    <3> QED BY <3>1 DEF Buf
  <2>3. Buf(1) = cur
    BY DEF Buf
  <2> QED BY <1>7, <2>1, <2>2, <2>3
<1>9. ASSUME NEW i \in 1 .. UsbXfers, NEW d \in Ages, Old(i, d)
      PROVE  d <= UsbXfers - i + 1 \/ d <= UsbXfers
  <2>1. (i - 1) * psize >= 0
    BY <1>1
  <2>2. ~(Room > (i - 1) * psize)
    <3>1. (i - 1) * psize \in Int
      BY <1>1
    <3> QED BY <1>6, <2>1, <3>1
  <2> QED BY <1>9, <2>2 DEF Old
<1>10. ASSUME NEW i \in 1 .. UsbXfers
       PROVE  Slotted(Buf(i))' /\ \E d \in Ages : Behind(Buf(i), d)' /\ Old(i, d)'
  <2> DEFINE x == IF i = UsbXfers THEN 1 ELSE i + 1
  <2>1. x \in 1 .. UsbXfers
    BY <1>1
  <2>2. Buf(i)' = Buf(x)
    <3>1. i # UsbXfers => i \in 1 .. UsbXfers - 1
      BY <1>1
    <3> QED BY <1>8, <3>1
  <2>3. PICK d \in Ages : Behind(Buf(x), d) /\ Old(x, d)
    BY <1>2, <2>1 DEF QueueInv
  <2>4. Slotted(Buf(x))
    BY <1>2, <2>1 DEF QueueInv
  <2>5. d \in Int /\ d <= UsbXfers
    <3>1. d <= UsbXfers - x + 1 \/ d <= UsbXfers
      BY <1>9, <2>1, <2>3
    <3>2. d \in Int
      BY <1>1 DEF Ages
    <3> HIDE DEF x
    <3> QED BY <1>1, <2>1, <3>1, <3>2
  <2>6. Old(i, d)'
    BY <1>6, <2>5 DEF Old
  <2> HIDE DEF x
  <2> QED BY <1>4, <1>5, <2>2, <2>3, <2>4, <2>6
<1>11. ASSUME NEW i \in 1 .. UsbXfers, NEW j \in 1 .. UsbXfers, i # j
       PROVE  Buf(i)' # Buf(j)'
  <2>1. \A x, y \in 1 .. UsbXfers : x # y => Buf(x) # Buf(y)
    BY <1>2 DEF QueueInv
  <2>2. \A x \in 1 .. UsbXfers : x # UsbXfers => x \in 1 .. UsbXfers - 1 /\ x + 1 \in 1 .. UsbXfers
                                                 /\ x + 1 # 1
    BY <1>1
  <2>3. 1 \in 1 .. UsbXfers
    BY <1>1
  <2>4. CASE i = UsbXfers
    BY <1>8, <1>11, <2>1, <2>2, <2>3, <2>4
  <2>5. CASE j = UsbXfers
    BY <1>8, <1>11, <2>1, <2>2, <2>3, <2>5
  <2>6. CASE i # UsbXfers /\ j # UsbXfers
    <3>1. Buf(i)' = Buf(i + 1) /\ Buf(j)' = Buf(j + 1)
      BY <1>8, <2>2, <2>6
    <3>2. i + 1 # j + 1
      BY <1>11
    <3> QED BY <2>1, <2>2, <2>6, <3>1, <3>2
  <2> QED BY <2>4, <2>5, <2>6
<1>12. ~epEnabled' => reqs' = <<>> /\ pc' # "init"
  BY <1>2
<1>13. /\ \E a, q \in Nat : Got' = a * psize' /\ (a + UsbXfers) * psize' = rxBufPtr' + q * rxBufSize'
       /\ \E b \in Nat : txedSize' = b * playbackSize'
  BY <1>2, <1>6, Zenon DEF QueueInv
<1> QED BY <1>2, <1>4, <1>7, <1>10, <1>11, <1>12, <1>13 DEF QueueInv

-----------------------------------------------------------------------------
(* A call of the handler leaves the queue alone.                            *)
LEMMA HandlerQueue ==
  ASSUME NoWrap, TwoRounds, IInv, QueueInv, NEW done \in BOOLEAN, NEW left \in BOOLEAN,
         Handler(done, left),
         UNCHANGED <<epEnabled, psize, reqs, rxBufPtr, rxBufSize, playbackSize, rxedSize, cur>>,
         pc' = pc \/ (pc \notin {"idle", "init"} /\ pc' \notin {"idle", "init"})
  PROVE  QueueInv'
<1>1. HandlerIgnores(done, left) \/ HandlerWaits(done, left) \/ HandlerStarts(done)
  BY HandlerCases DEF IInv
<1>2. txedSize \in Int /\ playbackSize \in Int
  BY SizesAssumption DEF IInv, TypeOK
<1>3. txedSize' = txedSize \/ txedSize' = txedSize + playbackSize
  BY <1>1, <1>2 DEF HandlerIgnores, HandlerWaits, HandlerStarts, HandlerCounts
<1> QED BY <1>3, Steady

(* Every step keeps the queue in order.                                     *)
LEMMA StepQueue ==
  ASSUME NoWrap, TwoRounds, AlignedPackets, IInv, IInv', QueueInv, [Next]_vars PROVE QueueInv'
<1>1. CASE StopStream
  <2>1. pc' = "idle" /\ pc = "idle" /\ epEnabled' = FALSE /\ reqs' = <<>>
        /\ UNCHANGED <<psize, rxBufPtr>>
    BY <1>1 DEF StopStream, aoStat
  <2>2. Slotted(rxBufPtr)'
    BY <2>1 DEF QueueInv, Slotted, Slots
  <2> QED BY <2>1, <2>2 DEF QueueInv
<1>2. CASE \E m \in Psizes : SetAltClear(m)
  BY <1>2 DEF SetAltClear, QueueInv
<1>3. CASE SetAltSetup
  BY <1>3, FirstRound
<1>4. CASE PacketArrives
  <2>1. rxedSize' = rxedSize + psize
    <3>1. /\ psize \in Nat \ {0} /\ rxedSize \in Nat /\ MaxBytes \in Nat
          /\ CounterMod \in Nat \ {0} /\ MaxBytes < CounterMod
      BY <1>4, Sizes, SizesAssumption DEF IInv, TypeOK, PacketArrives, NoWrap
    <3>2. rxedSize + psize \in 0 .. CounterMod - 1
      BY <1>4, <3>1 DEF PacketArrives
    <3> QED BY <1>4, <3>1, <3>2, ModSmall DEF PacketArrives, Add32
  <2> QED BY <1>4, <2>1, ArrivalQueue
<1>5. CASE CheckSched
  <2>1. /\ pc \notin {"idle", "init"} /\ pc' \notin {"idle", "init"} /\ txedSize' = txedSize
        /\ UNCHANGED <<epEnabled, psize, reqs, rxBufPtr, rxBufSize, playbackSize, rxedSize, cur>>
    BY <1>5 DEF CheckSched, aoStat
  <2> QED BY <2>1, Steady
<1>6. CASE CallHandler
  <2>1. /\ pc \notin {"idle", "init"} /\ pc' \notin {"idle", "init"}
        /\ Handler(dmaDone, tfrDone) /\ dmaDone \in BOOLEAN /\ tfrDone \in BOOLEAN
        /\ UNCHANGED <<epEnabled, psize, reqs, rxBufPtr, rxBufSize, playbackSize, rxedSize, cur>>
    BY <1>6 DEF CallHandler, IInv, TypeOK
  <2> QED BY <2>1, HandlerQueue
<1>7. CASE Reschedule
  <2>1. /\ pc \notin {"idle", "init"} /\ pc' \notin {"idle", "init"} /\ txedSize' = txedSize
        /\ UNCHANGED <<epEnabled, psize, reqs, rxBufPtr, rxBufSize, playbackSize, rxedSize, cur>>
    BY <1>7 DEF Reschedule
  <2> QED BY <2>1, Steady
<1>8. CASE TakeOrDrop
  <2>1. /\ psize \in Nat \ {0} /\ playbackSize \in Nat /\ rxedSize \in 0 .. CounterMod - 1
        /\ txedSize \in Nat /\ CounterMod \in Nat \ {0} /\ pc = "room" /\ pc' = "idle"
        /\ psize <= playbackSize
        /\ UNCHANGED <<epEnabled, psize, rxBufSize, playbackSize, txedSize>>
    BY <1>8, Sizes, SizesAssumption DEF IInv, TypeOK, TakeOrDrop
  <2>2. HasRoom <=> rxedSize < txedSize + 2 * playbackSize
    BY Sums DEF IInv, HasRoom
  <2>3. Room = txedSize + 2 * playbackSize - rxedSize
    BY <2>1 DEF Room, Got
  <2>4. HasRoom <=> Room > 0
    BY <2>1, <2>2, <2>3
  <2>5. CASE HasRoom
    <3>1. reqs' = Append(reqs, rxBufPtr) /\ rxBufPtr' = PtrAfter(rxBufPtr, psize, rxBufSize)
          /\ rxedSize' = rxedSize
      BY <1>8, <2>5 DEF TakeOrDrop
    <3> QED BY <2>1, <2>4, <2>5, <3>1, TakeQueue
  <2>6. CASE ~HasRoom
    <3>1. reqs' = Append(reqs, cur) /\ rxBufPtr' = rxBufPtr /\ rxedSize' = Sub32(rxedSize, psize)
      BY <1>8, <2>6 DEF TakeOrDrop
    <3>2. rxedSize - psize \in 0 .. CounterMod - 1
      BY <2>1, <2>2, <2>6
    <3>3. rxedSize' = rxedSize - psize
      BY <2>1, <3>1, <3>2, ModSmall DEF Sub32
    <3>4. Room <= 0
      BY <2>1, <2>3, <2>4, <2>6
    <3> QED BY <2>1, <3>1, <3>3, <3>4, DropQueue
  <2> QED BY <2>5, <2>6
<1>9. CASE DmaInterrupt
  <2>1. /\ pc' = pc /\ Handler(TRUE, FALSE)
        /\ UNCHANGED <<epEnabled, psize, reqs, rxBufPtr, rxBufSize, playbackSize, rxedSize, cur>>
    BY <1>9 DEF DmaInterrupt
  <2> QED BY <2>1, HandlerQueue
<1>10. CASE DmaComplete
  <2>1. /\ pc' = pc /\ txedSize' = txedSize
        /\ UNCHANGED <<epEnabled, psize, reqs, rxBufPtr, rxBufSize, playbackSize, rxedSize, cur>>
    BY <1>10 DEF DmaComplete, aoStat
  <2> QED BY <2>1, Steady
<1>11. CASE UNCHANGED vars
  <2>1. /\ pc' = pc /\ txedSize' = txedSize
        /\ UNCHANGED <<epEnabled, psize, reqs, rxBufPtr, rxBufSize, playbackSize, rxedSize, cur>>
    BY <1>11 DEF vars, aoStat
  <2> QED BY <2>1, Steady
<1> QED BY <1>1, <1>2, <1>3, <1>4, <1>5, <1>6, <1>7, <1>8, <1>9, <1>10, <1>11
        DEF Next, IsoComplete

(* Nothing is queued at first.                                              *)
LEMMA InitQueue ==
  ASSUME TwoRounds, AlignedPackets, Init PROVE QueueInv
<1>1. /\ psize \in Psizes /\ epEnabled = FALSE /\ reqs = <<>> /\ pc = "idle"
      /\ rxBufPtr = PtrAfter(0, psize * UsbXfers, RxBufSizeOf(psize))
  BY DEF Init
<1>2. /\ psize \in Nat \ {0} /\ UsbXfers \in Nat \ {0, 1} /\ Slots \in Nat
      /\ 2 * UsbXfers <= Slots /\ RxBufSizeOf(psize) = psize * Slots
      /\ psize % Align = 0 /\ Align \in Nat \ {0}
  BY <1>1, RingSlots, SizesAssumption DEF Slots, AlignedPackets
<1>3. rxBufPtr = UsbXfers * psize
  <2>1. SlotsOn(psize, Slots, 0, UsbXfers)
    BY <1>2, NextSlot
  <2>2. UsbXfers < Slots /\ 0 * psize = 0 /\ UsbXfers * psize = psize * UsbXfers
    BY <1>2
  <2> QED BY <1>1, <1>2, <2>1, <2>2 DEF SlotsOn
<1>4. UsbXfers \in 0 .. Slots - 1
  BY <1>2
<1>5. Slotted(rxBufPtr)
  BY <1>3, <1>4 DEF Slotted
<1> QED BY <1>1, <1>5 DEF QueueInv

(* The queued buffers are packets of the ring, no two of them the same, and *)
(* none is more than two rounds of requests behind the next one.            *)
THEOREM QueueOrdered ==
  ASSUME NoWrap, TwoRounds, AlignedPackets PROVE Spec => []QueueInv
<1>1. Init => QueueInv
  BY InitQueue
<1>2. IInv /\ IInv' /\ QueueInv /\ [Next]_vars => QueueInv'
  BY StepQueue
<1> QED BY <1>1, <1>2, Invariance, PTL DEF Spec

(* In packets as in bytes.                                                  *)
LEMMA InPackets ==
  ASSUME NEW m \in Nat \ {0}, NEW x \in Int, NEW y \in Int
  PROVE  /\ x * m = y * m <=> x = y
         /\ x * m < y * m <=> x < y
<1>1. x < y => (x + 1) * m <= y * m
  OBVIOUS
<1>2. y < x => (y + 1) * m <= x * m
  OBVIOUS
<1>3. (x + 1) * m = x * m + m /\ (y + 1) * m = y * m + m
  OBVIOUS
<1>4. x * m \in Int /\ y * m \in Int
  OBVIOUS
<1>5. x = y => x * m = y * m
  OBVIOUS
<1>6. x < y \/ y < x \/ x = y
  OBVIOUS
<1> QED BY <1>1, <1>2, <1>3, <1>4, <1>5, <1>6

(* The requests in the terms of the invariant.                              *)
LEMMA QueuedBuffers ==
  ASSUME TwoRounds, TypeOK, Geometry, RequestsInv, QueueInv, NEW i \in DOMAIN reqs
  PROVE  /\ pc # "init" /\ epEnabled
         /\ \E k \in 1 .. UsbXfers : k = (IF pc = "idle" THEN i ELSE i + 1) /\ reqs[i] = Buf(k)
<1>1. reqs # <<>> /\ reqs \in Seq(0 .. BufSize)
  BY DEF TypeOK
<1>2. pc # "init" /\ epEnabled
  BY <1>1 DEF QueueInv, RequestsInv
<1>3. UsbXfers \in Nat \ {0, 1}
  BY SizesAssumption
<1>4. Len(reqs) = IF pc = "idle" THEN UsbXfers ELSE UsbXfers - 1
  BY <1>2 DEF QueueInv
<1>5. i \in 1 .. Len(reqs)
  BY <1>1
<1> DEFINE k == IF pc = "idle" THEN i ELSE i + 1
<1>6. k \in 1 .. UsbXfers
  BY <1>3, <1>4, <1>5
<1>7. reqs[i] = Buf(k)
  <2>1. pc # "idle" => k # 1 /\ k - 1 = i
    BY <1>5
  <2> QED BY <2>1 DEF Buf
<1> QED BY <1>2, <1>6, <1>7

(* Different packets of the ring share no memory.                           *)
LEMMA QueueDisjoint ==
  ASSUME TwoRounds, TypeOK, Geometry, RequestsInv, QueueInv PROVE RequestsDisjoint
<1> SUFFICES ASSUME NEW i \in DOMAIN reqs, NEW j \in DOMAIN reqs, i # j
             PROVE  Slot(reqs[i]) \cap Slot(reqs[j]) = {}
  BY DEF RequestsDisjoint
<1>1. pc # "init" /\ epEnabled
  BY QueuedBuffers
<1>2. psize \in Nat \ {0} /\ Slots \in Nat
  BY <1>1, Slotting
<1>3. i \in Int /\ j \in Int
  BY DEF TypeOK
<1>4. PICK k \in 1 .. UsbXfers : k = (IF pc = "idle" THEN i ELSE i + 1) /\ reqs[i] = Buf(k)
  BY QueuedBuffers
<1>5. PICK l \in 1 .. UsbXfers : l = (IF pc = "idle" THEN j ELSE j + 1) /\ reqs[j] = Buf(l)
  BY QueuedBuffers
<1>6. k # l
  BY <1>3, <1>4, <1>5
<1>7. Slotted(Buf(k)) /\ Slotted(Buf(l)) /\ Buf(k) # Buf(l)
  BY <1>1, <1>6 DEF QueueInv
<1>8. PICK x \in 0 .. Slots - 1 : reqs[i] = x * psize
  BY <1>4, <1>7 DEF Slotted
<1>9. PICK y \in 0 .. Slots - 1 : reqs[j] = y * psize
  BY <1>5, <1>7 DEF Slotted
<1>10. x # y
  BY <1>4, <1>5, <1>7, <1>8, <1>9
<1>11. x < y => (x + 1) * psize <= y * psize
  BY <1>2
<1>12. y < x => (y + 1) * psize <= x * psize
  BY <1>2
<1>13. (x + 1) * psize = x * psize + psize /\ (y + 1) * psize = y * psize + psize
  BY <1>2
<1>14. x * psize \in Int /\ y * psize \in Int
  BY <1>2
<1>15. \/ x * psize + psize <= y * psize
       \/ y * psize + psize <= x * psize
  BY <1>2, <1>10, <1>11, <1>12, <1>13, <1>14
<1>16. Slot(reqs[i]) = x * psize .. x * psize + psize - 1 /\ Slot(reqs[j]) = y * psize .. y * psize + psize - 1
  BY <1>8, <1>9 DEF Slot
<1> DEFINE v == x * psize
           w == y * psize
<1> HIDE DEF v, w
<1>17. v \in Int /\ w \in Int /\ (v + psize <= w \/ w + psize <= v)
  BY <1>14, <1>15 DEF v, w
<1>18. (v .. v + psize - 1) \cap (w .. w + psize - 1) = {}
  BY <1>2, <1>17
<1> QED BY <1>16, <1>18 DEF v, w

(* Two requests never share memory: what agdev_iso_complete queues again,   *)
(* with the next buffer or after a drop with the same one, overlaps nothing *)
(* that is still queued.                                                    *)
THEOREM RequestsApart ==
  ASSUME NoWrap, TwoRounds, AlignedPackets PROVE Spec => []RequestsDisjoint
<1>1. IInv /\ QueueInv => RequestsDisjoint
  BY QueueDisjoint DEF IInv
<1> QED BY <1>1, Invariance, QueueOrdered, PTL

-----------------------------------------------------------------------------
(* A half is a whole number of packets: USB_XFERS is even.                  *)
WholeHalves == \A m \in Psizes : PlaybackSizeOf(m) % m = 0

(* Where a request lies, counted in packets from the start of the backlog:  *)
(* x packets after it, with f packets of backlog in a ring of s, halves of h *)
(* and rounds of n.                                                         *)
Off(x, f, s, n) ==
  \E o \in 0 .. s - 1, z \in Int : x = s * z + o /\ (o + 1 <= n - 1 \/ o >= f - (n - 1))

(* A buffer d packets old, where the next one is n packets after the        *)
(* backlog, touches no more than n - 1 packets at either end of it.         *)
LEMMA OffBacklog ==
  ASSUME NEW n \in Nat \ {0, 1}, NEW h \in Nat, NEW s \in Nat, n <= h, 2 * h <= s,
         NEW f \in Int, -h < f, f < 2 * h, NEW d \in 1 .. 2 * n - 1, NEW w \in Int
  PROVE  Off(f + n - d + s * w, f, s, n)
<1> DEFINE g == f + n - d
           x == g + s * w
<1>1. g \in Int /\ s * w \in Int /\ s * (w + 1) = s * w + s /\ s * (w - 1) = s * w - s
  OBVIOUS
<1>2. CASE 0 <= g /\ g < s
  <2>1. g \in 0 .. s - 1 /\ x = s * w + g /\ g >= f - (n - 1)
    BY <1>1, <1>2
  <2> HIDE DEF g
  <2> QED BY <2>1 DEF Off, g
<1>3. CASE g < 0
  <2>1. g + s \in 0 .. s - 1 /\ x = s * (w - 1) + (g + s) /\ g + s >= f - (n - 1) /\ w - 1 \in Int
    BY <1>1, <1>3
  <2> HIDE DEF x
  <2>2. Off(x, f, s, n)
    BY <2>1, Zenon DEF Off
  <2> QED BY <2>2 DEF x
<1>4. CASE g >= s
  <2>1. g - s \in 0 .. s - 1 /\ x = s * (w + 1) + (g - s) /\ (g - s) + 1 <= n - 1 /\ w + 1 \in Int
    BY <1>1, <1>4
  <2> HIDE DEF x
  <2>2. Off(x, f, s, n)
    BY <2>1, Zenon DEF Off
  <2> QED BY <2>2 DEF x
<1> QED BY <1>1, <1>2, <1>3, <1>4

(* The queue in order keeps off the backlog.                                *)
LEMMA QueueOffBacklog ==
  ASSUME TwoRounds, WholeHalves, IInv, QueueInv PROVE RequestsStayOffBacklog
<1> SUFFICES ASSUME pc = "idle", ~slip, NEW i \in DOMAIN reqs
             PROVE  LET off == (reqs[i] - txedSize) % rxBufSize
                    IN  \/ off + psize <= psize * (UsbXfers - 1)
                        \/ off >= fill - psize * (UsbXfers - 1)
  BY DEF RequestsStayOffBacklog
<1> DEFINE m == psize
           s == Slots
           n == UsbXfers
<1>1. epEnabled /\ i \in 1 .. UsbXfers /\ reqs[i] = Buf(i)
  BY QueuedBuffers DEF IInv
<1>2. /\ m \in Nat \ {0} /\ n \in Nat \ {0, 1} /\ s \in Nat \ {0} /\ rxBufSize = m * s
      /\ n * m <= playbackSize /\ playbackSize \in Nat /\ 2 * playbackSize <= rxBufSize
      /\ rxedSize \in Nat /\ txedSize \in Nat /\ m * s > 0
  BY Slotting DEF IInv
<1>3. PICK h \in Nat : playbackSize = m * h
  <2>1. playbackSize % m = 0
    BY DEF WholeHalves, IInv, TypeOK, Geometry
  <2> QED BY <1>2, <2>1, Divides
<1>4. n <= h /\ 2 * h <= s
  <2>1. n * m <= h * m /\ (2 * h) * m <= s * m
    BY <1>2, <1>3
  <2>2. 2 * h \in Int /\ ~(h * m < n * m) /\ ~(s * m < (2 * h) * m)
    BY <1>2, <2>1
  <2>3. ~(h < n)
    BY <1>2, <2>2, InPackets
  <2>4. ~(s < 2 * h)
    BY <1>2, <2>2, InPackets
  <2> QED BY <1>2, <2>3, <2>4
<1>5. PICK b \in Nat : txedSize = b * playbackSize
  BY <1>1 DEF QueueInv
<1>6. PICK a \in Nat, q \in Nat : rxedSize = a * m /\ (a + n) * m = rxBufPtr + q * rxBufSize
  BY <1>1, <1>2 DEF QueueInv, Got
<1> DEFINE c == b * h
           f == a - c
<1>7. c \in Nat /\ txedSize = c * m /\ f \in Int
  BY <1>2, <1>3, <1>5
<1> HIDE DEF c
<1>8. fill = f * m
  BY <1>2, <1>6, <1>7 DEF IInv, CounterInv
<1>9. -h < f /\ f < 2 * h
  <2>1. txedSize < rxedSize + playbackSize /\ rxedSize < txedSize + 2 * playbackSize
    BY DEF IInv, CounterInv
  <2>2. c * m < (a + h) * m /\ a * m < (c + 2 * h) * m
    BY <1>2, <1>3, <1>6, <1>7, <2>1
  <2>3. c < a + h
    BY <1>2, <1>7, <2>2, InPackets
  <2>4. a < c + 2 * h
    BY <1>2, <1>7, <2>2, InPackets
  <2> QED BY <1>7, <2>3, <2>4
<1>10. PICK k \in 0 .. s - 1 : reqs[i] = k * m
  BY <1>1 DEF QueueInv, Slotted
<1>11. PICK l \in 0 .. s - 1 : rxBufPtr = l * m
  BY DEF QueueInv, Slotted
<1>12. PICK d \in Ages : Behind(reqs[i], d)
  BY <1>1 DEF QueueInv
<1>13. d \in 1 .. 2 * n - 1
  BY <1>12 DEF Ages
<1>14. k + d = l \/ k + d = l + s
  <2>1. (k + d) * m = l * m \/ (k + d) * m = (l + s) * m
    <3>1. (k + d) * m = k * m + d * m /\ (l + s) * m = l * m + m * s
      BY <1>2, <1>13
    <3> QED BY <1>2, <1>10, <1>11, <1>12, <3>1 DEF Behind
  <2>2. k + d \in Int /\ l \in Int /\ l + s \in Int
    BY <1>2, <1>13
  <2> QED BY <1>2, <2>1, <2>2, InPackets
<1>15. a + n = l + q * s
  <2>1. (a + n) * m = (l + q * s) * m
    BY <1>2, <1>6, <1>11
  <2>2. a + n \in Int /\ l + q * s \in Int
    BY <1>2
  <2> QED BY <1>2, <2>1, <2>2, InPackets
<1>16. \E w \in Int : k - c = f + n - d + s * w
  <2>1. CASE k + d = l
    <3>1. k - c = f + n - d + s * (-q)
      <4>1. s * (-q) = -(q * s) /\ q * s \in Int
        BY <1>2
      <4> QED BY <1>2, <1>7, <1>13, <1>15, <2>1, <4>1
    <3> QED BY <3>1
  <2>2. CASE k + d = l + s
    <3>1. k - c = f + n - d + s * (1 - q)
      <4>1. s * (1 - q) = s - q * s /\ q * s \in Int
        BY <1>2
      <4> QED BY <1>2, <1>7, <1>13, <1>15, <2>2, <4>1
    <3> QED BY <3>1
  <2> QED BY <1>14, <2>1, <2>2
<1> HIDE DEF f
<1>17. Off(k - c, f, s, n)
  <2>1. PICK w \in Int : k - c = f + n - d + s * w
    BY <1>16
  <2>2. Off(f + n - d + s * w, f, s, n)
    BY <1>2, <1>4, <1>7, <1>9, <1>13, OffBacklog
  <2> QED BY <2>1, <2>2
<1>18. PICK o \in 0 .. s - 1, z \in Int :
         k - c = s * z + o /\ (o + 1 <= n - 1 \/ o >= f - (n - 1))
  BY <1>17 DEF Off
<1>19. (reqs[i] - txedSize) % rxBufSize = o * m
  <2>1. reqs[i] - txedSize = (m * s) * z + o * m
    <3>1. reqs[i] - txedSize = (k - c) * m
      BY <1>2, <1>7, <1>10
    <3>2. (s * z + o) * m = (m * s) * z + o * m
      BY <1>2
    <3> QED BY <1>18, <3>1, <3>2
  <2>2. o * m \in 0 .. m * s - 1
    <3>1. o * m <= (s - 1) * m /\ (s - 1) * m = m * s - m /\ o * m \in Nat
      BY <1>2
    <3> QED BY <1>2, <3>1
  <2>3. m * s \in Nat \ {0} /\ reqs[i] - txedSize \in Int
    BY <1>2, <1>7, <1>10
  <2> QED BY <1>2, <2>1, <2>2, <2>3, DivMod
<1>20. o * m + m <= m * (n - 1) \/ o * m >= f * m - m * (n - 1)
  <2>1. CASE o + 1 <= n - 1
    <3>1. (o + 1) * m <= (n - 1) * m
      BY <1>2, <2>1
    <3> QED BY <1>2, <3>1
  <2>2. CASE o >= f - (n - 1)
    <3>1. (f - (n - 1)) * m <= o * m
      BY <1>2, <1>7, <2>2
    <3>2. (f - (n - 1)) * m = f * m - m * (n - 1)
      BY <1>2, <1>7
    <3> QED BY <3>1, <3>2
  <2> QED BY <1>18, <2>1, <2>2
<1> QED BY <1>8, <1>19, <1>20

(* The controller never writes further into the data that waits to be       *)
(* played than the packets at its two ends, although the overrun test does  *)
(* not count the queued requests and a drop changes their order.            *)
THEOREM OffTheBacklog ==
  ASSUME NoWrap, TwoRounds, AlignedPackets, WholeHalves PROVE Spec => []RequestsStayOffBacklog
<1>1. IInv /\ QueueInv => RequestsStayOffBacklog
  BY QueueOffBacklog
<1> QED BY <1>1, Invariance, QueueOrdered, PTL
=============================================================================
