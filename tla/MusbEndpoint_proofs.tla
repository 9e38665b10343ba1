---------------------------- MODULE MusbEndpoint_proofs --------------------------
(***************************************************************************)
(* Proofs about MusbEndpoint for every number of requests and every set of *)
(* set-ups.                                                                *)
(***************************************************************************)
EXTENDS MusbEndpoint, SeqFacts

-----------------------------------------------------------------------------
(* The queue.                                                               *)

Statuses == {"0", InProgress, "-EOVERFLOW", "-ECONNRESET"}
EpStates == [desc : BOOLEAN, busy : BOOLEAN, edmaBusy : BOOLEAN, on : BOOLEAN,
             list : Seq(Reqs), actual : [Reqs -> Nat], status : [Reqs -> Statuses]]
Fifos == [ready : BOOLEAN, size : Nat, from : 0 .. UsbXfers, overrun : BOOLEAN]
Channels == [req : 0 .. UsbXfers, done : BOOLEAN]
Monitors == [lie : BOOLEAN, lost : BOOLEAN, stale : BOOLEAN]
States == [ep : EpStates, fifo : Fifos, dma : Channels, moved : [Reqs -> Nat],
           mon : Monitors]

Once(list) == \A i, j \in DOMAIN list : i # j => list[i] # list[j]

(* Taking a request out leaves the others.                                  *)
LEMMA RemoveFacts ==
  ASSUME NEW list \in Seq(Reqs), Once(list), NEW r \in Reqs, Listed(list, r)
  PROVE  /\ Remove(list, r) \in Seq(Reqs) /\ Once(Remove(list, r))
         /\ Len(list) \in Nat \ {0} /\ Len(Remove(list, r)) = Len(list) - 1
         /\ \A x : Listed(Remove(list, r), x) <=> Listed(list, x) /\ x # r
<1> DEFINE at == CHOOSE i \in DOMAIN list : list[i] = r
           rest == Remove(list, r)
<1>1. at \in DOMAIN list /\ list[at] = r
  BY DEF Listed
<1>2. DOMAIN list = 1 .. Len(list) /\ Len(list) \in Nat
  OBVIOUS
<1>3. at \in 1 .. Len(list) /\ Len(list) - 1 \in Nat
  BY <1>1, <1>2
<1> HIDE DEF at
<1>4. rest = [i \in 1 .. Len(list) - 1 |-> list[IF i < at THEN i ELSE i + 1]]
  BY DEF Remove, at
<1> HIDE DEF rest
<1>5. \A i \in 1 .. Len(list) - 1 :
        LET k == IF i < at THEN i ELSE i + 1
        IN  k \in 1 .. Len(list) /\ k # at /\ rest[i] = list[k]
  BY <1>2, <1>3, <1>4
<1>6. rest \in [1 .. Len(list) - 1 -> Reqs]
  BY <1>2, <1>3, <1>4, <1>5
<1>7. rest \in Seq(Reqs) /\ Len(rest) = Len(list) - 1 /\ DOMAIN rest = 1 .. Len(list) - 1
  BY <1>3, <1>6
<1>8. Once(rest)
  <2> SUFFICES ASSUME NEW i \in 1 .. Len(list) - 1, NEW j \in 1 .. Len(list) - 1, i # j
               PROVE  rest[i] # rest[j]
    BY <1>7 DEF Once
  <2> DEFINE k == IF i < at THEN i ELSE i + 1
             l == IF j < at THEN j ELSE j + 1
  <2>1. k # l /\ k \in 1 .. Len(list) /\ l \in 1 .. Len(list)
    BY <1>3
  <2>2. rest[i] = list[k] /\ rest[j] = list[l]
    BY <1>5
  <2> HIDE DEF k, l
  <2>3. QED
    BY <1>2, <2>1, <2>2 DEF Once
<1>9. ASSUME NEW x, Listed(rest, x) PROVE Listed(list, x) /\ x # r
  <2>1. PICK i \in 1 .. Len(list) - 1 : rest[i] = x
    BY <1>7, <1>9 DEF Listed
  <2> DEFINE k == IF i < at THEN i ELSE i + 1
  <2>2. k \in 1 .. Len(list) /\ k # at /\ list[k] = x
    BY <1>5, <2>1
  <2> HIDE DEF k
  <2>3. QED
    BY <1>1, <1>2, <2>2 DEF Listed, Once
<1>10. ASSUME NEW x, Listed(list, x), x # r PROVE Listed(rest, x)
  <2>1. PICK k \in 1 .. Len(list) : list[k] = x
    BY <1>2, <1>10 DEF Listed
  <2>2. k # at
    BY <1>1, <1>10, <2>1
  <2> DEFINE i == IF k < at THEN k ELSE k - 1
  <2>3. i \in 1 .. Len(list) - 1 /\ k = IF i < at THEN i ELSE i + 1
    BY <1>3, <2>2
  <2>4. rest[i] = x
    BY <1>5, <2>1, <2>3
  <2> HIDE DEF i
  <2>5. QED
    BY <1>7, <2>3, <2>4 DEF Listed
<1>11. QED
  BY <1>2, <1>3, <1>7, <1>8, <1>9, <1>10 DEF rest

(* Putting one in at the end.                                               *)
LEMMA AppendFacts ==
  ASSUME NEW list \in Seq(Reqs), Once(list), NEW r \in Reqs, ~Listed(list, r)
  PROVE  /\ Append(list, r) \in Seq(Reqs) /\ Once(Append(list, r)) /\ Append(list, r) # <<>>
         /\ Head(Append(list, r)) = IF list = <<>> THEN r ELSE Head(list)
         /\ \A x : Listed(Append(list, r), x) <=> Listed(list, x) \/ x = r
<1> DEFINE n == Len(list)
           t == Append(list, r)
<1>1. /\ n \in Nat /\ DOMAIN list = 1 .. n /\ t \in Seq(Reqs) /\ Len(t) = n + 1
      /\ DOMAIN t = 1 .. n + 1 /\ t[n + 1] = r /\ \A i \in 1 .. n : t[i] = list[i]
  OBVIOUS
<1>2. n = 0 <=> list = <<>>
  OBVIOUS
<1>3. t # <<>> /\ Head(t) = t[1] /\ (list # <<>> => Head(list) = list[1])
  BY <1>1
<1> HIDE DEF n, t
<1>4. Once(t)
  BY <1>1 DEF Once, Listed
<1>5. ASSUME NEW x PROVE Listed(t, x) <=> Listed(list, x) \/ x = r
  BY <1>1 DEF Listed
<1>6. Head(t) = IF list = <<>> THEN r ELSE Head(list)
  BY <1>1, <1>2, <1>3
<1>7. QED
  BY <1>1, <1>3, <1>4, <1>5, <1>6 DEF t

(* The head is listed.                                                      *)
LEMMA HeadListed ==
  ASSUME NEW list \in Seq(Reqs), list # <<>>
  PROVE  Head(list) \in Reqs /\ Listed(list, Head(list))
<1>1. Len(list) \in Nat \ {0} /\ DOMAIN list = 1 .. Len(list) /\ Head(list) = list[1]
  OBVIOUS
<1>2. 1 \in DOMAIN list
  BY <1>1
<1>3. QED
  BY <1>1, <1>2 DEF Listed

-----------------------------------------------------------------------------
(* Giving back.                                                             *)

(* musb_g_giveback, the callback included: the request goes to the end of   *)
(* the queue, empty, while the stream is on, and leaves it otherwise.       *)
LEMMA GivebackFacts ==
  ASSUME NEW s \in States, Once(s.ep.list), NEW r \in Reqs, Listed(s.ep.list, r),
         NEW status \in {"0", "-ECONNRESET"}
  PROVE  LET t == Giveback(s, r, status)
             again == s.ep.on /\ s.ep.desc
             left == Remove(s.ep.list, r)
         IN  /\ t \in States /\ Once(t.ep.list)
             /\ t.ep.list = IF again THEN Append(left, r) ELSE left
             /\ \A x : Listed(t.ep.list, x) <=> Listed(s.ep.list, x) /\ (x = r => again)
             /\ ~t.ep.edmaBusy /\ t.ep.on = s.ep.on /\ t.ep.desc = s.ep.desc /\ t.ep.busy = s.ep.busy
             /\ t.fifo = s.fifo /\ t.dma = s.dma
             /\ \A x \in Reqs : x # r => t.ep.actual[x] = s.ep.actual[x] /\ t.moved[x] = s.moved[x]
             /\ again => t.ep.actual[r] = 0 /\ t.moved[r] = 0
             /\ t.mon.stale = s.mon.stale /\ t.mon.lost = s.mon.lost
             /\ t.mon.lie = (s.mon.lie \/ Untrue(s, r, status))
<1> DEFINE left == Remove(s.ep.list, r)
           st == [s.ep.status EXCEPT ![r] = IF @ = InProgress THEN status ELSE @]
           e == [s.ep EXCEPT !.list = left, !.status = st, !.edmaBusy = FALSE]
           m == [s.mon EXCEPT !.lie = @ \/ Untrue(s, r, status)]
           u == [s EXCEPT !.ep = e, !.mon = m]
<1>1. /\ s.ep \in EpStates /\ s.mon \in Monitors /\ s.fifo \in Fifos /\ s.dma \in Channels
      /\ s.moved \in [Reqs -> Nat] /\ s.ep.list \in Seq(Reqs)
  BY DEF States, EpStates
<1>2. /\ left \in Seq(Reqs) /\ Once(left) /\ ~Listed(left, r)
      /\ \A x : Listed(left, x) <=> Listed(s.ep.list, x) /\ x # r
  BY <1>1, RemoveFacts
<1>3. st \in [Reqs -> Statuses] /\ st[r] # "-ESHUTDOWN"
  BY <1>1 DEF EpStates, Statuses, InProgress
<1> HIDE DEF left, st
<1>4. /\ e \in EpStates /\ e.list = left /\ e.status = st /\ ~e.edmaBusy
      /\ e.on = s.ep.on /\ e.desc = s.ep.desc /\ e.busy = s.ep.busy /\ e.actual = s.ep.actual
  BY <1>1, <1>2, <1>3 DEF EpStates
<1>5. Untrue(s, r, status) \in BOOLEAN
  BY DEF Untrue
<1>6. /\ m \in Monitors /\ m.stale = s.mon.stale /\ m.lost = s.mon.lost
      /\ m.lie = (s.mon.lie \/ Untrue(s, r, status))
  BY <1>1, <1>5 DEF Monitors
<1> HIDE DEF e, m
<1>7. u \in States /\ u.ep = e /\ u.mon = m /\ u.fifo = s.fifo /\ u.dma = s.dma /\ u.moved = s.moved
  BY <1>1, <1>4, <1>6 DEF States
<1>8. Giveback(s, r, status) = Complete(u, r)
  BY DEF Giveback, u, e, m, left, st
<1> HIDE DEF u
<1>9. CASE ~s.ep.on
  <2>1. Giveback(s, r, status) = u
    BY <1>4, <1>7, <1>8, <1>9 DEF Complete
  <2>2. QED
    BY <1>2, <1>4, <1>6, <1>7, <1>9, <2>1 DEF left
<1>10. CASE s.ep.on
  <2> DEFINE q == QueueBusy(u, r)
             f == [u.ep EXCEPT !.actual = [@ EXCEPT ![r] = 0],
                               !.status = [@ EXCEPT ![r] = InProgress]]
             g == [f EXCEPT !.list = Append(@, r)]
             mv == [u.moved EXCEPT ![r] = 0]
  <2>1. Giveback(s, r, status) = q
    BY <1>3, <1>4, <1>7, <1>8, <1>10 DEF Complete
  <2>2. /\ f \in EpStates /\ f.list = left /\ f.on = s.ep.on /\ f.desc = s.ep.desc
        /\ f.busy = s.ep.busy /\ ~f.edmaBusy
        /\ f.actual = [s.ep.actual EXCEPT ![r] = 0]
    BY <1>4, <1>7 DEF EpStates, Statuses
  <2>3. f.actual[r] = 0 /\ \A x \in Reqs : x # r => f.actual[x] = s.ep.actual[x]
    BY <1>1, <2>2 DEF EpStates
  <2> HIDE DEF f
  <2>4. CASE ~s.ep.desc
    <3>1. q = [u EXCEPT !.ep = f]
      BY <1>4, <1>7, <2>4 DEF QueueBusy, f
    <3>2. q \in States /\ q.ep = f /\ q.fifo = s.fifo /\ q.dma = s.dma /\ q.moved = s.moved /\ q.mon = m
      BY <1>7, <2>2, <3>1 DEF States
    <3> HIDE DEF q
    <3>3. QED
      BY <1>2, <1>6, <2>1, <2>2, <2>3, <2>4, <3>2 DEF left
  <2>5. CASE s.ep.desc
    <3>1. /\ Append(left, r) \in Seq(Reqs) /\ Once(Append(left, r))
          /\ \A x : Listed(Append(left, r), x) <=> Listed(left, x) \/ x = r
      BY <1>2, AppendFacts
    <3>2. /\ g \in EpStates /\ g.list = Append(left, r) /\ g.on = s.ep.on /\ g.desc = s.ep.desc
          /\ g.busy = s.ep.busy /\ ~g.edmaBusy /\ g.actual = f.actual
      BY <2>2, <3>1 DEF EpStates
    <3>3. /\ mv \in [Reqs -> Nat] /\ mv[r] = 0
          /\ \A x \in Reqs : x # r => mv[x] = s.moved[x]
      BY <1>1, <1>7
    <3>4. q = [u EXCEPT !.ep = g, !.moved = mv]
      <4> DEFINE v == [u EXCEPT !.ep = f]
      <4>1. v = [u EXCEPT !.ep.actual[r] = 0, !.ep.status[r] = InProgress]
        BY <1>7 DEF f
      <4>2. v.ep = f /\ v.moved = u.moved /\ v.ep.list = left
        BY <1>7, <2>2 DEF States
      <4>3. q = [v EXCEPT !.ep.list = Append(@, r), !.moved[r] = 0]
        BY <1>4, <1>7, <2>5, <4>1 DEF QueueBusy
      <4>4. QED
        BY <1>7, <4>2, <4>3 DEF States
    <3> HIDE DEF g, mv
    <3>5. q \in States /\ q.ep = g /\ q.fifo = s.fifo /\ q.dma = s.dma /\ q.moved = mv /\ q.mon = m
      BY <1>7, <3>2, <3>3, <3>4 DEF States
    <3> HIDE DEF q
    <3>6. \A x : Listed(g.list, x) <=> Listed(s.ep.list, x)
      BY <1>2, <3>1, <3>2
    <3>7. /\ q \in States /\ Once(q.ep.list) /\ q.ep.list = Append(left, r)
          /\ ~q.ep.edmaBusy /\ q.ep.on = s.ep.on /\ q.ep.desc = s.ep.desc /\ q.ep.busy = s.ep.busy
          /\ \A x \in Reqs : x # r => q.ep.actual[x] = s.ep.actual[x] /\ q.moved[x] = s.moved[x]
          /\ q.ep.actual[r] = 0 /\ q.moved[r] = 0
      BY <2>3, <3>1, <3>2, <3>3, <3>5
    <3>8. QED
      BY <1>6, <1>10, <2>1, <2>5, <3>2, <3>5, <3>6, <3>7 DEF left
  <2>6. QED
    BY <2>4, <2>5
<1>11. QED
  BY <1>9, <1>10

-----------------------------------------------------------------------------
(* What holds between any two calls.                                        *)

(* Of a queued request: nothing is counted before the DMA is done, and      *)
(* never more than was asked for.                                           *)
Bounded(s, r) ==
  /\ conf.edma => s.ep.actual[r] = 0
  /\ conf.isIn => s.ep.actual[r] <= conf.length

Ok(s) ==
  /\ s \in States /\ Once(s.ep.list)
  /\ s.ep.edmaBusy => conf.edma /\ s.ep.list # <<>> /\ s.dma.req = Head(s.ep.list)
  /\ \A r \in Reqs : Listed(s.ep.list, r) => Bounded(s, r)

(* What was moved for each queued request: what it counts, or what the DMA  *)
(* has done for the one at the head.                                        *)
At(s, r) == s.ep.list # <<>> /\ Head(s.ep.list) = r
CountedAt(s, r) ==
  /\ ~conf.edma => s.moved[r] = s.ep.actual[r]
  /\ conf.edma /\ conf.isIn =>
       s.moved[r] = IF s.ep.edmaBusy /\ At(s, r) THEN conf.length ELSE 0
  /\ conf.edma /\ ~conf.isIn =>
       s.moved[r] = IF s.dma.done /\ At(s, r) THEN PacketSz ELSE 0
Counted(s) == \A r \in Reqs : Listed(s.ep.list, r) => CountedAt(s, r)

(* OUT with DMA: one whole packet at a time, and the channel always armed.  *)
Filled(s) == conf.edma /\ ~conf.isIn =>
  /\ s.fifo.ready => s.fifo.size = PacketSz
  /\ s.dma.done <=> s.fifo.ready /\ s.fifo.from # 0
Armed(s) == conf.edma /\ ~conf.isIn /\ s.ep.list # <<>> => s.ep.edmaBusy
Good(s) == Counted(s) /\ Filled(s) /\ Armed(s)

(* A call that starts a transfer leaves these alone.                        *)
Kept(s, t) ==
  /\ t.ep.list = s.ep.list /\ t.ep.on = s.ep.on /\ t.ep.desc = s.ep.desc
  /\ t.ep.busy = s.ep.busy /\ t.mon = s.mon

LEMMA ConfFacts ==
  ASSUME conf \in Configs
  PROVE  /\ conf.isIn \in BOOLEAN /\ conf.edma \in BOOLEAN /\ conf.short \in BOOLEAN
         /\ conf.length \in 1 .. PacketSz /\ conf.length \in Nat
BY MusbAssumption DEF PacketSz

LEMMA ReqFacts ==
  /\ UsbXfers \in Nat \ {0}
  /\ \A r \in Reqs : r \in Nat /\ r # 0 /\ r <= UsbXfers /\ r \in 0 .. UsbXfers
BY MusbAssumption DEF Reqs

LEMMA StateFacts ==
  ASSUME NEW s \in States
  PROVE  /\ s.ep \in EpStates /\ s.mon \in Monitors /\ s.fifo \in Fifos /\ s.dma \in Channels
         /\ s.moved \in [Reqs -> Nat] /\ s.ep.list \in Seq(Reqs)
         /\ s.ep.actual \in [Reqs -> Nat] /\ s.ep.status \in [Reqs -> Statuses]
         /\ s.ep.edmaBusy \in BOOLEAN /\ s.ep.on \in BOOLEAN /\ s.ep.desc \in BOOLEAN
         /\ s.fifo.ready \in BOOLEAN /\ s.fifo.size \in Nat /\ s.fifo.from \in 0 .. UsbXfers
         /\ s.dma.done \in BOOLEAN /\ s.dma.req \in 0 .. UsbXfers
         /\ s.mon.lie \in BOOLEAN /\ s.mon.lost \in BOOLEAN /\ s.mon.stale \in BOOLEAN
BY DEF States, EpStates, Monitors, Fifos, Channels

(* txstate for the head of the queue.                                       *)
LEMMA TxFacts ==
  ASSUME conf \in Configs, conf.isIn, NEW s, Ok(s), s.ep.list # <<>>
  PROVE  LET t == TxState(s, Head(s.ep.list))
         IN  /\ Ok(t) /\ Kept(s, t) /\ (Counted(s) => Counted(t))
             /\ s.fifo.ready => t = s
<1> DEFINE r == Head(s.ep.list)
           t == TxState(s, r)
           count == IF conf.edma THEN conf.length
                    ELSE Least(PacketSz, conf.length - s.ep.actual[r])
           fi == [s.fifo EXCEPT !.ready = TRUE, !.size = count, !.from = r]
           mv == [s.moved EXCEPT ![r] = @ + count]
           ac == [s.ep.actual EXCEPT ![r] = @ + count]
<1>1. s \in States /\ Once(s.ep.list)
  BY DEF Ok
<1>2. r \in Reqs /\ Listed(s.ep.list, r)
  BY <1>1, HeadListed, StateFacts
<1>3. Bounded(s, r)
  BY <1>2 DEF Ok
<1> HIDE DEF r
<1>4. CASE s.fifo.ready \/ s.ep.edmaBusy
  BY <1>4 DEF TxState, Kept, r
<1>5. CASE ~s.fifo.ready /\ ~s.ep.edmaBusy
  <2>1. count \in Nat /\ (~conf.edma => count <= conf.length - s.ep.actual[r])
    BY <1>1, <1>2, <1>3, ConfFacts, StateFacts DEF Bounded, Least, PacketSz
  <2> HIDE DEF count
  <2>2. /\ fi \in Fifos /\ mv \in [Reqs -> Nat] /\ ac \in [Reqs -> Nat]
        /\ mv[r] = s.moved[r] + count /\ ac[r] = s.ep.actual[r] + count
        /\ \A x \in Reqs : x # r => mv[x] = s.moved[x] /\ ac[x] = s.ep.actual[x]
    <3>1. s.fifo \in Fifos /\ s.moved \in [Reqs -> Nat] /\ s.ep.actual \in [Reqs -> Nat]
      BY <1>1, StateFacts
    <3>2. fi \in Fifos
      BY <1>2, <2>1, <3>1, ReqFacts DEF Fifos
    <3>3. s.moved[r] + count \in Nat /\ s.ep.actual[r] + count \in Nat
      BY <1>2, <2>1, <3>1
    <3>4. QED
      BY <1>2, <3>1, <3>2, <3>3
  <2>3. t = TxLoad(s, r)
    BY <1>5 DEF TxState
  <2>4. CASE conf.edma
    <3> DEFINE d == [req |-> r, done |-> TRUE]
               e == [s.ep EXCEPT !.edmaBusy = TRUE]
    <3>1. e \in EpStates /\ d \in Channels /\ e.list = s.ep.list /\ e.on = s.ep.on
          /\ e.desc = s.ep.desc /\ e.busy = s.ep.busy /\ e.edmaBusy /\ e.actual = s.ep.actual
          /\ d.req = r
      BY <1>1, <1>2, StateFacts, ReqFacts DEF EpStates, Channels
    <3>2. t = [s EXCEPT !.fifo = fi, !.moved = mv, !.ep = e, !.dma = d]
      BY <1>1, <2>3, <2>4, StateFacts DEF TxLoad, count, States
    <3> HIDE DEF fi, mv, e, d, t
    <3>3. t \in States /\ t.fifo = fi /\ t.moved = mv /\ t.ep = e /\ t.dma = d /\ t.mon = s.mon
      BY <1>1, <2>2, <3>1, <3>2 DEF States
    <3>4. \A x \in Reqs : Bounded(s, x) => Bounded(t, x)
      BY <3>1, <3>3 DEF Bounded
    <3>5. Ok(t)
      BY <1>1, <2>4, <3>1, <3>3, <3>4 DEF Ok, r
    <3>6. count = conf.length
      BY <2>4 DEF count
    <3>7. ASSUME Counted(s) PROVE Counted(t)
      <4> SUFFICES ASSUME NEW x \in Reqs, Listed(t.ep.list, x) PROVE CountedAt(t, x)
        BY DEF Counted
      <4>1. s.moved[x] = 0
        BY <1>5, <2>4, <3>1, <3>3, <3>7 DEF Counted, CountedAt
      <4>2. At(t, x) <=> x = r
        BY <3>1, <3>3 DEF At, r
      <4>3. QED
        BY <2>2, <2>4, <3>1, <3>3, <3>6, <4>1, <4>2, ConfFacts DEF CountedAt
    <3>8. QED
      BY <1>5, <3>1, <3>3, <3>5, <3>7 DEF Kept, t, r
  <2>5. CASE ~conf.edma
    <3> DEFINE e == [s.ep EXCEPT !.actual = ac]
    <3>1. e \in EpStates /\ e.list = s.ep.list /\ e.on = s.ep.on
          /\ e.desc = s.ep.desc /\ e.busy = s.ep.busy /\ ~e.edmaBusy /\ e.actual = ac
      BY <1>1, <1>5, <2>2, StateFacts, ZenonT(60) DEF EpStates
    <3>2. t = [s EXCEPT !.fifo = fi, !.moved = mv, !.ep = e]
      BY <1>1, <2>3, <2>5, StateFacts DEF TxLoad, count, States
    <3> HIDE DEF fi, mv, e, ac, t
    <3>3. t \in States /\ t.fifo = fi /\ t.moved = mv /\ t.ep = e /\ t.mon = s.mon
      BY <1>1, <2>2, <3>1, <3>2 DEF States
    <3>4. ASSUME NEW x \in Reqs, Bounded(s, x) PROVE Bounded(t, x)
      <4>1. s.ep.actual[x] \in Nat /\ s.ep.actual[r] \in Nat
        BY <1>1, <1>2, StateFacts
      <4>2. QED
        BY <2>1, <2>2, <2>5, <3>1, <3>3, <3>4, <4>1, ConfFacts DEF Bounded
    <3>5. Ok(t)
      BY <1>1, <3>1, <3>3, <3>4 DEF Ok
    <3>6. ASSUME Counted(s) PROVE Counted(t)
      BY <1>2, <2>2, <2>5, <3>1, <3>3, <3>6 DEF Counted, CountedAt
    <3>7. QED
      BY <1>5, <3>1, <3>3, <3>5, <3>6 DEF Kept, t, r
  <2>6. QED
    BY <2>4, <2>5, ConfFacts
<1>6. QED
  BY <1>4, <1>5 DEF r
(* Giving back keeps what holds of the other requests.                      *)
Others(s, r) == \A x \in Reqs : Listed(s.ep.list, x) /\ x # r =>
  s.moved[x] = IF conf.edma THEN 0 ELSE s.ep.actual[x]

LEMMA GivebackOk ==
  ASSUME conf \in Configs, NEW s \in States, Once(s.ep.list),
         NEW r \in Reqs, Listed(s.ep.list, r), NEW status \in {"0", "-ECONNRESET"},
         \A x \in Reqs : Listed(s.ep.list, x) /\ x # r => Bounded(s, x)
  PROVE  LET t == Giveback(s, r, status)
         IN  Ok(t) /\ (Others(s, r) /\ (conf.edma => ~s.dma.done \/ conf.isIn) => Counted(t))
<1> DEFINE t == Giveback(s, r, status)
           again == s.ep.on /\ s.ep.desc
<1>1. /\ t \in States /\ Once(t.ep.list) /\ ~t.ep.edmaBusy /\ t.dma = s.dma
      /\ \A x : Listed(t.ep.list, x) <=> Listed(s.ep.list, x) /\ (x = r => again)
      /\ \A x \in Reqs : x # r => t.ep.actual[x] = s.ep.actual[x] /\ t.moved[x] = s.moved[x]
      /\ again => t.ep.actual[r] = 0 /\ t.moved[r] = 0
  <2>1. t \in States /\ Once(t.ep.list) /\ ~t.ep.edmaBusy /\ t.dma = s.dma
    BY GivebackFacts
  <2>2. \A x : Listed(t.ep.list, x) <=> Listed(s.ep.list, x) /\ (x = r => again)
    BY GivebackFacts
  <2>3. \A x \in Reqs : x # r => t.ep.actual[x] = s.ep.actual[x] /\ t.moved[x] = s.moved[x]
    BY GivebackFacts
  <2>4. again => t.ep.actual[r] = 0 /\ t.moved[r] = 0
    BY GivebackFacts
  <2>5. QED
    BY <2>1, <2>2, <2>3, <2>4
<1> HIDE DEF t
<1>2. ASSUME NEW x \in Reqs, Listed(t.ep.list, x) PROVE Bounded(t, x)
  <2>1. CASE x = r
    BY <1>1, <1>2, <2>1, ConfFacts DEF Bounded
  <2>2. CASE x # r
    BY <1>1, <1>2, <2>2 DEF Bounded
  <2>3. QED
    BY <2>1, <2>2
<1>3. ASSUME Others(s, r), conf.edma => ~s.dma.done \/ conf.isIn,
             NEW x \in Reqs, Listed(t.ep.list, x)
      PROVE  CountedAt(t, x)
  <2>1. CASE x = r
    BY <1>1, <1>3, <2>1, ConfFacts DEF CountedAt
  <2>2. CASE x # r
    BY <1>1, <1>3, <2>2, ConfFacts DEF CountedAt, Others
  <2>3. QED
    BY <2>1, <2>2
<1>4. QED
  BY <1>1, <1>2, <1>3 DEF Ok, Counted, t

(* rxstate for the head of the queue, up to the completion.                 *)
LEMMA RxReadFacts ==
  ASSUME conf \in Configs, ~conf.isIn, NEW s, Ok(s), s.ep.list # <<>>
  PROVE  LET t == RxRead(s, Head(s.ep.list))
         IN  /\ Ok(t) /\ Kept(s, t) /\ Armed(t)
             /\ Counted(s) /\ Filled(s) /\ (~conf.edma \/ s.ep.edmaBusy \/ ~s.dma.done)
                  => Counted(t) /\ Filled(t)
             /\ t.fifo.ready => s.fifo.ready
             /\ t.dma.done => s.dma.done
             /\ ~s.fifo.ready => t.ep.actual = s.ep.actual
<1> DEFINE r == Head(s.ep.list)
           t == RxRead(s, r)
<1>1. s \in States /\ Once(s.ep.list)
  BY DEF Ok
<1>2. r \in Reqs /\ Listed(s.ep.list, r)
  BY <1>1, HeadListed, StateFacts
<1>3. /\ s.ep \in EpStates /\ s.fifo \in Fifos /\ s.dma \in Channels
      /\ s.moved \in [Reqs -> Nat] /\ s.ep.actual \in [Reqs -> Nat] /\ s.fifo.size \in Nat
  BY <1>1, StateFacts
<1>4. CASE conf.edma /\ s.ep.edmaBusy
  BY <1>4 DEF RxRead, Kept, Armed
<1>5. CASE conf.edma /\ ~s.ep.edmaBusy
  <2> DEFINE d == [req |-> r, done |-> FALSE]
             e == [s.ep EXCEPT !.edmaBusy = TRUE]
  <2>1. e \in EpStates /\ d \in Channels /\ e.list = s.ep.list /\ e.on = s.ep.on
        /\ e.desc = s.ep.desc /\ e.busy = s.ep.busy /\ e.edmaBusy /\ e.actual = s.ep.actual
        /\ d.req = r /\ ~d.done
    BY <1>2, <1>3, ReqFacts DEF EpStates, Channels
  <2>2. t = [s EXCEPT !.ep = e, !.dma = d]
    BY <1>1, <1>5 DEF RxRead, States
  <2> HIDE DEF e, d, t
  <2>3. t \in States /\ t.fifo = s.fifo /\ t.moved = s.moved /\ t.ep = e /\ t.dma = d /\ t.mon = s.mon
    BY <1>1, <2>1, <2>2 DEF States
  <2>4. \A x \in Reqs : Bounded(s, x) => Bounded(t, x)
    BY <2>1, <2>3 DEF Bounded
  <2>5. Ok(t)
    BY <1>1, <1>5, <2>1, <2>3, <2>4 DEF Ok, r
  <2>6. Kept(s, t) /\ Armed(t)
    BY <2>1, <2>3 DEF Kept, Armed
  <2>7. ASSUME Counted(s), Filled(s), ~s.dma.done PROVE Counted(t) /\ Filled(t)
    <3>1. Counted(t)
      BY <1>5, <2>1, <2>3, <2>7 DEF Counted, CountedAt
    <3>2. Filled(t)
      BY <1>5, <2>1, <2>3, <2>7 DEF Filled
    <3>3. QED
      BY <3>1, <3>2
  <2>8. QED
    BY <1>5, <2>1, <2>3, <2>5, <2>6, <2>7 DEF t, r
<1>6. CASE ~conf.edma
  <2>1. Filled(t) /\ Armed(t)
    BY <1>6 DEF Filled, Armed
  <2>2. CASE ~(s.fifo.ready /\ s.ep.actual[r] < conf.length)
    <3>1. t = s
      BY <1>6, <2>2 DEF RxRead
    <3> HIDE DEF t
    <3>2. QED
      BY <2>1, <3>1 DEF Kept, t, r
  <2>3. CASE s.fifo.ready /\ s.ep.actual[r] < conf.length
    <3> DEFINE ac == [s.ep.actual EXCEPT ![r] = @ + s.fifo.size]
               e == [s.ep EXCEPT !.actual = ac]
               fi == [s.fifo EXCEPT !.ready = FALSE]
               mv == [s.moved EXCEPT ![r] = @ + s.fifo.size]
    <3>1. /\ ac \in [Reqs -> Nat] /\ mv \in [Reqs -> Nat]
          /\ ac[r] = s.ep.actual[r] + s.fifo.size /\ mv[r] = s.moved[r] + s.fifo.size
          /\ \A x \in Reqs : x # r => ac[x] = s.ep.actual[x] /\ mv[x] = s.moved[x]
      <4>. DEFINE a == s.ep.actual[r]
                  m == s.moved[r]
                  z == s.fifo.size
      <4>0. a \in Nat /\ m \in Nat /\ z \in Nat
        BY <1>2, <1>3
      <4>. HIDE DEF a, m, z
      <4>1. a + z \in Nat /\ m + z \in Nat
        BY <4>0
      <4>. USE DEF a, m, z
      <4>2. QED
        BY <1>2, <1>3, <4>1
    <3>2. fi \in Fifos /\ ~fi.ready
      BY <1>3 DEF Fifos
    <3>3. /\ e \in EpStates /\ e.list = s.ep.list /\ e.on = s.ep.on /\ e.desc = s.ep.desc
          /\ e.busy = s.ep.busy /\ e.edmaBusy = s.ep.edmaBusy /\ e.actual = ac
      BY <1>3, <3>1 DEF EpStates
    <3>4. t = [s EXCEPT !.ep = e, !.fifo = fi, !.moved = mv]
      BY <1>1, <1>3, <1>6, <2>3 DEF RxRead, States
    <3> HIDE DEF ac, e, fi, mv, t
    <3>5. t \in States /\ t.fifo = fi /\ t.moved = mv /\ t.ep = e /\ t.dma = s.dma /\ t.mon = s.mon
      BY <1>1, <3>1, <3>2, <3>3, <3>4 DEF States
    <3>6. \A x \in Reqs : Bounded(t, x)
      BY <1>6 DEF Bounded
    <3>7. Ok(t)
      BY <1>1, <1>6, <3>3, <3>5, <3>6 DEF Ok
    <3>8. ASSUME Counted(s) PROVE Counted(t)
      BY <1>2, <1>6, <3>1, <3>3, <3>5, <3>8 DEF Counted, CountedAt
    <3>9. QED
      BY <2>1, <2>3, <3>2, <3>3, <3>5, <3>7, <3>8 DEF Kept, t, r
  <2>4. QED
    BY <2>2, <2>3
<1>7. QED
  BY <1>4, <1>5, <1>6, ConfFacts
-----------------------------------------------------------------------------
(* The head of the queue starts.                                            *)

(* The queue keeps its requests while the stream is on, in some order.      *)
SameQueue(s, t) == \A x \in Reqs :
  /\ Listed(t.ep.list, x) => Listed(s.ep.list, x)
  /\ s.ep.on /\ s.ep.desc /\ Listed(s.ep.list, x) => Listed(t.ep.list, x)

Started(s, t) ==
  /\ Ok(t) /\ Armed(t)
  /\ t.ep.on = s.ep.on /\ t.ep.desc = s.ep.desc /\ t.ep.busy = s.ep.busy
  /\ t.mon.stale = s.mon.stale /\ t.mon.lost = s.mon.lost
  /\ SameQueue(s, t)
  /\ ~conf.isIn => (t.fifo.ready => s.fifo.ready) /\ (t.dma.done => s.dma.done)
  /\ Counted(s) /\ Filled(s) /\ (conf.isIn \/ ~conf.edma \/ s.ep.edmaBusy \/ ~s.dma.done) =>
       Counted(t) /\ Filled(t) /\ t.mon.lie = s.mon.lie

(* rxstate for the head of the queue, the completion included.              *)
LEMMA RxStateFacts ==
  ASSUME conf \in Configs, ~conf.isIn, NEW s, Ok(s), s.ep.list # <<>>
  PROVE  Started(s, RxState(s, Head(s.ep.list)))
<1> DEFINE r == Head(s.ep.list)
           u == RxRead(s, r)
           t == RxState(s, r)
<1>1. /\ Ok(u) /\ Kept(s, u) /\ Armed(u)
      /\ Counted(s) /\ Filled(s) /\ (~conf.edma \/ s.ep.edmaBusy \/ ~s.dma.done) => Counted(u) /\ Filled(u)
      /\ u.fifo.ready => s.fifo.ready
      /\ u.dma.done => s.dma.done
  BY RxReadFacts
<1> HIDE DEF u
<1>2. CASE ~RxEnds(s, r)
  <2>1. t = u
    BY <1>2 DEF RxState, u
  <2>2. QED
    BY <1>1, <2>1 DEF Started, SameQueue, Kept
<1>3. CASE RxEnds(s, r)
  <2>1. t = Giveback(u, r, "0") /\ ~conf.edma
    BY <1>3 DEF RxState, RxEnds, u
  <2>2. u \in States /\ Once(u.ep.list) /\ u.ep.list = s.ep.list
    BY <1>1 DEF Ok, Kept
  <2>3. r \in Reqs /\ Listed(u.ep.list, r)
    BY <2>2, HeadListed, StateFacts
  <2> HIDE DEF r, t
  <2>4. Ok(t) /\ (Others(u, r) => Counted(t))
    BY <1>1, <2>1, <2>2, <2>3, GivebackOk DEF Ok
  <2>5. /\ t.ep.on = u.ep.on /\ t.ep.desc = u.ep.desc /\ t.ep.busy = u.ep.busy
        /\ t.fifo = u.fifo /\ t.dma = u.dma
        /\ t.mon.stale = u.mon.stale /\ t.mon.lost = u.mon.lost
        /\ t.mon.lie = (u.mon.lie \/ Untrue(u, r, "0"))
    BY <2>1, <2>2, <2>3, GivebackFacts
  <2>6. SameQueue(u, t)
    BY <2>1, <2>2, <2>3, GivebackFacts DEF SameQueue
  <2>7. Filled(t) /\ Armed(t)
    BY <2>1 DEF Filled, Armed
  <2>8. ASSUME Counted(u) PROVE Counted(t) /\ t.mon.lie = u.mon.lie
    <3>1. Others(u, r)
      BY <2>1, <2>8 DEF Others, Counted, CountedAt
    <3>2. ~Untrue(u, r, "0")
      BY <2>1, <2>3, <2>8 DEF Untrue, Counted, CountedAt
    <3>3. QED
      BY <2>2, <2>4, <2>5, <3>1, <3>2, StateFacts
  <2>9. QED
    BY <1>1, <2>2, <2>4, <2>5, <2>6, <2>7, <2>8 DEF Started, SameQueue, Kept, t, r
<1>4. QED
  BY <1>2, <1>3

LEMMA StartFacts ==
  ASSUME conf \in Configs, NEW s, Ok(s)
  PROVE  Started(s, StartHead(s))
<1>1. CASE s.ep.list = <<>>
  <2>1. StartHead(s) = s
    BY <1>1 DEF StartHead
  <2>2. QED
    BY <1>1, <2>1 DEF Started, SameQueue, Armed
<1>2. CASE s.ep.list # <<>> /\ conf.isIn
  <2> DEFINE t == TxState(s, Head(s.ep.list))
  <2>1. StartHead(s) = t
    BY <1>2 DEF StartHead
  <2>2. Ok(t) /\ Kept(s, t) /\ (Counted(s) => Counted(t))
    BY <1>2, TxFacts
  <2> HIDE DEF t
  <2>3. QED
    BY <1>2, <2>1, <2>2 DEF Started, SameQueue, Kept, Armed, Filled
<1>3. CASE s.ep.list # <<>> /\ ~conf.isIn
  BY <1>3, RxStateFacts DEF StartHead
<1>4. QED
  BY <1>1, <1>2, <1>3
-----------------------------------------------------------------------------
(* The loops over the requests, in free_ep and in afunc_set_alt.            *)

Loops == {"dequeue", "queue"}
Body(loop, s, r) == IF loop = "dequeue" THEN Dequeue(s, r) ELSE Queue(s, r)
Passes(loop, f, s, n) == f = [r \in 0 .. n |-> IF r = 0 THEN s ELSE Body(loop, f[r - 1], r)]

(* A loop has a run of every length.                                        *)
LEMMA LoopRuns ==
  ASSUME NEW loop, NEW s, NEW n \in Nat
  PROVE  \E f : Passes(loop, f, s, n)
<1> DEFINE S == {k \in Nat : \E f : Passes(loop, f, s, k)}
<1>1. 0 \in S
  <2> DEFINE f == [r \in 0 .. 0 |-> s]
  <2>1. f = [r \in 0 .. 0 |-> IF r = 0 THEN s ELSE Body(loop, f[r - 1], r)]
    OBVIOUS
  <2>2. QED
    BY <2>1 DEF Passes
<1>2. ASSUME NEW k \in Nat, k \in S PROVE k + 1 \in S
  <2>1. PICK f : Passes(loop, f, s, k)
    BY <1>2
  <2> DEFINE g == [r \in 0 .. k + 1 |-> IF r = k + 1 THEN Body(loop, f[k], k + 1) ELSE f[r]]
  <2>2. ASSUME NEW r \in 0 .. k + 1
        PROVE  g[r] = IF r = 0 THEN s ELSE Body(loop, g[r - 1], r)
    <3>1. CASE r = k + 1
      BY <3>1
    <3>2. CASE r # k + 1
      <4>1. r \in 0 .. k /\ g[r] = f[r] /\ (r # 0 => g[r - 1] = f[r - 1])
        BY <3>2
      <4>2. f[r] = IF r = 0 THEN s ELSE Body(loop, f[r - 1], r)
        BY <2>1, <4>1 DEF Passes
      <4>3. QED
        BY <4>1, <4>2
    <3>3. QED
      BY <3>1, <3>2
  <2>3. g = [r \in 0 .. k + 1 |-> IF r = 0 THEN s ELSE Body(loop, g[r - 1], r)]
    BY <2>2, Zenon
  <2>4. Passes(loop, g, s, k + 1)
    BY <2>3 DEF Passes
  <2> HIDE DEF g
  <2>5. QED
    BY <2>4
<1> HIDE DEF S
<1>3. n \in S
  BY <1>1, <1>2, Induct
<1>4. QED
  BY <1>3 DEF S

(* free_ep dequeues every request in turn ...                               *)
LEMMA FreeRuns ==
  ASSUME NEW s, s.ep.on
  PROVE  \E f : /\ f[0] = [s EXCEPT !.ep.on = FALSE]
                /\ \A r \in Reqs : f[r] = Dequeue(f[r - 1], r)
                /\ FreeEp(s) = [f[UsbXfers] EXCEPT !.ep.desc = FALSE, !.ep.busy = TRUE]
<1> DEFINE t == [s EXCEPT !.ep.on = FALSE]
           g == CHOOSE h : h = [r \in 0 .. UsbXfers |-> IF r = 0 THEN t ELSE Dequeue(h[r - 1], r)]
<1>1. FreeEp(s) = [g[UsbXfers] EXCEPT !.ep.desc = FALSE, !.ep.busy = TRUE]
  BY DEF FreeEp
<1> HIDE DEF t
<1>2. PICK f : Passes("dequeue", f, t, UsbXfers)
  BY LoopRuns, ReqFacts
<1>3. f = [r \in 0 .. UsbXfers |-> IF r = 0 THEN t ELSE Dequeue(f[r - 1], r)]
  BY <1>2 DEF Passes, Body
<1>4. g = [r \in 0 .. UsbXfers |-> IF r = 0 THEN t ELSE Dequeue(g[r - 1], r)]
  BY <1>3
<1> HIDE DEF g
<1>5. g[0] = t
  BY <1>4, ReqFacts
<1>6. ASSUME NEW r \in Reqs PROVE g[r] = Dequeue(g[r - 1], r)
  <2>1. r \in 0 .. UsbXfers /\ r # 0
    BY ReqFacts
  <2>2. QED
    BY <1>4, <2>1
<1>7. QED
  BY <1>1, <1>5, <1>6 DEF t

(* ... and afunc_set_alt queues them.                                       *)
LEMMA SetAltRuns ==
  ASSUME NEW s
  PROVE  \E f : /\ f[0] = [Enable(FreeEp(s)) EXCEPT
                             !.ep.on = TRUE,
                             !.mon = [lie |-> FALSE, lost |-> FALSE, stale |-> latched \/ irq]]
                /\ \A r \in Reqs : f[r] = Queue(f[r - 1], r)
                /\ SetAlt(s) = f[UsbXfers]
<1> DEFINE t == [Enable(FreeEp(s)) EXCEPT
                   !.ep.on = TRUE,
                   !.mon = [lie |-> FALSE, lost |-> FALSE, stale |-> latched \/ irq]]
           g == CHOOSE h : h = [r \in 0 .. UsbXfers |-> IF r = 0 THEN t ELSE Queue(h[r - 1], r)]
<1>1. SetAlt(s) = g[UsbXfers]
  BY DEF SetAlt
<1> HIDE DEF t
<1>2. PICK f : Passes("queue", f, t, UsbXfers)
  BY LoopRuns, ReqFacts
<1>3. f = [r \in 0 .. UsbXfers |-> IF r = 0 THEN t ELSE Queue(f[r - 1], r)]
  BY <1>2 DEF Passes, Body
<1>4. g = [r \in 0 .. UsbXfers |-> IF r = 0 THEN t ELSE Queue(g[r - 1], r)]
  BY <1>3
<1> HIDE DEF g
<1>5. g[0] = t
  BY <1>4, ReqFacts
<1>6. ASSUME NEW r \in Reqs PROVE g[r] = Queue(g[r - 1], r)
  <2>1. r \in 0 .. UsbXfers /\ r # 0
    BY ReqFacts
  <2>2. QED
    BY <1>4, <2>1
<1>7. QED
  BY <1>1, <1>5, <1>6 DEF t
(* free_ep empties the queue, and touches neither the FIFO nor the channel. *)
LEMMA FreeFacts ==
  ASSUME conf \in Configs, NEW s, Ok(s), s.ep.on = s.ep.desc, ~s.ep.on => s.ep.list = <<>>
  PROVE  LET t == FreeEp(s)
         IN  /\ Ok(t) /\ ~t.ep.on /\ ~t.ep.desc /\ t.ep.list = <<>>
             /\ t.fifo = s.fifo /\ t.dma = s.dma /\ t.mon = s.mon
<1>1. CASE ~s.ep.on
  <2>1. FreeEp(s) = s
    BY <1>1 DEF FreeEp
  <2>2. QED
    BY <1>1, <2>1
<1>2. CASE s.ep.on
  <2> DEFINE n == UsbXfers
             e0 == [s.ep EXCEPT !.on = FALSE]
             s0 == [s EXCEPT !.ep.on = FALSE]
             Part(t, k) ==
               /\ Ok(t) /\ ~t.ep.on /\ \A x \in Reqs : Listed(t.ep.list, x) => x > k
               /\ t.fifo = s.fifo /\ t.dma = s.dma /\ t.mon = s.mon
  <2>1. PICK f : /\ f[0] = s0
                 /\ \A r \in Reqs : f[r] = Dequeue(f[r - 1], r)
                 /\ FreeEp(s) = [f[n] EXCEPT !.ep.desc = FALSE, !.ep.busy = TRUE]
    BY <1>2, FreeRuns
  <2> DEFINE S == {k \in Nat : k <= n => Part(f[k], k)}
  <2>2. s \in States /\ s.ep \in EpStates
    BY StateFacts DEF Ok
  <2>3. Part(s0, 0)
    <3>1. /\ e0 \in EpStates /\ e0.list = s.ep.list /\ ~e0.on /\ e0.edmaBusy = s.ep.edmaBusy
          /\ e0.actual = s.ep.actual
      BY <2>2 DEF EpStates
    <3>2. s0 = [s EXCEPT !.ep = e0]
      BY <2>2 DEF States
    <3> HIDE DEF e0, s0
    <3>3. s0 \in States /\ s0.ep = e0 /\ s0.fifo = s.fifo /\ s0.dma = s.dma /\ s0.mon = s.mon
      BY <2>2, <3>1, <3>2 DEF States
    <3>4. Ok(s0)
      BY <3>1, <3>3 DEF Ok, Bounded
    <3>5. QED
      BY <3>1, <3>3, <3>4, ReqFacts
  <2> HIDE DEF s0
  <2>4. 0 \in S
    BY <2>1, <2>3
  <2>5. ASSUME NEW k \in Nat, k \in S PROVE k + 1 \in S
    <3> SUFFICES ASSUME k + 1 <= n PROVE Part(f[k + 1], k + 1)
      OBVIOUS
    <3> DEFINE t == f[k]
               r == k + 1
    <3>1. Part(t, k) /\ r \in Reqs /\ f[r] = Dequeue(t, r)
      <4>1. k <= n /\ r \in Reqs /\ r - 1 = k
        BY ReqFacts DEF Reqs
      <4>2. QED
        BY <2>1, <2>5, <4>1
    <3> HIDE DEF t, r
    <3>2. CASE ~Listed(t.ep.list, r)
      <4>1. f[r] = t
        BY <3>1, <3>2 DEF Dequeue
      <4>2. ASSUME NEW x \in Reqs, Listed(t.ep.list, x) PROVE x > k + 1
        BY <3>1, <3>2, <4>2, ReqFacts DEF r
      <4>3. QED
        BY <3>1, <4>1, <4>2 DEF r
    <3>3. CASE Listed(t.ep.list, r)
      <4> DEFINE u == Giveback(t, r, "-ECONNRESET")
      <4>1. f[r] = u
        BY <3>1, <3>3 DEF Dequeue
      <4>2. t \in States /\ Once(t.ep.list) /\ \A x \in Reqs : Listed(t.ep.list, x) => Bounded(t, x)
        BY <3>1 DEF Ok
      <4>3. Ok(u)
        BY <3>1, <3>3, <4>2, GivebackOk
      <4>4. /\ u \in States /\ u.ep.on = t.ep.on /\ u.fifo = t.fifo /\ u.dma = t.dma
            /\ u.mon.stale = t.mon.stale /\ u.mon.lost = t.mon.lost
            /\ u.mon.lie = (t.mon.lie \/ Untrue(t, r, "-ECONNRESET"))
        BY <3>1, <3>3, <4>2, GivebackFacts
      <4>5. \A x : Listed(u.ep.list, x) <=> Listed(t.ep.list, x) /\ (x = r => t.ep.on /\ t.ep.desc)
        BY <3>1, <3>3, <4>2, GivebackFacts
      <4> HIDE DEF u
      <4>6. u.mon = t.mon
        <5>1. u.mon \in Monitors /\ t.mon \in Monitors
          BY <4>2, <4>4, StateFacts
        <5>2. u.mon.lie = t.mon.lie
          BY <4>4, <5>1 DEF Untrue, Monitors
        <5>3. QED
          BY <4>4, <5>1, <5>2 DEF Monitors
      <4>7. ASSUME NEW x \in Reqs, Listed(u.ep.list, x) PROVE x > k + 1
        <5>1. x > k /\ x # r
          BY <3>1, <4>5, <4>7
        <5>2. QED
          BY <5>1, ReqFacts DEF r
      <4>8. QED
        BY <3>1, <4>1, <4>3, <4>4, <4>6, <4>7 DEF r
    <3>4. QED
      BY <3>2, <3>3
  <2> HIDE DEF S
  <2>6. n \in S
    BY <2>4, <2>5, Induct, ReqFacts
  <2> DEFINE t == f[n]
             e == [t.ep EXCEPT !.desc = FALSE, !.busy = TRUE]
             u == FreeEp(s)
  <2>7. Part(t, n)
    BY <2>6, ReqFacts DEF S
  <2>8. t \in States /\ t.ep \in EpStates /\ t.ep.list \in Seq(Reqs)
    BY <2>7, StateFacts DEF Ok
  <2>9. t.ep.list = <<>>
    BY <2>7, <2>8, HeadListed, ReqFacts
  <2>10. /\ e \in EpStates /\ e.list = t.ep.list /\ ~e.on /\ ~e.desc /\ e.edmaBusy = t.ep.edmaBusy
         /\ e.actual = t.ep.actual
    BY <2>7, <2>8 DEF EpStates
  <2>11. u = [t EXCEPT !.ep = e]
    BY <2>1, <2>8 DEF States
  <2> HIDE DEF e, u, t
  <2>12. u \in States /\ u.ep = e /\ u.fifo = t.fifo /\ u.dma = t.dma /\ u.mon = t.mon
    BY <2>8, <2>10, <2>11 DEF States
  <2>13. Ok(u)
    BY <2>7, <2>10, <2>12 DEF Ok, Bounded
  <2>14. QED
    BY <2>7, <2>9, <2>10, <2>12, <2>13 DEF u
<1>3. QED
  BY <1>1, <1>2
(* What musb_gadget_queue finds while a setting is being selected, and the  *)
(* state it leaves for the next call.                                       *)
Selecting(s) ==
  /\ Ok(s) /\ Good(s) /\ s.ep.on /\ s.ep.desc /\ ~s.ep.busy
  /\ ~conf.isIn => ~s.fifo.ready /\ ~s.dma.done

(* The request joins the queue.                                             *)
LEMMA QueueBusyFacts ==
  ASSUME conf \in Configs, NEW s, Selecting(s), NEW r \in Reqs, ~Listed(s.ep.list, r)
  PROVE  LET u == QueueBusy(s, r)
         IN  /\ Ok(u) /\ Counted(u) /\ Filled(u) /\ u.ep.list = Append(s.ep.list, r)
             /\ u.ep.on /\ u.ep.desc /\ ~u.ep.busy /\ u.ep.edmaBusy = s.ep.edmaBusy
             /\ u.fifo = s.fifo /\ u.dma = s.dma /\ u.mon = s.mon
<1> DEFINE ac == [s.ep.actual EXCEPT ![r] = 0]
           st == [s.ep.status EXCEPT ![r] = InProgress]
           l == Append(s.ep.list, r)
           e == [s.ep EXCEPT !.actual = ac, !.status = st, !.list = l]
           mv == [s.moved EXCEPT ![r] = 0]
           u == QueueBusy(s, r)
<1>1. /\ s \in States /\ Once(s.ep.list) /\ s.ep \in EpStates /\ s.ep.list \in Seq(Reqs)
      /\ s.moved \in [Reqs -> Nat] /\ s.ep.actual \in [Reqs -> Nat]
      /\ s.ep.status \in [Reqs -> Statuses] /\ s.ep.desc
  BY StateFacts DEF Selecting, Ok
<1>2. /\ l \in Seq(Reqs) /\ Once(l) /\ l # <<>>
      /\ Head(l) = IF s.ep.list = <<>> THEN r ELSE Head(s.ep.list)
      /\ \A x : Listed(l, x) <=> Listed(s.ep.list, x) \/ x = r
  BY <1>1, AppendFacts
<1>3. /\ ac \in [Reqs -> Nat] /\ mv \in [Reqs -> Nat] /\ st \in [Reqs -> Statuses]
      /\ ac[r] = 0 /\ mv[r] = 0
      /\ \A x \in Reqs : x # r => ac[x] = s.ep.actual[x] /\ mv[x] = s.moved[x]
  BY <1>1 DEF Statuses
<1>4. u = [s EXCEPT !.ep = e, !.moved = mv]
  BY <1>1 DEF QueueBusy, States, EpStates
<1> HIDE DEF ac, st, l, mv
<1>5. /\ e \in EpStates /\ e.list = l /\ e.actual = ac /\ e.on = s.ep.on /\ e.desc = s.ep.desc
      /\ e.busy = s.ep.busy /\ e.edmaBusy = s.ep.edmaBusy
  BY <1>1, <1>2, <1>3 DEF EpStates
<1> HIDE DEF e, u
<1>6. u \in States /\ u.ep = e /\ u.moved = mv /\ u.fifo = s.fifo /\ u.dma = s.dma /\ u.mon = s.mon
  BY <1>1, <1>3, <1>4, <1>5 DEF States
<1>7. ASSUME NEW x \in Reqs, Listed(l, x) PROVE Bounded(u, x)
  <2>1. CASE x = r
    BY <1>3, <1>5, <1>6, <2>1, ConfFacts DEF Bounded
  <2>2. CASE x # r
    BY <1>2, <1>3, <1>5, <1>6, <1>7, <2>2 DEF Bounded, Selecting, Ok
  <2>3. QED
    BY <2>1, <2>2
<1>8. Ok(u)
  BY <1>2, <1>5, <1>6, <1>7 DEF Ok, Selecting
<1>9. ASSUME NEW x \in Reqs, Listed(l, x) PROVE CountedAt(u, x)
  <2>1. CASE x = r
    <3>1. s.ep.edmaBusy => Head(l) # r
      <4>1. s.ep.edmaBusy => s.ep.list # <<>> /\ Listed(s.ep.list, Head(s.ep.list))
        BY <1>1, HeadListed DEF Selecting, Ok
      <4>2. QED
        BY <1>2, <4>1
    <3>2. QED
      BY <1>2, <1>3, <1>5, <1>6, <2>1, <3>1, ConfFacts DEF CountedAt, At, Selecting
  <2>2. CASE x # r
    <3>1. CountedAt(s, x) /\ Listed(s.ep.list, x)
      BY <1>2, <1>9, <2>2 DEF Selecting, Good, Counted
    <3>2. s.ep.list # <<>>
      BY <3>1 DEF Listed
    <3>3. At(u, x) <=> At(s, x)
      BY <1>2, <1>5, <1>6, <3>2 DEF At
    <3>4. QED
      BY <1>3, <1>5, <1>6, <2>2, <3>1, <3>3 DEF CountedAt
  <2>3. QED
    BY <2>1, <2>2
<1>10. Filled(u)
  BY <1>6 DEF Filled, Selecting, Good
<1>11. QED
  BY <1>1, <1>5, <1>6, <1>8, <1>9, <1>10 DEF Counted, Selecting, u, l

(* ... and starts if it is the only one.                                    *)
LEMMA QueueFacts ==
  ASSUME conf \in Configs, NEW s, Selecting(s), NEW r \in Reqs, ~Listed(s.ep.list, r)
  PROVE  LET t == Queue(s, r)
         IN  /\ Selecting(t)
             /\ t.mon.lie = s.mon.lie /\ t.mon.lost = s.mon.lost /\ t.mon.stale = s.mon.stale
             /\ \A x \in Reqs : Listed(t.ep.list, x) <=> Listed(s.ep.list, x) \/ x = r
<1> DEFINE u == QueueBusy(s, r)
           t == Queue(s, r)
           l == Append(s.ep.list, r)
<1>1. /\ Ok(u) /\ Counted(u) /\ Filled(u) /\ u.ep.list = l
      /\ u.ep.on /\ u.ep.desc /\ ~u.ep.busy /\ u.ep.edmaBusy = s.ep.edmaBusy
      /\ u.fifo = s.fifo /\ u.dma = s.dma /\ u.mon = s.mon
  BY QueueBusyFacts
<1>2. /\ s.ep.list \in Seq(Reqs) /\ Once(s.ep.list)
  BY StateFacts DEF Selecting, Ok
<1>3. /\ l # <<>> /\ Head(l) = (IF s.ep.list = <<>> THEN r ELSE Head(s.ep.list))
      /\ \A x : Listed(l, x) <=> Listed(s.ep.list, x) \/ x = r
  BY <1>2, AppendFacts
<1> HIDE DEF l
<1>4. t = IF Head(u.ep.list) = r THEN StartHead(u) ELSE u
  BY <1>1, <1>3 DEF Queue, StartHead
<1> HIDE DEF u, t
<1>5. CASE Head(l) = r
  <2>1. t = StartHead(u) /\ Started(u, t)
    BY <1>1, <1>4, <1>5, StartFacts
  <2>2. conf.isIn \/ ~u.dma.done
    BY <1>1 DEF Selecting
  <2>3. Counted(t) /\ Filled(t) /\ t.mon.lie = u.mon.lie
    BY <1>1, <2>1, <2>2 DEF Started, SameQueue
  <2>4. QED
    BY <1>1, <1>3, <2>1, <2>3 DEF Started, SameQueue, Selecting, Good, t
<1>6. CASE Head(l) # r
  <2>1. t = u /\ Armed(u)
    BY <1>1, <1>3, <1>4, <1>6 DEF Armed, Selecting, Good
  <2>2. QED
    BY <1>1, <1>3, <2>1 DEF Selecting, Good, t
<1>7. QED
  BY <1>5, <1>6

(* afunc_set_alt: whatever was there before, the new setting starts clean.  *)
LEMMA SetAltFacts ==
  ASSUME conf \in Configs, latched \in BOOLEAN, irq \in BOOLEAN,
         NEW s, Ok(s), s.ep.on = s.ep.desc, ~s.ep.on => s.ep.list = <<>>
  PROVE  LET t == SetAlt(s)
         IN  /\ Selecting(t) /\ ~t.mon.lie /\ ~t.mon.lost /\ t.mon.stale = (latched \/ irq)
             /\ \A x \in Reqs : Listed(t.ep.list, x)
<1> DEFINE n == UsbXfers
           v == FreeEp(s)
           m == [lie |-> FALSE, lost |-> FALSE, stale |-> latched \/ irq]
           e == [v.ep EXCEPT !.desc = TRUE, !.busy = FALSE, !.on = TRUE]
           t0 == [Enable(v) EXCEPT !.ep.on = TRUE, !.mon = m]
           Part(t, k) ==
             /\ Selecting(t) /\ ~t.mon.lie /\ ~t.mon.lost /\ t.mon.stale = (latched \/ irq)
             /\ \A x \in Reqs : Listed(t.ep.list, x) <=> x <= k
<1>1. Ok(v) /\ v.ep.list = <<>>
  BY FreeFacts
<1>2. PICK f : f[0] = t0 /\ (\A r \in Reqs : f[r] = Queue(f[r - 1], r)) /\ SetAlt(s) = f[n]
  BY SetAltRuns
<1> HIDE DEF v
<1>3. v \in States /\ v.ep \in EpStates /\ ~v.ep.edmaBusy
  BY <1>1, StateFacts DEF Ok
<1>4. Part(t0, 0)
  <2>1. m \in Monitors /\ EmptyFifo \in Fifos /\ NoDma \in Channels
    BY ReqFacts DEF Monitors, Fifos, Channels, EmptyFifo, NoDma
  <2>2. /\ e \in EpStates /\ e.list = <<>> /\ e.on /\ e.desc /\ ~e.busy /\ ~e.edmaBusy
    BY <1>1, <1>3 DEF EpStates
  <2>3. t0 = [v EXCEPT !.ep = e, !.fifo = EmptyFifo, !.dma = NoDma, !.mon = m]
    BY <1>3 DEF Enable, States
  <2> HIDE DEF e, t0
  <2>4. /\ t0 \in States /\ t0.ep = e /\ t0.fifo = EmptyFifo /\ t0.dma = NoDma /\ t0.mon = m
    BY <1>3, <2>1, <2>2, <2>3 DEF States
  <2>5. \A x : ~Listed(t0.ep.list, x)
    BY <2>2, <2>4 DEF Listed
  <2>6. Once(t0.ep.list)
    BY <2>2, <2>4 DEF Once
  <2>7. ~t0.fifo.ready /\ ~t0.dma.done
    BY <2>4 DEF EmptyFifo, NoDma
  <2>8. Ok(t0) /\ Good(t0)
    BY <2>2, <2>4, <2>5, <2>6, <2>7 DEF Ok, Good, Counted, Filled, Armed
  <2>9. QED
    BY <2>2, <2>4, <2>5, <2>7, <2>8, ReqFacts DEF Selecting
<1> HIDE DEF t0
<1> DEFINE S == {k \in Nat : k <= n => Part(f[k], k)}
<1>5. 0 \in S
  BY <1>2, <1>4
<1>6. ASSUME NEW k \in Nat, k \in S PROVE k + 1 \in S
  <2> SUFFICES ASSUME k + 1 <= n PROVE Part(f[k + 1], k + 1)
    OBVIOUS
  <2> DEFINE t == f[k]
             r == k + 1
             u == Queue(t, r)
  <2>1. Part(t, k) /\ r \in Reqs /\ f[r] = u
    <3>1. k <= n /\ r \in Reqs /\ r - 1 = k
      BY ReqFacts DEF Reqs
    <3>2. QED
      BY <1>2, <1>6, <3>1
  <2>2. ~Listed(t.ep.list, r)
    BY <2>1
  <2>3. /\ Selecting(u)
        /\ u.mon.lie = t.mon.lie /\ u.mon.lost = t.mon.lost /\ u.mon.stale = t.mon.stale
        /\ \A x \in Reqs : Listed(u.ep.list, x) <=> Listed(t.ep.list, x) \/ x = r
    BY <2>1, <2>2, QueueFacts
  <2> HIDE DEF t, u
  <2>4. ASSUME NEW x \in Reqs PROVE Listed(u.ep.list, x) <=> x <= k + 1
    BY <2>1, <2>3, <2>4, ReqFacts
  <2>5. QED
    BY <2>1, <2>3, <2>4
<1> HIDE DEF S
<1>7. n \in S
  BY <1>5, <1>6, Induct, ReqFacts
<1>8. QED
  BY <1>2, <1>7, ReqFacts DEF S
-----------------------------------------------------------------------------
(* The interrupt handlers.                                                  *)

Handled(s, t) ==
  /\ Ok(t) /\ t.ep.on = s.ep.on /\ t.ep.desc = s.ep.desc /\ t.mon.stale = s.mon.stale
  /\ SameQueue(s, t)

(* A queue that is empty stays so.                                          *)
LEMMA EmptyStays ==
  ASSUME NEW s, NEW t, Ok(s), Handled(s, t), s.ep.list = <<>>
  PROVE  t.ep.list = <<>>
<1>1. t.ep.list \in Seq(Reqs) /\ \A x \in Reqs : ~Listed(t.ep.list, x)
  BY StateFacts DEF Handled, SameQueue, Ok, Listed
<1>2. QED
  BY <1>1, HeadListed

(* txstate leaves a packet that is still there.                             *)
LEMMA StartKeeps ==
  ASSUME conf.isIn, NEW s, s.fifo.ready
  PROVE  StartHead(s) = s
BY DEF StartHead, TxState

(* musb_g_tx: the request it gives back has been fetched.                   *)
LEMMA GTxFacts ==
  ASSUME conf \in Configs, conf.isIn, NEW s, Ok(s)
  PROVE  LET t == GTx(s)
         IN  /\ Handled(s, t) /\ t.mon.lost = s.mon.lost
             /\ s.fifo.ready => t.fifo = s.fifo
             /\ Good(s) /\ ~s.fifo.ready => Good(t) /\ t.mon.lie = s.mon.lie
<1>1. CASE s.ep.list = <<>>
  BY <1>1 DEF GTx, Handled, SameQueue
<1>2. CASE s.ep.list # <<>>
  <2> DEFINE r == Head(s.ep.list)
             u == IF s.ep.edmaBusy THEN [s EXCEPT !.ep.actual[r] = @ + conf.length] ELSE s
             v == IF u.ep.actual[r] = conf.length THEN Giveback(u, r, "0") ELSE u
             t == GTx(s)
  <2>1. t = StartHead(v)
    BY <1>2 DEF GTx
  <2>2. s \in States /\ Once(s.ep.list) /\ s.ep \in EpStates /\ s.ep.actual \in [Reqs -> Nat]
    BY StateFacts DEF Ok
  <2>3. r \in Reqs /\ Listed(s.ep.list, r)
    BY <1>2, <2>2, HeadListed, StateFacts
  <2>4. Bounded(s, r) /\ \A x \in Reqs : Listed(s.ep.list, x) => Bounded(s, x)
    BY <2>3 DEF Ok
  <2>5. \A x \in Reqs : At(s, x) <=> x = r
    BY <1>2 DEF At
  <2> HIDE DEF r
  <2>6. /\ u \in States /\ u.ep.list = s.ep.list /\ u.ep.on = s.ep.on /\ u.ep.desc = s.ep.desc
        /\ u.ep.edmaBusy = s.ep.edmaBusy /\ u.fifo = s.fifo /\ u.dma = s.dma
        /\ u.moved = s.moved /\ u.mon = s.mon
        /\ \A x \in Reqs : x # r => u.ep.actual[x] = s.ep.actual[x]
        /\ u.ep.actual[r] = IF s.ep.edmaBusy THEN conf.length ELSE s.ep.actual[r]
    <3>1. CASE ~s.ep.edmaBusy
      BY <2>2, <3>1
    <3>2. CASE s.ep.edmaBusy
      <4> DEFINE ac == [s.ep.actual EXCEPT ![r] = @ + conf.length]
                 e == [s.ep EXCEPT !.actual = ac]
      <4>1. s.ep.actual[r] = 0 /\ 0 + conf.length = conf.length /\ conf.length \in Nat
        BY <2>4, <3>2, ConfFacts DEF Bounded, Ok
      <4>2. ac \in [Reqs -> Nat] /\ ac[r] = conf.length /\ \A x \in Reqs : x # r => ac[x] = s.ep.actual[x]
        BY <2>2, <2>3, <4>1
      <4>3. u = [s EXCEPT !.ep = e]
        BY <2>2, <3>2 DEF States, EpStates
      <4> HIDE DEF ac, u
      <4>4. /\ e \in EpStates /\ e.list = s.ep.list /\ e.on = s.ep.on /\ e.desc = s.ep.desc
            /\ e.edmaBusy = s.ep.edmaBusy /\ e.actual = ac
        BY <2>2, <4>2 DEF EpStates
      <4> HIDE DEF e
      <4>5. /\ u \in States /\ u.ep = e /\ u.fifo = s.fifo /\ u.dma = s.dma /\ u.moved = s.moved
            /\ u.mon = s.mon
        BY <2>2, <4>3, <4>4 DEF States
      <4>6. QED
        BY <3>2, <4>2, <4>4, <4>5
    <3>3. QED
      BY <3>1, <3>2
  <2> HIDE DEF u
  <2>7. CASE u.ep.actual[r] = conf.length
    <3>1. v = Giveback(u, r, "0") /\ Listed(u.ep.list, r) /\ Once(u.ep.list)
      BY <2>2, <2>3, <2>6, <2>7
    <3>2. \A x \in Reqs : Listed(u.ep.list, x) /\ x # r => Bounded(u, x)
      BY <2>4, <2>6 DEF Bounded
    <3> HIDE DEF v, t
    <3>3. Ok(v) /\ (Others(u, r) => Counted(v))
      BY <2>3, <2>6, <3>1, <3>2, GivebackOk
    <3>4. /\ v.ep.on = u.ep.on /\ v.ep.desc = u.ep.desc /\ v.fifo = u.fifo
          /\ v.mon.stale = u.mon.stale /\ v.mon.lost = u.mon.lost
          /\ v.mon.lie = (u.mon.lie \/ Untrue(u, r, "0"))
      BY <2>3, <2>6, <3>1, GivebackFacts
    <3>5. SameQueue(u, v)
      BY <2>3, <2>6, <3>1, GivebackFacts DEF SameQueue
    <3>6. Started(v, t)
      BY <2>1, <3>3, StartFacts
    <3>7. Handled(s, t) /\ t.mon.lost = s.mon.lost
      BY <2>6, <3>4, <3>5, <3>6 DEF Handled, Started, SameQueue
    <3>8. ASSUME Good(s), ~s.fifo.ready PROVE Good(t) /\ t.mon.lie = s.mon.lie
      <4>1. \A x \in Reqs : Listed(s.ep.list, x) => CountedAt(s, x)
        BY <3>8 DEF Good, Counted
      <4>2. Others(u, r)
        <5> SUFFICES ASSUME NEW x \in Reqs, Listed(u.ep.list, x), x # r
                     PROVE  u.moved[x] = IF conf.edma THEN 0 ELSE u.ep.actual[x]
          BY DEF Others
        <5>1. CountedAt(s, x) /\ ~At(s, x)
          BY <2>5, <2>6, <4>1
        <5>2. QED
          BY <2>6, <5>1 DEF CountedAt
      <4>3. s.moved[r] = u.ep.actual[r]
        <5>1. CountedAt(s, r) /\ At(s, r)
          BY <2>3, <2>5, <4>1
        <5>2. conf.edma => s.ep.edmaBusy
          BY <2>4, <2>6, <2>7, ConfFacts DEF Bounded
        <5>3. s.ep.edmaBusy => conf.edma
          BY DEF Ok
        <5>4. QED
          BY <2>6, <5>1, <5>2, <5>3 DEF CountedAt
      <4>4. ~Untrue(u, r, "0")
        BY <2>6, <3>8, <4>3 DEF Untrue
      <4>5. v.mon.lie = u.mon.lie
        BY <2>6, <3>4, <4>4, StateFacts
      <4>6. Counted(v) /\ Filled(v)
        BY <3>3, <4>2 DEF Filled
      <4>7. Counted(t) /\ Filled(t) /\ Armed(t) /\ t.mon.lie = v.mon.lie
        BY <3>6, <4>6 DEF Started, SameQueue
      <4>8. QED
        BY <2>6, <4>5, <4>7 DEF Good
    <3>9. s.fifo.ready => t.fifo = s.fifo
      BY <2>1, <2>6, <3>4, StartKeeps
    <3>10. QED
      BY <3>7, <3>8, <3>9 DEF t
  <2>8. CASE u.ep.actual[r] # conf.length
    <3>1. ~s.ep.edmaBusy /\ v = u
      BY <2>6, <2>8
    <3>2. u = s
      BY <3>1 DEF u
    <3> HIDE DEF v, t
    <3>3. Started(s, t)
      BY <2>1, <3>1, <3>2, StartFacts
    <3>4. s.fifo.ready => t.fifo = s.fifo
      BY <2>1, <3>1, <3>2, StartKeeps
    <3>5. QED
      BY <3>3, <3>4 DEF Handled, Started, SameQueue, Good, t
  <2>9. QED
    BY <2>7, <2>8
<1>3. QED
  BY <1>1, <1>2
(* musb_g_rx down to the poll: a status, at most.                           *)
LEMMA GRxBeginFacts ==
  ASSUME conf \in Configs, NEW s, Ok(s)
  PROVE  LET t == GRxBegin(s)
         IN  /\ Handled(s, t) /\ t.mon = s.mon
             /\ t.ep.edmaBusy = s.ep.edmaBusy /\ t.ep.list = s.ep.list
             /\ t.fifo.ready = s.fifo.ready
             /\ Good(s) => Good(t)
<1> DEFINE r == Head(s.ep.list)
           t == GRxBegin(s)
<1>1. CASE s.ep.list = <<>> \/ ~s.fifo.overrun
  BY <1>1 DEF GRxBegin, Handled, SameQueue
<1>2. CASE ~(s.ep.list = <<>> \/ ~s.fifo.overrun)
  <2> DEFINE st == [s.ep.status EXCEPT ![r] = IF @ = InProgress THEN "-EOVERFLOW" ELSE @]
             e == [s.ep EXCEPT !.status = st]
             fi == [s.fifo EXCEPT !.overrun = FALSE]
  <2>1. s \in States /\ s.ep \in EpStates /\ s.fifo \in Fifos /\ s.ep.status \in [Reqs -> Statuses]
    BY StateFacts DEF Ok
  <2>2. st \in [Reqs -> Statuses] /\ fi \in Fifos
        /\ fi.ready = s.fifo.ready /\ fi.size = s.fifo.size /\ fi.from = s.fifo.from
    BY <2>1 DEF Statuses, Fifos
  <2>3. t = [s EXCEPT !.ep = e, !.fifo = fi]
    BY <1>2, <2>1 DEF GRxBegin, States, EpStates
  <2> HIDE DEF st, fi, t
  <2>4. /\ e \in EpStates /\ e.list = s.ep.list /\ e.on = s.ep.on /\ e.desc = s.ep.desc
        /\ e.edmaBusy = s.ep.edmaBusy /\ e.actual = s.ep.actual
    BY <2>1, <2>2 DEF EpStates
  <2> HIDE DEF e
  <2>5. /\ t \in States /\ t.ep = e /\ t.fifo = fi /\ t.dma = s.dma /\ t.moved = s.moved
        /\ t.mon = s.mon
    BY <2>1, <2>2, <2>3, <2>4 DEF States
  <2>6. Ok(t)
    BY <2>4, <2>5 DEF Ok, Bounded
  <2>7. ASSUME Good(s) PROVE Good(t)
    BY <2>2, <2>4, <2>5, <2>7 DEF Good, Counted, CountedAt, At, Filled, Armed
  <2>8. QED
    BY <2>2, <2>4, <2>5, <2>6, <2>7 DEF Handled, SameQueue, t
<1>3. QED
  BY <1>1, <1>2

(* musb_g_rx after the poll: if the channel is done, the request it gives   *)
(* back has the packet, and the packet it acknowledges is in the buffer.    *)
LEMMA GRxDmaFacts ==
  ASSUME conf \in Configs, ~conf.isIn, NEW s, Ok(s), s.ep.edmaBusy
  PROVE  LET t == GRxDma(s)
         IN  /\ Handled(s, t)
             /\ Good(s) /\ s.dma.done /\ conf.length = PacketSz =>
                  Good(t) /\ t.mon.lie = s.mon.lie /\ t.mon.lost = s.mon.lost
<1> DEFINE r == Head(s.ep.list)
           ac == [s.ep.actual EXCEPT ![r] = @ + conf.length]
           e == [s.ep EXCEPT !.actual = ac]
           fi == [s.fifo EXCEPT !.ready = FALSE]
           m == [s.mon EXCEPT !.lost = @ \/ (s.fifo.ready /\ s.fifo.from = 0)]
           d == [s.dma EXCEPT !.done = FALSE]
           u == [s EXCEPT !.ep.actual[r] = @ + conf.length, !.fifo.ready = FALSE,
                          !.mon.lost = @ \/ (s.fifo.ready /\ s.fifo.from = 0),
                          !.dma.done = FALSE]
           v == Giveback(u, r, "0")
           t == GRxDma(s)
<1>1. t = StartHead(v)
  BY DEF GRxDma
<1>2. /\ s \in States /\ Once(s.ep.list) /\ s.ep \in EpStates /\ s.fifo \in Fifos
      /\ s.dma \in Channels /\ s.mon \in Monitors /\ s.ep.actual \in [Reqs -> Nat]
      /\ s.mon.lost \in BOOLEAN /\ conf.edma /\ s.ep.list # <<>>
  BY StateFacts DEF Ok
<1>3. r \in Reqs /\ Listed(s.ep.list, r)
  BY <1>2, HeadListed, StateFacts
<1>4. Bounded(s, r) /\ \A x \in Reqs : Listed(s.ep.list, x) => Bounded(s, x)
  BY <1>3 DEF Ok
<1>5. \A x \in Reqs : At(s, x) <=> x = r
  BY <1>2 DEF At
<1> HIDE DEF r
<1>6. /\ u \in States /\ u.ep.list = s.ep.list /\ u.ep.on = s.ep.on /\ u.ep.desc = s.ep.desc
      /\ ~u.fifo.ready /\ ~u.dma.done /\ u.moved = s.moved
      /\ u.mon.lie = s.mon.lie /\ u.mon.stale = s.mon.stale
      /\ u.mon.lost = (s.mon.lost \/ (s.fifo.ready /\ s.fifo.from = 0))
      /\ \A x \in Reqs : x # r => u.ep.actual[x] = s.ep.actual[x]
      /\ u.ep.actual[r] = conf.length
  <2>1. s.ep.actual[r] = 0 /\ 0 + conf.length = conf.length /\ conf.length \in Nat
    BY <1>2, <1>4, ConfFacts DEF Bounded
  <2>2. ac \in [Reqs -> Nat] /\ ac[r] = conf.length /\ \A x \in Reqs : x # r => ac[x] = s.ep.actual[x]
    BY <1>2, <1>3, <2>1
  <2>3. fi \in Fifos /\ ~fi.ready /\ d \in Channels /\ ~d.done
    BY <1>2 DEF Fifos, Channels
  <2>4. /\ m \in Monitors /\ m.lie = s.mon.lie /\ m.stale = s.mon.stale
        /\ m.lost = (s.mon.lost \/ (s.fifo.ready /\ s.fifo.from = 0))
    BY <1>2 DEF Monitors
  <2>5. u = [s EXCEPT !.ep = e, !.fifo = fi, !.mon = m, !.dma = d]
    BY <1>2 DEF States, EpStates
  <2> HIDE DEF ac, fi, m, d, u
  <2>6. /\ e \in EpStates /\ e.list = s.ep.list /\ e.on = s.ep.on /\ e.desc = s.ep.desc
        /\ e.actual = ac
    BY <1>2, <2>2 DEF EpStates
  <2> HIDE DEF e
  <2>7. /\ u \in States /\ u.ep = e /\ u.fifo = fi /\ u.dma = d /\ u.moved = s.moved
        /\ u.mon = m
    BY <1>2, <2>3, <2>4, <2>5, <2>6 DEF States
  <2>8. QED
    BY <2>2, <2>3, <2>4, <2>6, <2>7
<1> HIDE DEF u
<1>7. Listed(u.ep.list, r) /\ Once(u.ep.list) /\ \A x \in Reqs : Listed(u.ep.list, x) /\ x # r => Bounded(u, x)
  BY <1>2, <1>3, <1>4, <1>6 DEF Bounded
<1> HIDE DEF t
<1>8. Ok(v) /\ (Others(u, r) => Counted(v))
  BY <1>3, <1>6, <1>7, GivebackOk
<1>9. /\ v.ep.on = u.ep.on /\ v.ep.desc = u.ep.desc /\ v.fifo = u.fifo /\ v.dma = u.dma
      /\ v.mon.stale = u.mon.stale /\ v.mon.lost = u.mon.lost
      /\ v.mon.lie = (u.mon.lie \/ Untrue(u, r, "0"))
  BY <1>3, <1>6, <1>7, GivebackFacts
<1>10. SameQueue(u, v)
  BY <1>3, <1>6, <1>7, GivebackFacts DEF SameQueue
<1> HIDE DEF v
<1>11. Started(v, t)
  BY <1>1, <1>8, StartFacts
<1>12. Handled(s, t)
  BY <1>6, <1>9, <1>10, <1>11 DEF Handled, Started, SameQueue
<1>13. ASSUME Good(s), s.dma.done, conf.length = PacketSz
       PROVE  Good(t) /\ t.mon.lie = s.mon.lie /\ t.mon.lost = s.mon.lost
  <2>1. \A x \in Reqs : Listed(s.ep.list, x) => CountedAt(s, x)
    BY <1>13 DEF Good, Counted
  <2>2. s.moved[r] = PacketSz /\ \A x \in Reqs : Listed(s.ep.list, x) /\ x # r => s.moved[x] = 0
    BY <1>2, <1>3, <1>5, <1>13, <2>1 DEF CountedAt
  <2>3. Others(u, r)
    BY <1>2, <1>6, <2>2 DEF Others
  <2>4. ~Untrue(u, r, "0")
    BY <1>6, <1>13, <2>2 DEF Untrue
  <2>5. v.mon.lie = s.mon.lie
    BY <1>2, <1>6, <1>9, <2>4 DEF Monitors
  <2>6. v.mon.lost = s.mon.lost
    BY <1>2, <1>6, <1>9, <1>13 DEF Good, Filled
  <2>7. Counted(v) /\ Filled(v) /\ ~v.dma.done
    BY <1>6, <1>8, <1>9, <2>3 DEF Filled
  <2>8. Counted(t) /\ Filled(t) /\ Armed(t) /\ t.mon.lie = v.mon.lie /\ t.mon.lost = v.mon.lost
    BY <1>11, <2>7 DEF Started, SameQueue
  <2>9. QED
    BY <2>5, <2>6, <2>8 DEF Good
<1>14. QED
  BY <1>12, <1>13 DEF t
-----------------------------------------------------------------------------
(* The inductive invariant.                                                 *)

(* Where the handler is, what it has latched, and the stream being on with  *)
(* every request queued, or off with none.                                  *)
Control ==
  /\ conf \in Configs
  /\ pc \in {"idle", "stage0", "nuke", "ep0", "ep", "poll"}
  /\ irq \in BOOLEAN /\ latched \in BOOLEAN
  /\ sets \in 0 .. MaxSets
  /\ pc = "poll" => ep.edmaBusy /\ ~conf.isIn
  /\ pc \in {"idle", "poll"} => ~latched
Switched(s) ==
  /\ s.ep.on = s.ep.desc
  /\ IF s.ep.on THEN \A r \in Reqs : Listed(s.ep.list, r) ELSE s.ep.list = <<>>

(* An interrupt is pending or being handled only for a packet that is there *)
(* (OUT with DMA), or that has gone (IN), and for one packet at a time.     *)
Pending ==
  /\ conf.isIn =>
       /\ ~(irq /\ latched)
       /\ fifo.ready => ~irq /\ ~latched
  /\ ~conf.isIn /\ conf.edma =>
       /\ irq \/ latched \/ pc = "poll" => fifo.ready
       /\ ~(irq /\ latched) /\ ~(irq /\ pc = "poll")

(* What a DMA transfer has to bring for musb_g_rx to tell the truth, which  *)
(* counts the length of the request whatever the channel moved.             *)
OnePacket == \A c \in Configs : ~c.isIn /\ c.edma => c.length = PacketSz /\ ~c.short

(* The books are right while the stream is on, unless the setting was       *)
(* selected with an interrupt of the old one pending.                       *)
Books ==
  /\ monitor.stale \/ (~monitor.lie /\ ~monitor.lost)
  /\ ep.on /\ ~monitor.stale /\ pc # "nuke" => Good(State) /\ Pending

IInv == Control /\ Ok(State) /\ Switched(State) /\ (OnePacket => Books)

LEMMA TheState ==
  /\ State.ep = ep /\ State.fifo = fifo /\ State.dma = dma
  /\ State.moved = moved /\ State.mon = monitor
BY DEF State

(* The state a handler leaves.                                              *)
LEMMA Lands ==
  ASSUME NEW s, Become(s), conf' = conf
  PROVE  /\ ep' = s.ep /\ fifo' = s.fifo /\ dma' = s.dma /\ moved' = s.moved /\ monitor' = s.mon
         /\ Ok(s) => Ok(State)'
         /\ Good(s) => Good(State)'
         /\ Switched(s) => Switched(State)'
<1>1. /\ ep' = s.ep /\ fifo' = s.fifo /\ dma' = s.dma /\ moved' = s.moved /\ monitor' = s.mon
  BY DEF Become
<1>2. /\ State'.ep = s.ep /\ State'.fifo = s.fifo /\ State'.dma = s.dma
      /\ State'.moved = s.moved /\ State'.mon = s.mon
  BY <1>1 DEF State
<1>3. ASSUME Ok(s) PROVE Ok(State)'
  <2>1. (State \in States)'
    BY <1>1, <1>3, StateFacts DEF Ok, State, States
  <2>2. QED
    BY <1>2, <1>3, <2>1 DEF Ok, Bounded
<1>4. ASSUME Good(s) PROVE Good(State)'
  BY <1>2, <1>4 DEF Good, Counted, CountedAt, At, Filled, Armed
<1>5. ASSUME Switched(s) PROVE Switched(State)'
  BY <1>2, <1>5 DEF Switched
<1>6. QED
  BY <1>1, <1>3, <1>4, <1>5
LEMMA StaysSwitched ==
  ASSUME NEW s, NEW t, Ok(s), Handled(s, t), Switched(s)
  PROVE  Switched(t)
BY EmptyStays DEF Handled, SameQueue, Switched

LEMMA InitFacts == Init => IInv
<1> SUFFICES ASSUME Init PROVE IInv
  OBVIOUS
<1>1. State \in States
  BY MusbAssumption, ReqFacts
  DEF Init, State, States, EpStates, Fifos, Channels, Monitors, Statuses, EmptyFifo, NoDma
<1>2. Ok(State)
  BY <1>1, TheState DEF Init, Ok, Once, Listed
<1>3. Control
  <2>1. sets \in 0 .. MaxSets
    BY MusbAssumption DEF Init
  <2>2. pc = "idle" /\ irq = FALSE /\ latched = FALSE /\ conf \in Configs
    BY DEF Init
  <2>3. QED
    BY <2>1, <2>2 DEF Control
<1>4. Switched(State)
  BY TheState DEF Init, Switched
<1>5. Books
  BY DEF Init, Books
<1>6. QED
  BY <1>2, <1>3, <1>4, <1>5 DEF IInv

(* generic_interrupt.                                                       *)
LEMMA ReadStatusStep == ASSUME IInv, ReadStatus PROVE IInv'
<1>1. Become(State) /\ conf' = conf
  BY DEF ReadStatus, Become, State
<1>2. Ok(State)' /\ Switched(State)' /\ (Good(State) => Good(State)')
  BY <1>1, Lands DEF IInv
<1>3. Control'
  BY DEF IInv, Control, ReadStatus
<1>4. ASSUME OnePacket PROVE Books'
  BY <1>2, <1>4 DEF IInv, Control, Books, Pending, ReadStatus
<1>5. QED
  BY <1>2, <1>3, <1>4 DEF IInv, OnePacket

(* musb_stage0_irq.                                                         *)
LEMMA Stage0Step == ASSUME IInv, Stage0 PROVE IInv'
<1> DEFINE e == [ep EXCEPT !.busy = TRUE]
<1>1. CASE pc' = "nuke" /\ ep' = e
  <2>1. State \in States /\ ep \in EpStates
    BY TheState, StateFacts DEF IInv, Ok
  <2>2. /\ e \in EpStates /\ e.list = ep.list /\ e.actual = ep.actual /\ e.on = ep.on
        /\ e.desc = ep.desc /\ e.edmaBusy = ep.edmaBusy
    BY <2>1 DEF EpStates
  <2> HIDE DEF e
  <2>3. /\ State'.ep = e /\ State'.fifo = fifo /\ State'.dma = dma
        /\ State'.moved = moved /\ State'.mon = monitor
    BY <1>1 DEF Stage0, State
  <2>4. (State \in States)'
    BY <1>1, <2>1, <2>2 DEF Stage0, State, States
  <2>5. Ok(State)' /\ Switched(State)'
    BY <2>2, <2>3, <2>4, TheState DEF IInv, Ok, Bounded, Switched, Stage0
  <2>6. Control'
    BY <1>1, <2>2 DEF IInv, Control, Stage0
  <2>7. ASSUME OnePacket PROVE Books'
    BY <1>1, <2>7 DEF IInv, Books, Stage0
  <2>8. QED
    BY <2>5, <2>6, <2>7 DEF IInv, OnePacket
<1>2. CASE pc' = "ep0" /\ UNCHANGED ep
  <2>1. Become(State) /\ conf' = conf
    BY <1>2 DEF Stage0, Become, State
  <2>2. Ok(State)' /\ Switched(State)' /\ (Good(State) => Good(State)')
    BY <2>1, Lands DEF IInv
  <2>3. Control'
    BY <1>2 DEF IInv, Control, Stage0
  <2>4. ASSUME OnePacket PROVE Books'
    BY <1>2, <2>2, <2>4 DEF IInv, Control, Books, Pending, Stage0
  <2>5. QED
    BY <2>2, <2>3, <2>4 DEF IInv, OnePacket
<1>3. QED
  BY <1>1, <1>2 DEF Stage0, Disconnect

(* One turn of nuke.                                                        *)
LEMMA NukeStep == ASSUME IInv, Nuke PROVE IInv'
<1>1. CASE ep.list # <<>>
  <2> DEFINE s == State
             r == Head(ep.list)
             t == Giveback(s, r, "-ECONNRESET")
  <2>1. Become(t) /\ conf' = conf /\ pc' = "nuke" /\ UNCHANGED <<irq, latched, sets>>
    BY <1>1 DEF Nuke
  <2>2. s \in States /\ Once(s.ep.list) /\ \A x \in Reqs : Listed(s.ep.list, x) => Bounded(s, x)
    BY DEF IInv, Ok
  <2>3. r \in Reqs /\ Listed(s.ep.list, r)
    BY <1>1, <2>2, TheState, HeadListed, StateFacts
  <2>4. conf \in Configs
    BY DEF IInv, Control
  <2> HIDE DEF r
  <2>5. Ok(t)
    BY <2>2, <2>3, <2>4, GivebackOk
  <2>6. /\ t.ep.on = s.ep.on /\ t.ep.desc = s.ep.desc
        /\ t.mon.stale = s.mon.stale /\ t.mon.lost = s.mon.lost
        /\ t.mon.lie = (s.mon.lie \/ Untrue(s, r, "-ECONNRESET"))
    BY <2>2, <2>3, GivebackFacts
  <2>7. SameQueue(s, t)
    BY <2>2, <2>3, GivebackFacts DEF SameQueue
  <2> HIDE DEF t
  <2>8. Switched(t)
    <3>1. Handled(s, t)
      BY <2>5, <2>6, <2>7 DEF Handled
    <3>2. QED
      BY <3>1, StaysSwitched DEF IInv
  <2>9. Ok(State)' /\ Switched(State)' /\ monitor' = t.mon
    BY <2>1, <2>5, <2>8, Lands
  <2>10. Control'
    BY <2>1 DEF IInv, Control, Nuke
  <2>11. t.mon.lie = s.mon.lie
    BY <2>2, <2>6, StateFacts DEF Untrue
  <2>12. ASSUME OnePacket PROVE Books'
    BY <2>1, <2>6, <2>9, <2>11, <2>12, TheState DEF IInv, Books
  <2>13. QED
    BY <2>9, <2>10, <2>12 DEF IInv, OnePacket
<1>2. CASE ep.list = <<>>
  <2> DEFINE t == FreeEp(State)
  <2>1. Become(t) /\ conf' = conf /\ pc' = "ep0" /\ UNCHANGED <<irq, latched, sets>>
    BY <1>2 DEF Nuke
  <2>2. Ok(t) /\ ~t.ep.on /\ ~t.ep.desc /\ t.ep.list = <<>> /\ t.mon = State.mon
    BY FreeFacts DEF IInv, Control, Switched
  <2> HIDE DEF t
  <2>3. Switched(t)
    BY <2>2, StateFacts DEF Switched, Ok
  <2>4. Ok(State)' /\ Switched(State)' /\ monitor' = monitor /\ ~ep'.on
    BY <2>1, <2>2, <2>3, Lands, TheState
  <2>5. Control'
    BY <2>1 DEF IInv, Control
  <2>6. ASSUME OnePacket PROVE Books'
    BY <2>4, <2>6 DEF IInv, Books
  <2>7. QED
    BY <2>4, <2>5, <2>6 DEF IInv, OnePacket
<1>3. QED
  BY <1>1, <1>2
(* musb_g_ep0_irq.                                                          *)
LEMMA Ep0Step == ASSUME IInv, Ep0 PROVE IInv'
<1>1. pc = "ep0" /\ pc' = "ep" /\ UNCHANGED <<conf, irq, latched>>
  BY DEF Ep0
<1>2. Control'
  BY <1>1, MusbAssumption DEF IInv, Control, Ep0
<1>3. CASE Become(State)
  <2>1. Ok(State)' /\ Switched(State)' /\ (Good(State) => Good(State)')
        /\ ep' = ep /\ monitor' = monitor /\ fifo' = fifo
    BY <1>1, <1>3, Lands, TheState DEF IInv
  <2>2. ASSUME OnePacket PROVE Books'
    BY <1>1, <2>1, <2>2 DEF IInv, Books, Pending
  <2>3. QED
    BY <1>2, <2>1, <2>2 DEF IInv, OnePacket
<1>4. CASE Become(SetAlt(State))
  <2> DEFINE t == SetAlt(State)
  <2>1. /\ Selecting(t) /\ ~t.mon.lie /\ ~t.mon.lost /\ t.mon.stale = (latched \/ irq)
        /\ \A x \in Reqs : Listed(t.ep.list, x)
    BY SetAltFacts DEF IInv, Control, Switched
  <2> HIDE DEF t
  <2>2. Switched(t)
    BY <2>1 DEF Switched, Selecting
  <2>3. /\ Ok(State)' /\ Switched(State)' /\ Good(State)' /\ monitor' = t.mon
    BY <1>1, <1>4, <2>1, <2>2, Lands DEF Selecting, t
  <2>4. ASSUME OnePacket PROVE Books'
    BY <1>1, <2>1, <2>3 DEF Books, Pending
  <2>5. QED
    BY <1>2, <2>3, <2>4 DEF IInv, OnePacket
<1>5. CASE Become(FreeEp(State))
  <2> DEFINE t == FreeEp(State)
  <2>1. Ok(t) /\ ~t.ep.on /\ ~t.ep.desc /\ t.ep.list = <<>> /\ t.mon = State.mon
    BY FreeFacts DEF IInv, Control, Switched
  <2> HIDE DEF t
  <2>2. Switched(t)
    BY <2>1, StateFacts DEF Switched, Ok
  <2>3. Ok(State)' /\ Switched(State)' /\ monitor' = monitor /\ ~ep'.on
    BY <1>1, <1>5, <2>1, <2>2, Lands, TheState DEF t
  <2>4. ASSUME OnePacket PROVE Books'
    BY <2>3, <2>4 DEF IInv, Books
  <2>5. QED
    BY <1>2, <2>3, <2>4 DEF IInv, OnePacket
<1>6. QED
  BY <1>3, <1>4, <1>5 DEF Ep0

(* With a request queued the DMA of an OUT endpoint is at work.             *)
LEMMA OneIsQueued ==
  ASSUME IInv, ep.on PROVE ep.list # <<>>
<1>1. UsbXfers \in Reqs /\ Listed(ep.list, UsbXfers)
  BY TheState, ReqFacts DEF IInv, Switched, Reqs
<1>2. QED
  BY <1>1 DEF Listed

(* musb_g_tx, or musb_g_rx down to the poll.                                *)
LEMMA EpIrqStep == ASSUME IInv, EpIrq PROVE IInv'
<1> DEFINE s == State
<1>1. /\ pc = "ep" /\ latched' = FALSE /\ UNCHANGED <<conf, irq, sets>>
      /\ conf \in Configs /\ Ok(s) /\ Switched(s)
  BY DEF EpIrq, IInv, Control
<1>2. CASE ~latched
  <2>1. Become(s) /\ pc' = "idle"
    BY <1>2 DEF EpIrq
  <2>2. Ok(State)' /\ Switched(State)' /\ (Good(State) => Good(State)')
        /\ ep' = ep /\ monitor' = monitor /\ fifo' = fifo
    BY <1>1, <2>1, Lands, TheState
  <2>3. Control'
    BY <1>1, <2>1 DEF IInv, Control
  <2>4. ASSUME OnePacket PROVE Books'
    BY <1>1, <1>2, <2>1, <2>2, <2>4 DEF IInv, Books, Pending
  <2>5. QED
    BY <2>2, <2>3, <2>4 DEF IInv, OnePacket
<1>3. CASE latched /\ conf.isIn
  <2> DEFINE t == GTx(s)
  <2>1. Become(t) /\ pc' = "idle"
    BY <1>3 DEF EpIrq
  <2>2. /\ Handled(s, t) /\ t.mon.lost = s.mon.lost
        /\ Good(s) /\ ~s.fifo.ready => Good(t) /\ t.mon.lie = s.mon.lie
    BY <1>1, <1>3, GTxFacts
  <2> HIDE DEF t
  <2>3. Ok(t) /\ Switched(t)
    BY <1>1, <2>2, StaysSwitched DEF Handled
  <2>4. /\ Ok(State)' /\ Switched(State)' /\ (Good(t) => Good(State)')
        /\ ep'.on = ep.on /\ monitor' = t.mon
    BY <1>1, <2>1, <2>2, <2>3, Lands, TheState DEF Handled
  <2>5. Control'
    BY <1>1, <2>1 DEF IInv, Control
  <2>6. ASSUME OnePacket PROVE Books'
    <3>1. CASE ep.on /\ ~monitor.stale
      <4>1. Good(s) /\ ~s.fifo.ready /\ ~irq /\ ~monitor.lie /\ ~monitor.lost
        BY <1>1, <1>3, <2>6, <3>1, TheState DEF IInv, Books, Pending
      <4>2. Good(t) /\ ~t.mon.lie /\ ~t.mon.lost
        BY <2>2, <4>1, TheState
      <4>3. Pending'
        BY <1>1, <1>3, <4>1 DEF Pending
      <4>4. QED
        BY <2>4, <4>2, <4>3 DEF Books
    <3>2. CASE monitor.stale
      BY <2>2, <2>4, <3>2, TheState DEF Books, Handled
    <3>3. CASE ~ep.on
      <4>1. ep.list = <<>>
        BY <1>1, <3>3, TheState DEF Switched
      <4>2. t = s
        BY <4>1, TheState DEF GTx, t
      <4>3. QED
        BY <2>4, <2>6, <3>3, <4>2, TheState DEF IInv, Books
    <3>4. QED
      BY <3>1, <3>2, <3>3
  <2>7. QED
    BY <2>4, <2>5, <2>6 DEF IInv, OnePacket
<1>4. CASE latched /\ ~conf.isIn
  <2> DEFINE u == GRxBegin(s)
  <2>1. /\ Handled(s, u) /\ u.mon = s.mon /\ u.ep.edmaBusy = s.ep.edmaBusy
        /\ u.ep.list = s.ep.list /\ (Good(s) => Good(u)) /\ u.fifo.ready = s.fifo.ready
    BY <1>1, GRxBeginFacts
  <2>2. IF u.ep.edmaBusy THEN Become(u) /\ pc' = "poll"
                         ELSE Become(StartHead(u)) /\ pc' = "idle"
    BY <1>4 DEF EpIrq
  <2> HIDE DEF u
  <2>3. Ok(u) /\ Switched(u)
    BY <1>1, <2>1, StaysSwitched DEF Handled
  <2>4. CASE u.ep.edmaBusy
    <3>1. /\ Ok(State)' /\ Switched(State)' /\ (Good(s) => Good(State)')
          /\ ep'.on = ep.on /\ monitor' = monitor /\ ep'.edmaBusy /\ fifo'.ready = fifo.ready
      BY <1>1, <2>1, <2>2, <2>3, <2>4, Lands, TheState DEF Handled
    <3>2. Control'
      BY <1>1, <1>4, <2>2, <2>4, <3>1 DEF IInv, Control
    <3>3. ASSUME OnePacket PROVE Books'
      BY <1>1, <1>4, <2>2, <2>4, <3>1, <3>3 DEF IInv, Books, Pending
    <3>4. QED
      BY <3>1, <3>2, <3>3 DEF IInv, OnePacket
  <2>5. CASE ~u.ep.edmaBusy
    <3> DEFINE t == StartHead(u)
    <3>1. Started(u, t)
      BY <1>1, <2>3, StartFacts
    <3> HIDE DEF t
    <3>2. Handled(u, t) /\ t.mon.lost = u.mon.lost
      BY <3>1 DEF Started, Handled
    <3>3. Ok(t) /\ Switched(t)
      BY <2>3, <3>2, StaysSwitched DEF Handled
    <3>4. /\ Ok(State)' /\ Switched(State)' /\ (Good(t) => Good(State)')
          /\ ep'.on = ep.on /\ monitor' = t.mon /\ pc' = "idle"
      BY <1>1, <2>1, <2>2, <2>5, <3>2, <3>3, Lands, TheState DEF Handled, t
    <3>5. Control'
      BY <1>1, <3>4 DEF IInv, Control
    <3>6. ASSUME OnePacket PROVE Books'
      <4>1. CASE ep.on /\ ~monitor.stale
        <5>1. Good(s) /\ ~monitor.lie /\ ~monitor.lost /\ s.ep.list # <<>>
          BY <1>1, <3>6, <4>1, OneIsQueued, TheState DEF IInv, Books
        <5>2. ~conf.edma
          BY <1>4, <2>1, <2>5, <5>1 DEF Good, Armed
        <5>3. Good(t) /\ t.mon.lie = s.mon.lie
          <6>1. Counted(u) => Counted(t) /\ t.mon.lie = s.mon.lie
            BY <2>1, <3>1, <5>2 DEF Started, Filled
          <6>2. QED
            BY <2>1, <5>1, <5>2, <6>1 DEF Good, Filled, Armed
        <5>4. QED
          BY <1>1, <1>4, <2>1, <3>2, <3>4, <5>1, <5>2, <5>3, TheState DEF Books, Pending
      <4>2. CASE monitor.stale
        BY <2>1, <3>2, <3>4, <4>2, TheState DEF Books, Handled
      <4>3. CASE ~ep.on
        <5>1. ep.list = <<>>
          BY <1>1, <4>3, TheState DEF Switched
        <5>2. t = u
          BY <2>1, <5>1, TheState DEF StartHead, t
        <5>3. QED
          BY <2>1, <3>4, <3>6, <4>3, <5>2, TheState DEF IInv, Books
      <4>4. QED
        BY <4>1, <4>2, <4>3
    <3>7. QED
      BY <3>4, <3>5, <3>6 DEF IInv, OnePacket
  <2>6. QED
    BY <2>4, <2>5
<1>5. QED
  BY <1>1, <1>2, <1>3, <1>4, ConfFacts
(* musb_g_rx after the poll, whether the channel was done or the time up.   *)
LEMMA PollStep == ASSUME IInv, PollDone \/ PollTimeout PROVE IInv'
<1> DEFINE s == State
           t == GRxDma(s)
<1>1. /\ pc = "poll" /\ pc' = "idle" /\ Become(t) /\ UNCHANGED <<conf, irq, latched, sets>>
      /\ dma.done \/ (~dma.done /\ (fifo.ready => fifo.from # 0))
  BY DEF PollDone, PollTimeout
<1>2. /\ conf \in Configs /\ ~conf.isIn /\ Ok(s) /\ s.ep.edmaBusy /\ Switched(s)
      /\ latched = FALSE
  BY <1>1, TheState DEF IInv, Control
<1>3. conf.edma /\ ep.on
  BY <1>2, TheState DEF Ok, Switched
<1>4. /\ Handled(s, t)
      /\ Good(s) /\ s.dma.done /\ conf.length = PacketSz =>
           Good(t) /\ t.mon.lie = s.mon.lie /\ t.mon.lost = s.mon.lost
  BY <1>2, GRxDmaFacts
<1> HIDE DEF t
<1>5. Ok(t) /\ Switched(t)
  BY <1>2, <1>4, StaysSwitched DEF Handled
<1>6. Ok(State)' /\ Switched(State)' /\ (Good(t) => Good(State)') /\ monitor' = t.mon
  BY <1>1, <1>5, Lands
<1>7. Control'
  BY <1>1, <1>2 DEF IInv, Control
<1>8. ASSUME OnePacket PROVE Books'
  <2>1. CASE monitor.stale
    BY <1>4, <1>6, <2>1, TheState DEF Books, Handled
  <2>2. CASE ~monitor.stale
    <3>1. Good(s) /\ Pending /\ ~monitor.lie /\ ~monitor.lost
      BY <1>1, <1>3, <1>8, <2>2 DEF IInv, Books
    <3>2. fifo.ready /\ ~irq
      BY <1>1, <1>2, <1>3, <3>1 DEF Pending
    <3>3. dma.done
      BY <1>1, <1>2, <1>3, <3>1, <3>2, TheState DEF Good, Filled
    <3>4. conf.length = PacketSz
      BY <1>2, <1>3, <1>8 DEF OnePacket
    <3>5. Good(t) /\ ~t.mon.lie /\ ~t.mon.lost
      BY <1>4, <3>1, <3>3, <3>4, TheState
    <3>6. Pending'
      BY <1>1, <1>2, <3>2 DEF Pending
    <3>7. QED
      BY <1>6, <3>5, <3>6 DEF Books
  <2>3. QED
    BY <2>1, <2>2
<1>9. QED
  BY <1>6, <1>7, <1>8 DEF IInv, OnePacket

(* The hardware does not touch the queue.                                   *)
LEMMA QueueUntouched ==
  ASSUME IInv, UNCHANGED <<conf, ep, monitor>>,
         fifo' \in Fifos, dma' \in Channels, dma'.req = dma.req, moved' \in [Reqs -> Nat]
  PROVE  Ok(State)' /\ Switched(State)'
<1>1. /\ State'.ep = ep /\ State'.dma = dma' /\ State'.moved = moved'
  BY DEF State
<1>2. ep \in EpStates /\ monitor \in Monitors
  BY TheState, StateFacts DEF IInv, Ok
<1>3. (State \in States)'
  BY <1>2 DEF State, States
<1>4. QED
  BY <1>1, <1>3, TheState DEF IInv, Ok, Bounded, Switched

(* A packet arrives.                                                        *)
LEMMA HostSendsStep == ASSUME IInv, HostSends PROVE IInv'
<1>1. /\ ~conf.isIn /\ ep.desc /\ UNCHANGED <<conf, pc, latched, ep, dma, moved, monitor, sets>>
  BY DEF HostSends
<1>2. /\ fifo \in Fifos /\ dma \in Channels /\ moved \in [Reqs -> Nat] /\ conf \in Configs
      /\ irq \in BOOLEAN
  BY TheState, StateFacts DEF IInv, Ok, Control
<1>3. CASE fifo.ready
  <2>1. fifo' = [fifo EXCEPT !.overrun = TRUE] /\ irq' = irq
    BY <1>3 DEF HostSends
  <2>2. /\ fifo' \in Fifos /\ fifo'.ready = fifo.ready /\ fifo'.size = fifo.size
        /\ fifo'.from = fifo.from
    BY <1>2, <2>1 DEF Fifos
  <2>3. Ok(State)' /\ Switched(State)'
    BY <1>1, <1>2, <2>2, QueueUntouched
  <2>4. Control'
    BY <1>1, <2>1 DEF IInv, Control
  <2>5. Good(State) => Good(State)'
    BY <1>1, <2>2 DEF Good, Counted, CountedAt, At, Filled, Armed, State
  <2>6. ASSUME OnePacket PROVE Books'
    BY <1>1, <2>1, <2>2, <2>5, <2>6 DEF IInv, Books, Pending
  <2>7. QED
    BY <2>3, <2>4, <2>6 DEF IInv, OnePacket
<1>4. CASE ~fifo.ready
  <2>1. PICK size \in IF conf.short THEN 1 .. PacketSz ELSE {PacketSz} :
          fifo' = [fifo EXCEPT !.ready = TRUE, !.size = size, !.from = 0] /\ irq' = TRUE
    BY <1>4 DEF HostSends
  <2>2. size \in Nat /\ (~conf.short => size = PacketSz)
    BY <2>1 DEF PacketSz
  <2>3. fifo' \in Fifos /\ fifo'.ready /\ fifo'.size = size /\ fifo'.from = 0
    <3>1. 0 \in 0 .. UsbXfers
      BY ReqFacts
    <3>2. QED
      BY <1>2, <2>1, <2>2, <3>1 DEF Fifos
  <2>4. Ok(State)' /\ Switched(State)'
    BY <1>1, <1>2, <2>3, QueueUntouched
  <2>5. Control'
    BY <1>1, <2>1 DEF IInv, Control
  <2>6. ASSUME OnePacket PROVE Books'
    <3>1. ASSUME ep.on, ~monitor.stale, pc # "nuke" PROVE Good(State)' /\ Pending'
      <4>1. Good(State) /\ Pending
        BY <2>6, <3>1 DEF IInv, Books
      <4>2. conf.edma => size = PacketSz
        BY <1>1, <1>2, <2>2, <2>6 DEF OnePacket
      <4>3. Good(State)'
        BY <1>1, <1>4, <2>3, <4>1, <4>2 DEF Good, Counted, CountedAt, At, Filled, Armed, State
      <4>4. Pending'
        BY <1>1, <1>2, <1>4, <2>1, <2>3, <4>1 DEF Pending
      <4>5. QED
        BY <4>3, <4>4
    <3>2. QED
      BY <1>1, <2>6, <3>1 DEF IInv, Books
  <2>7. QED
    BY <2>4, <2>5, <2>6 DEF IInv, OnePacket
<1>5. QED
  BY <1>3, <1>4

(* The host fetches the packet.                                             *)
LEMMA HostFetchesStep == ASSUME IInv, HostFetches PROVE IInv'
<1>1. /\ conf.isIn /\ fifo.ready /\ UNCHANGED <<conf, pc, latched, ep, dma, moved, monitor, sets>>
      /\ fifo' = [fifo EXCEPT !.ready = FALSE] /\ irq' = TRUE
  BY DEF HostFetches
<1>2. fifo \in Fifos /\ dma \in Channels /\ moved \in [Reqs -> Nat]
  BY TheState, StateFacts DEF IInv, Ok
<1>3. fifo' \in Fifos /\ ~fifo'.ready
  BY <1>1, <1>2 DEF Fifos
<1>4. Ok(State)' /\ Switched(State)'
  BY <1>1, <1>2, <1>3, QueueUntouched
<1>5. Control'
  BY <1>1 DEF IInv, Control
<1>6. Good(State) => Good(State)'
  BY <1>1 DEF Good, Counted, CountedAt, At, Filled, Armed, State
<1>7. ASSUME OnePacket PROVE Books'
  BY <1>1, <1>3, <1>6, <1>7 DEF IInv, Books, Pending
<1>8. QED
  BY <1>4, <1>5, <1>7 DEF IInv, OnePacket

(* The channel moves the packet into the buffer of the head.                *)
LEMMA DmaDrainsStep == ASSUME IInv, DmaDrains PROVE IInv'
<1> DEFINE q == dma.req
           sum == moved[q] + fifo.size
           full == moved'[q] >= conf.length
<1>1. /\ ~conf.isIn /\ conf.edma /\ fifo.ready /\ fifo.from = 0 /\ q # 0 /\ ~dma.done
      /\ fifo' = [fifo EXCEPT !.from = q]
      /\ moved' = [moved EXCEPT ![q] = sum]
      /\ dma' = [dma EXCEPT !.done = full]
      /\ UNCHANGED <<conf, pc, irq, latched, ep, monitor, sets>>
  BY DEF DmaDrains
<1>2. /\ fifo \in Fifos /\ dma \in Channels /\ moved \in [Reqs -> Nat] /\ conf \in Configs
      /\ fifo.size \in Nat
  BY TheState, StateFacts DEF IInv, Ok, Control
<1>3. q \in Reqs /\ q \in 0 .. UsbXfers
  <2>1. q \in 0 .. UsbXfers
    BY <1>2 DEF Channels
  <2>2. QED
    BY <1>1, <2>1, ReqFacts DEF Reqs
<1>4. sum \in Nat
  <2>1. moved[q] \in Nat
    BY <1>2, <1>3
  <2> DEFINE m == moved[q]
             z == fifo.size
  <2> HIDE DEF m, z
  <2>2. m \in Nat /\ z \in Nat
    BY <1>2, <2>1 DEF m, z
  <2>3. m + z \in Nat
    BY <2>2
  <2>4. QED
    BY <2>3 DEF m, z
<1> HIDE DEF q
<1>5. fifo' \in Fifos /\ fifo'.ready /\ fifo'.from = q /\ fifo'.size = fifo.size
  BY <1>1, <1>2, <1>3 DEF Fifos
<1>6. /\ moved' \in [Reqs -> Nat] /\ moved'[q] = sum
      /\ \A x \in Reqs : x # q => moved'[x] = moved[x]
  BY <1>1, <1>2, <1>3, <1>4
<1>7. full \in BOOLEAN /\ (sum = conf.length => full)
  <2> HIDE DEF sum
  <2>1. moved'[q] \in Nat /\ conf.length \in Nat
    BY <1>2, <1>4, <1>6, ConfFacts
  <2>2. QED
    BY <1>6, <2>1
<1> HIDE DEF full
<1>8. dma' \in Channels /\ dma'.req = q /\ dma'.done = full
  BY <1>1, <1>2, <1>7 DEF Channels, q
<1>9. Ok(State)' /\ Switched(State)'
  BY <1>1, <1>2, <1>5, <1>6, <1>8, QueueUntouched DEF q
<1>10. Control'
  BY <1>1 DEF IInv, Control
<1>11. ASSUME OnePacket PROVE Books'
  <2>1. ASSUME ep.on, ~monitor.stale, pc # "nuke" PROVE Good(State)' /\ Pending'
    <3>1. Good(State) /\ Pending
      BY <1>11, <2>1 DEF IInv, Books
    <3>2. ep.list # <<>> /\ ep.edmaBusy /\ q = Head(ep.list)
      BY <1>1, <2>1, <3>1, OneIsQueued, TheState DEF IInv, Ok, Good, Armed, q
    <3>3. \A x \in Reqs : Listed(ep.list, x) => moved[x] = 0
      BY <1>1, <3>1, TheState DEF Good, Counted, CountedAt
    <3>4. Listed(ep.list, q) /\ fifo.size = PacketSz /\ conf.length = PacketSz
      <4>1. Listed(ep.list, q)
        BY <2>1, <1>3, TheState DEF IInv, Switched
      <4>2. QED
        BY <1>1, <1>2, <1>11, <3>1, <4>1, TheState DEF Good, Filled, OnePacket
    <3>5. sum = PacketSz /\ dma'.done
      <4>1. moved[q] = 0
        BY <1>3, <3>3, <3>4
      <4>2. sum = PacketSz
        BY <3>4, <4>1 DEF PacketSz
      <4> HIDE DEF sum
      <4>3. QED
        BY <1>7, <1>8, <3>4, <4>2
    <3>6. Counted(State)'
      BY <1>1, <1>6, <3>2, <3>3, <3>5 DEF Counted, CountedAt, At, State
    <3>7. Filled(State)'
      BY <1>1, <1>5, <3>4, <3>5 DEF Filled, State
    <3>8. Armed(State)'
      BY <1>1, <3>2 DEF Armed, State
    <3>9. Pending'
      BY <1>1, <1>5, <3>1 DEF Pending
    <3>10. QED
      BY <3>6, <3>7, <3>8, <3>9 DEF Good
  <2>2. QED
    BY <1>1, <1>11, <2>1 DEF IInv, Books
<1>12. QED
  BY <1>9, <1>10, <1>11 DEF IInv, OnePacket
-----------------------------------------------------------------------------
(* The theorems.                                                            *)

LEMMA NextStep == ASSUME IInv, [Next]_vars PROVE IInv'
<1>1. CASE ReadStatus
  BY <1>1, ReadStatusStep
<1>2. CASE Stage0
  BY <1>2, Stage0Step
<1>3. CASE Nuke
  BY <1>3, NukeStep
<1>4. CASE Ep0
  BY <1>4, Ep0Step
<1>5. CASE EpIrq
  BY <1>5, EpIrqStep
<1>6. CASE PollDone \/ PollTimeout
  BY <1>6, PollStep
<1>7. CASE HostSends
  BY <1>7, HostSendsStep
<1>8. CASE HostFetches
  BY <1>8, HostFetchesStep
<1>9. CASE DmaDrains
  BY <1>9, DmaDrainsStep
<1>10. CASE UNCHANGED vars
  <2>1. Become(State) /\ conf' = conf
    BY <1>10 DEF vars, Become, State
  <2>2. Ok(State)' /\ Switched(State)' /\ (Good(State) => Good(State)')
    BY <2>1, Lands DEF IInv
  <2>3. Control'
    BY <1>10 DEF IInv, Control, vars
  <2>4. ASSUME OnePacket PROVE Books'
    BY <1>10, <2>2, <2>4 DEF IInv, Books, Pending, vars
  <2>5. QED
    BY <2>2, <2>3, <2>4 DEF IInv, OnePacket
<1>11. QED
  BY <1>1, <1>2, <1>3, <1>4, <1>5, <1>6, <1>7, <1>8, <1>9, <1>10 DEF Next, Handler

(* The invariant holds of every reachable state of the endpoint.            *)
THEOREM Invariance == Spec => []IInv
<1>1. Init => IInv
  BY InitFacts
<1>2. IInv /\ [Next]_vars => IInv'
  BY NextStep
<1>3. QED
  BY <1>1, <1>2, PTL DEF Spec

(* The queue holds each request at most once, whatever order requests are   *)
(* given back, dequeued and queued in (musb_g_giveback, musb_gadget_queue). *)
THEOREM TypeCorrect == Spec => []TypeOK
<1>1. IInv => TypeOK
  <2> SUFFICES ASSUME IInv PROVE TypeOK
    OBVIOUS
  <2>1. /\ ep \in EpStates /\ fifo \in Fifos /\ dma \in Channels /\ moved \in [Reqs -> Nat]
        /\ monitor \in Monitors /\ Once(ep.list)
    BY TheState, StateFacts DEF IInv, Ok
  <2>2. QED
    BY <2>1 DEF IInv, Control, TypeOK, EpStates, Fifos, Channels, Monitors, Statuses, Once
<1>2. QED
  BY <1>1, Invariance, PTL

(* musb_g_tx and musb_g_rx use the head of the queue while edma_busy is     *)
(* set: there is one, and it is the one whose buffer the channel was        *)
(* programmed with, also after nuke, dequeue, a new setting or a timed-out  *)
(* poll.                                                                    *)
THEOREM ArmedForHead == Spec => []ArmedIsHead
<1>1. IInv => ArmedIsHead
  BY TheState DEF IInv, Ok, ArmedIsHead
<1>2. QED
  BY <1>1, Invariance, PTL

(* While the function is on its requests are queued, and only then.         *)
EveryRequestQueued == IF ep.on THEN \A r \in Reqs : Listed(ep.list, r) ELSE ep.list = <<>>

(* No request is lost or forgotten: while the function is on, each of its   *)
(* requests is queued (agdev_iso_complete queues it again whatever its      *)
(* status), and when it is off none is (free_ep).                           *)
THEOREM NoneForgotten == Spec => []EveryRequestQueued
<1>1. IInv => EveryRequestQueued
  BY TheState DEF IInv, Switched, EveryRequestQueued
<1>2. QED
  BY <1>1, Invariance, PTL

(* musb_g_giveback with status 0 tells what was moved, and for IN the host  *)
(* has the packet; where the DMA reads, requests are one packet and packets *)
(* are whole.                                                               *)
THEOREM CompletionsTrue == ASSUME OnePacket PROVE Spec => []CompletedTrue
<1>1. IInv => CompletedTrue
  BY DEF IInv, Books, CompletedTrue
<1>2. QED
  BY <1>1, Invariance, PTL

(* musb_g_rx acknowledges no packet the channel has not moved, under the    *)
(* same assumption.                                                         *)
THEOREM NoPacketLost == ASSUME OnePacket PROVE Spec => []NoneLost
<1>1. IInv => NoneLost
  BY DEF IInv, Books, NoneLost
<1>2. QED
  BY <1>1, Invariance, PTL

(* txstate writes no packet over one the host has not fetched, and neither  *)
(* does any other handler but the one that sets the endpoint up anew.       *)
THEOREM PacketsStay == Spec => PacketStays
<1> DEFINE Stays == conf.isIn /\ pc # "ep0" /\ fifo.ready => fifo' = fifo \/ ~fifo'.ready
<1>1. ASSUME IInv, [Next]_vars PROVE Stays
  <2> SUFFICES ASSUME conf.isIn, pc # "ep0", fifo.ready PROVE fifo' = fifo \/ ~fifo'.ready
    OBVIOUS
  <2>1. conf \in Configs /\ Ok(State)
    BY <1>1 DEF IInv, Control
  <2>2. CASE ReadStatus \/ Stage0 \/ UNCHANGED vars
    BY <2>2 DEF ReadStatus, Stage0, vars
  <2>3. CASE Nuke
    <3>1. CASE ep.list # <<>>
      <4> DEFINE r == Head(ep.list)
                 t == Giveback(State, r, "-ECONNRESET")
      <4>1. r \in Reqs /\ Listed(ep.list, r) /\ State \in States /\ Once(ep.list)
        BY <2>1, <3>1, HeadListed, StateFacts, TheState DEF Ok
      <4>2. t.fifo = fifo
        BY <4>1, GivebackFacts, TheState
      <4>3. QED
        BY <2>3, <3>1, <4>2 DEF Nuke, Become
    <3>2. CASE ep.list = <<>>
      <4>1. FreeEp(State).fifo = fifo
        BY <1>1, <2>1, FreeFacts, TheState DEF IInv, Switched
      <4>2. QED
        BY <2>3, <3>2, <4>1 DEF Nuke, Become
    <3>3. QED
      BY <3>1, <3>2
  <2>4. CASE EpIrq
    <3>1. GTx(State).fifo = fifo
      BY <2>1, GTxFacts, TheState
    <3>2. Become(State) \/ Become(GTx(State))
      BY <2>4 DEF EpIrq
    <3>3. QED
      BY <3>1, <3>2, TheState DEF Become
  <2>5. CASE HostFetches
    <3>1. fifo \in Fifos
      BY <2>1, StateFacts, TheState DEF Ok
    <3>2. QED
      BY <2>5, <3>1 DEF HostFetches, Fifos
  <2>6. CASE HostSends \/ DmaDrains
    BY <2>6 DEF HostSends, DmaDrains
  <2>7. CASE PollDone \/ PollTimeout
    BY <1>1, <2>7 DEF PollDone, PollTimeout, IInv, Control
  <2>8. QED
    BY <1>1, <2>2, <2>3, <2>4, <2>5, <2>6, <2>7 DEF Next, Handler, Ep0
<1>2. IInv /\ [Next]_vars => [Stays]_vars
  BY <1>1
<1>3. QED
  BY <1>2, Invariance, PTL DEF Spec, PacketStays
=============================================================================
