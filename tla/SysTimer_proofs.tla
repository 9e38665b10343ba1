---------------------------- MODULE SysTimer_proofs --------------------------
(***************************************************************************)
(* Proofs about SysTimer for every period of the counter and every delay,  *)
(* with one caller: the main program, not interrupted by a handler that    *)
(* reads the time as well.                                                 *)
(***************************************************************************)
EXTENDS SysTimer, TLAPS

(* The main program alone uses the time.                                    *)
OneCaller == Levels = 1

-----------------------------------------------------------------------------
(* Arithmetic of the counter.                                               *)

(* A number is its quotient and its remainder.                              *)
LEMMA DivMod ==
  ASSUME NEW a \in Nat, NEW p \in Nat \ {0}
  PROVE  /\ a \div p \in Nat /\ a % p \in 0 .. p - 1
         /\ a = (a \div p) * p + (a % p)
OBVIOUS

(* A greater quotient is a greater number, by a period at least.            *)
LEMMA Spread ==
  ASSUME NEW q \in Nat, NEW d \in Nat, NEW p \in Nat \ {0}, q < d
  PROVE  q * p + p <= d * p
<1>1. (d - (q + 1)) * p \in Nat
  OBVIOUS
<1>2. (d - (q + 1)) * p = d * p - (q * p + p)
  OBVIOUS
<1>3. QED
  BY <1>1, <1>2

(* ... and only one.                                                        *)
LEMMA DivUnique ==
  ASSUME NEW p \in Nat \ {0}, NEW q \in Nat, NEW r \in 0 .. p - 1
  PROVE  (q * p + r) \div p = q
<1> DEFINE a == q * p + r
<1>1. a \in Nat
  OBVIOUS
<1> DEFINE d == a \div p
<1> DEFINE e == a % p
<1>2. d \in Nat /\ e \in 0 .. p - 1 /\ q * p + r = d * p + e
  BY <1>1, DivMod
<1>3. d * p \in Nat /\ q * p \in Nat
  BY <1>2
<1> HIDE DEF d, e
<1>4. ~(q < d)
  BY <1>2, <1>3, Spread
<1>5. ~(d < q)
  BY <1>2, <1>3, Spread
<1>6. d = q
  BY <1>2, <1>4, <1>5
<1>7. QED
  BY <1>6 DEF d

(* The quotient grows exactly when the remainder is the last one.           *)
LEMMA DivStep ==
  ASSUME NEW a \in Nat, NEW p \in Nat \ {0}
  PROVE  (a + 1) \div p = (a \div p) + (IF a % p = p - 1 THEN 1 ELSE 0)
<1> DEFINE q == a \div p
<1> DEFINE r == a % p
<1>1. q \in Nat /\ r \in 0 .. p - 1 /\ a = q * p + r
  BY DivMod
<1> HIDE DEF q, r
<1>2. CASE r = p - 1
  <2>1. a + 1 = (q + 1) * p + 0
    BY <1>1, <1>2
  <2>2. ((q + 1) * p + 0) \div p = q + 1
    BY <1>1, DivUnique
  <2>3. QED
    BY <1>2, <2>1, <2>2 DEF q, r
<1>3. CASE r # p - 1
  <2>1. a + 1 = q * p + (r + 1) /\ r + 1 \in 0 .. p - 1
    BY <1>1, <1>3
  <2>2. (q * p + (r + 1)) \div p = q
    BY <1>1, <2>1, DivUnique
  <2>3. q + 0 = q
    BY <1>1
  <2>4. QED
    BY <1>3, <2>1, <2>2, <2>3 DEF q, r
<1>4. QED
  BY <1>2, <1>3

(* Quotients are monotonic.                                                 *)
LEMMA DivMonotonic ==
  ASSUME NEW a \in Nat, NEW b \in Nat, NEW p \in Nat \ {0}, a <= b
  PROVE  a \div p <= b \div p
<1> DEFINE d == a \div p
<1> DEFINE e == b \div p
<1>1. /\ d \in Nat /\ a % p \in 0 .. p - 1 /\ a = d * p + (a % p)
      /\ e \in Nat /\ b % p \in 0 .. p - 1 /\ b = e * p + (b % p)
  BY DivMod
<1>2. d * p \in Nat /\ e * p \in Nat
  BY <1>1
<1> HIDE DEF d, e
<1>3. ~(e < d)
  BY <1>1, <1>2, Spread
<1>4. QED
  BY <1>1, <1>3 DEF d, e

-----------------------------------------------------------------------------
(* The inductive invariant.                                                 *)

(* The times the counter has reached 0.                                     *)
Zeros == (now + 1) \div Period
Last == now % Period = Period - 1

(* The types, without the bounds of tickHigh and high.                      *)
Types ==
  /\ now \in 0 .. MaxTime /\ ris \in BOOLEAN
  /\ tickHigh \in Nat
  /\ pc \in [Callers -> Handling \cup {"idle", "value", "ris", "ret"}]
  /\ nowl \in [Callers -> 0 .. Period - 1]
  /\ high \in [Callers -> Nat]
  /\ end \in [Callers -> Int] /\ delay \in [Callers -> Delays \cup {0}]
  /\ began \in [Callers -> 0 .. MaxTime] /\ called \in [Callers -> 0 .. MaxTime]

(* tick_high in every state of the handling of an overflow: until the store *)
(* one is missing, which the raw interrupt status shows.                    *)
HighInv ==
  /\ pc[1] \notin Handling => tickHigh + (IF ris THEN 1 ELSE 0) = Zeros
  /\ pc[1] \in {"load", "store"} => ris /\ tickHigh + 1 = Zeros
  /\ pc[1] = "store" => high[1] = tickHigh
  /\ pc[1] \in {"clear", "reload", "again"} => tickHigh = Zeros
  /\ pc[1] \in {"reload", "again"} => ~ris

(* The counter can stand at 0 only with the overflow flagged, or while it   *)
(* is being handled.                                                        *)
LastInv == pc[1] \notin Handling /\ Last => ris

(* What the time would be with the counter value read last.                 *)
Good == began[1] <= Ticks(1) /\ Ticks(1) <= now
ReadInv ==
  /\ pc[1] = "ris" /\ ~ris => Good
  /\ pc[1] = "again" /\ nowl[1] # 0 => Good /\ ~Last
  /\ pc[1] = "ret" => Good

(* The times of a delay.                                                    *)
DelayInv ==
  /\ called[1] <= began[1] /\ began[1] <= now
  /\ pc[1] # "idle" /\ end[1] # -1 => called[1] + delay[1] <= end[1]

(* The copy a caller increments is not ahead.                               *)
BoundInv == high[1] <= Zeros

(* The inductive invariant.                                                 *)
IInv == Types /\ BoundInv /\ HighInv /\ LastInv /\ ReadInv /\ DelayInv

-----------------------------------------------------------------------------
(* Facts the steps share.                                                   *)

(* With one level there is one caller, the main program.                    *)
LEMMA TheCaller == OneCaller => Callers = {1}
BY DEF OneCaller, Callers

(* The counter is 0 at the last tick of a period and nowhere else.          *)
LEMMA CounterRange ==
  Types => Counter \in 0 .. Period - 1 /\ (Counter = 0 <=> Last)
<1> SUFFICES ASSUME Types PROVE Counter \in 0 .. Period - 1 /\ (Counter = 0 <=> Last)
  OBVIOUS
<1>1. now \in Nat /\ Period \in Nat \ {0, 1}
  BY TimerAssumption DEF Types
<1>2. now % Period \in 0 .. Period - 1
  BY <1>1, DivMod
<1>3. QED
  BY <1>1, <1>2 DEF Counter, Last

(* A reading of the counter, extended by the true number of overflows, is   *)
(* the time, except at the last tick of a period.                           *)
LEMMA ReadingTrue ==
  ASSUME Types, tickHigh = Zeros, ~Last
  PROVE  tickHigh * Period + ((Period - 1) - Counter) = now
<1> DEFINE q == now \div Period
<1> DEFINE r == now % Period
<1>1. now \in Nat /\ Period \in Nat \ {0, 1}
  BY TimerAssumption DEF Types
<1>2. q \in Nat /\ r \in 0 .. Period - 1 /\ now = q * Period + r
  BY <1>1, DivMod
<1>3. Zeros = q + 0
  BY <1>1, DivStep DEF Zeros, Last
<1>4. tickHigh = q
  BY <1>2, <1>3
<1>5. Counter = (Period - 1) - r
  BY DEF Counter
<1> HIDE DEF q, r
<1>6. (Period - 1) - Counter = r
  BY <1>1, <1>2, <1>5
<1>7. QED
  BY <1>2, <1>4, <1>6

(* A tick counts the zeros on.                                              *)
LEMMA ZerosStep ==
  ASSUME Types, now' = now + 1
  PROVE  /\ Zeros \in Nat
         /\ Zeros' = Zeros + (IF Overflows THEN 1 ELSE 0)
         /\ Last' <=> Overflows
<1>1. now \in Nat /\ Period \in Nat \ {0, 1}
  BY TimerAssumption DEF Types
<1>2. now + 1 \in Nat
  BY <1>1
<1>3. (now + 1) \div Period \in Nat
  BY <1>1, <1>2, DivMod
<1>4. ((now + 1) + 1) \div Period
        = ((now + 1) \div Period) + (IF (now + 1) % Period = Period - 1 THEN 1 ELSE 0)
  BY <1>1, <1>2, DivStep
<1>5. QED
  BY <1>3, <1>4 DEF Zeros, Last, Overflows

(* The number of times the counter has reached 0 is a natural number.       *)
LEMMA ZerosNat == Types => Zeros \in Nat
<1> SUFFICES ASSUME Types PROVE Zeros \in Nat
  OBVIOUS
<1>1. now + 1 \in Nat /\ Period \in Nat \ {0}
  BY TimerAssumption DEF Types
<1>2. QED
  BY <1>1, DivMod DEF Zeros

(* What the invariant and a step of a caller leave alone.                   *)
LEMMA StillZeros == UNCHANGED now => Zeros' = Zeros /\ Last' = Last
BY DEF Zeros, Last

-----------------------------------------------------------------------------
(* One lemma for each action.                                               *)

(* The initial state satisfies the invariant.                               *)
LEMMA InitStep == OneCaller /\ Init => IInv
<1> SUFFICES ASSUME OneCaller, Init PROVE IInv
  OBVIOUS
<1>1. Callers = {1}
  BY TheCaller
<1>2. Types
  <2>1. 0 \in 0 .. MaxTime /\ 0 \in 0 .. Period - 1 /\ 0 \in Nat /\ -1 \in Int
    BY TimerAssumption
  <2>2. QED
    BY <2>1 DEF Init, Types
<1>3. Zeros = 0 /\ ~Last
  <2>1. Period \in Nat \ {0, 1}
    BY TimerAssumption
  <2>2. 0 = 0 * Period + 0 /\ 1 = 0 * Period + 1
    BY <2>1
  <2>3. 1 \div Period = 0
    BY <2>1, <2>2, DivUnique
  <2>4. 0 % Period = 0
    BY <2>1, DivMod
  <2>5. QED
    BY <2>1, <2>3, <2>4 DEF Init, Zeros, Last
<1>4. QED
  BY <1>1, <1>2, <1>3 DEF Init, IInv, BoundInv, HighInv, LastInv, ReadInv, DelayInv, Handling

(* The clock may tick anywhere in get_ticks.                                *)
LEMMA TickStep == OneCaller /\ IInv /\ Tick => IInv'
<1> SUFFICES ASSUME OneCaller, IInv, Tick PROVE IInv'
  OBVIOUS
<1>1. Callers = {1} /\ Types /\ Types'
  <2>1. Callers = {1} /\ Types
    BY TheCaller DEF IInv
  <2>2. now' \in 0 .. MaxTime
    BY <2>1, TimerAssumption DEF Types, Tick
  <2>3. ris' \in BOOLEAN
    BY <2>1 DEF Tick
  <2>4. UNCHANGED <<tickHigh, caller>>
    BY DEF Tick
  <2>5. QED
    BY <2>1, <2>2, <2>3, <2>4 DEF Types, caller
<1>2. UNCHANGED caller /\ now' = now + 1
  BY DEF Tick
<1>3. /\ Zeros \in Nat
      /\ Zeros' = Zeros + (IF Overflows THEN 1 ELSE 0)
      /\ Last' <=> Overflows
  BY <1>1, <1>2, ZerosStep
<1>4. Overflows => ~ris /\ pc[1] \notin Handling
  BY <1>1 DEF Tick
<1>5. tickHigh' = tickHigh /\ (ris' <=> ris \/ Overflows) /\ tickHigh \in Nat /\ ris \in BOOLEAN
  BY <1>1 DEF Tick, Types
<1>6. HighInv'
  BY <1>2, <1>3, <1>4, <1>5 DEF HighInv, IInv, caller, Handling
<1>7. LastInv'
  BY <1>2, <1>3, <1>5 DEF LastInv, caller
<1>8. Ticks(1)' = Ticks(1) /\ began' = began /\ nowl' = nowl /\ pc' = pc
  BY <1>2, <1>5 DEF Ticks, caller
<1>9. Good => Good'
  <2>1. began[1] \in Int /\ now \in Int
    BY <1>1 DEF Types
  <2>2. Ticks(1) \in Int
    BY <1>1, TimerAssumption DEF Types, Ticks
  <2>3. QED
    BY <1>2, <1>8, <2>1, <2>2 DEF Good
<1>10. ReadInv'
  BY <1>3, <1>4, <1>5, <1>8, <1>9 DEF ReadInv, IInv, Handling
<1>11. DelayInv'
  BY <1>1, <1>2 DEF DelayInv, IInv, Types, caller
<1>12. BoundInv'
  <2>1. high' = high /\ high[1] \in Nat /\ high[1] <= Zeros
    BY <1>1, <1>2 DEF IInv, BoundInv, Types, caller
  <2>2. QED
    BY <1>3, <2>1 DEF BoundInv
<1>13. QED
  BY <1>1, <1>6, <1>7, <1>10, <1>11, <1>12 DEF IInv

(* A step that leaves the clock and the times of the delay alone.           *)
LEMMA DelayKept ==
  ASSUME Types, Types', DelayInv, UNCHANGED <<now, end, delay, began, called>>,
         pc[1] # "idle"
  PROVE  DelayInv'
BY DEF DelayInv

(* A step that leaves the clock and the copy alone.                         *)
LEMMA BoundKept ==
  ASSUME IInv, UNCHANGED <<now, high>>
  PROVE  BoundInv'
BY DEF IInv, BoundInv, Zeros

(* A call begins at the present time.                                       *)
LEMMA CallStep ==
  ASSUME OneCaller, IInv, NEW d \in Delays, Call(1, d) PROVE IInv'
<1>1. Callers = {1} /\ Types /\ UNCHANGED now
  BY TheCaller DEF IInv, Call
<1>2. Zeros' = Zeros /\ (Last' <=> Last)
  BY <1>1, StillZeros
<1>3. pc[1] = "idle" /\ pc' = [pc EXCEPT ![1] = "value"] /\ UNCHANGED <<ris, tickHigh>>
  BY DEF Call, At, GoTo
<1>4. pc'[1] = "value"
  BY <1>1, <1>3 DEF Types
<1>5. Types'
  BY <1>1, <1>3 DEF Types, Call
<1>6. HighInv' /\ LastInv' /\ ReadInv'
  BY <1>2, <1>3, <1>4 DEF IInv, HighInv, LastInv, ReadInv, Handling
<1>7. DelayInv'
  <2>1. end'[1] = -1 /\ began'[1] = now /\ called'[1] = now /\ now' = now
    BY <1>1 DEF Types, Call
  <2>2. now \in Int
    BY <1>1 DEF Types
  <2>3. QED
    BY <2>1, <2>2 DEF DelayInv
<1>8. BoundInv'
  BY <1>1, BoundKept DEF Call
<1>9. QED
  BY <1>5, <1>6, <1>7, <1>8 DEF IInv

(* timer_get_value: the reading is of the present time.                     *)
LEMMA ValueStep == OneCaller /\ IInv /\ Value(1) => IInv'
<1> SUFFICES ASSUME OneCaller, IInv, Value(1) PROVE IInv'
  OBVIOUS
<1>1. /\ Callers = {1} /\ Types
      /\ UNCHANGED <<now, ris, tickHigh, high, end, delay, began, called>>
  BY TheCaller DEF IInv, Value
<1>2. Zeros' = Zeros /\ (Last' <=> Last)
  BY <1>1, StillZeros
<1>3. /\ pc[1] = "value" /\ pc' = [pc EXCEPT ![1] = "ris"]
      /\ nowl' = [nowl EXCEPT ![1] = Counter]
  BY DEF Value, At, GoTo
<1>4. pc'[1] = "ris" /\ nowl'[1] = Counter
  BY <1>1, <1>3 DEF Types
<1>5. Types'
  BY <1>1, <1>3, CounterRange DEF Types
<1>6. HighInv' /\ LastInv'
  BY <1>1, <1>2, <1>3, <1>4 DEF IInv, HighInv, LastInv, Handling
<1>7. ReadInv'
  <2>1. SUFFICES ASSUME ~ris PROVE Good'
    BY <1>1, <1>4 DEF ReadInv
  <2>2. ~Last /\ tickHigh = Zeros
    <3>1. ~Last /\ tickHigh + 0 = Zeros
      BY <1>3, <2>1 DEF IInv, HighInv, LastInv, Handling
    <3>2. QED
      BY <1>1, <3>1 DEF Types
  <2>3. Ticks(1)' = now
    BY <1>1, <1>4, <2>2, ReadingTrue DEF Ticks
  <2>4. began[1] <= now /\ now <= now
    BY <1>1 DEF IInv, DelayInv, Types
  <2>5. QED
    BY <1>1, <2>3, <2>4 DEF Good
<1>8. DelayInv'
  BY <1>1, <1>3, <1>5, DelayKept DEF IInv
<1>9. BoundInv'
  BY <1>1, BoundKept
<1>10. QED
  BY <1>5, <1>6, <1>7, <1>8, <1>9 DEF IInv

(* timer_get_ris decides whether an overflow is to be counted.              *)
LEMMA RisStep == OneCaller /\ IInv /\ Ris(1) => IInv'
<1> SUFFICES ASSUME OneCaller, IInv, Ris(1) PROVE IInv'
  OBVIOUS
<1>1. /\ Callers = {1} /\ Types
      /\ UNCHANGED <<now, ris, tickHigh, nowl, high, end, delay, began, called>>
  BY TheCaller DEF IInv, Ris
<1>2. Zeros' = Zeros /\ (Last' <=> Last)
  BY <1>1, StillZeros
<1>3. pc[1] = "ris" /\ pc' = [pc EXCEPT ![1] = IF ris THEN "load" ELSE "ret"]
  BY DEF Ris, At, GoTo
<1>4. pc'[1] = IF ris THEN "load" ELSE "ret"
  BY <1>1, <1>3 DEF Types
<1>5. Types'
  <2>1. (IF ris THEN "load" ELSE "ret") \in Handling \cup {"idle", "value", "ris", "ret"}
    BY DEF Handling
  <2>2. QED
    BY <1>1, <1>3, <2>1 DEF Types
<1>6. HighInv' /\ LastInv'
  BY <1>1, <1>2, <1>3, <1>4 DEF IInv, HighInv, LastInv, Handling
<1>7. ReadInv'
  <2>1. Ticks(1)' = Ticks(1)
    BY <1>1 DEF Ticks
  <2>2. QED
    BY <1>1, <1>3, <1>4, <2>1 DEF IInv, ReadInv, Good
<1>8. DelayInv'
  BY <1>1, <1>3, <1>5, DelayKept DEF IInv
<1>9. BoundInv'
  BY <1>1, BoundKept
<1>10. QED
  BY <1>5, <1>6, <1>7, <1>8, <1>9 DEF IInv

(* The read of tick_high.                                                   *)
LEMMA LoadStep == OneCaller /\ IInv /\ Load(1) => IInv'
<1> SUFFICES ASSUME OneCaller, IInv, Load(1) PROVE IInv'
  OBVIOUS
<1>1. /\ Callers = {1} /\ Types
      /\ UNCHANGED <<now, ris, tickHigh, nowl, end, delay, began, called>>
  BY TheCaller DEF IInv, Load
<1>2. Zeros' = Zeros /\ (Last' <=> Last)
  BY <1>1, StillZeros
<1>3. /\ pc[1] = "load" /\ pc' = [pc EXCEPT ![1] = "store"]
      /\ high' = [high EXCEPT ![1] = tickHigh]
  BY DEF Load, At, GoTo
<1>4. pc'[1] = "store" /\ high'[1] = tickHigh
  BY <1>1, <1>3 DEF Types
<1>5. Types'
  BY <1>1, <1>3 DEF Types, Handling
<1>6. HighInv' /\ LastInv' /\ ReadInv'
  BY <1>1, <1>2, <1>3, <1>4 DEF IInv, HighInv, LastInv, ReadInv, Handling
<1>7. DelayInv'
  BY <1>1, <1>3, <1>5, DelayKept DEF IInv
<1>8. BoundInv'
  <2>1. tickHigh \in Nat /\ Zeros \in Nat /\ tickHigh + 1 = Zeros
    BY <1>1, <1>3, ZerosNat DEF IInv, HighInv, Types
  <2>2. QED
    BY <1>2, <1>4, <2>1 DEF BoundInv
<1>9. QED
  BY <1>5, <1>6, <1>7, <1>8 DEF IInv

(* The write of tick_high.                                                  *)
LEMMA StoreStep == OneCaller /\ IInv /\ Store(1) => IInv'
<1> SUFFICES ASSUME OneCaller, IInv, Store(1) PROVE IInv'
  OBVIOUS
<1>1. /\ Callers = {1} /\ Types
      /\ UNCHANGED <<now, ris, nowl, high, end, delay, began, called>>
  BY TheCaller DEF IInv, Store
<1>2. Zeros' = Zeros /\ (Last' <=> Last)
  BY <1>1, StillZeros
<1>3. /\ pc[1] = "store" /\ pc' = [pc EXCEPT ![1] = "clear"]
      /\ tickHigh' = high[1] + 1
  BY DEF Store, At, GoTo
<1>4. pc'[1] = "clear"
  BY <1>1, <1>3 DEF Types
<1>5. Types'
  BY <1>1, <1>3 DEF Types, Handling
<1>6. HighInv' /\ LastInv' /\ ReadInv'
  BY <1>1, <1>2, <1>3, <1>4 DEF IInv, HighInv, LastInv, ReadInv, Handling
<1>7. DelayInv'
  BY <1>1, <1>3, <1>5, DelayKept DEF IInv
<1>8. BoundInv'
  BY <1>1, BoundKept
<1>9. QED
  BY <1>5, <1>6, <1>7, <1>8 DEF IInv

(* timer_clr_int, after the overflow has been counted.                      *)
LEMMA ClearStep == OneCaller /\ IInv /\ Clear(1) => IInv'
<1> SUFFICES ASSUME OneCaller, IInv, Clear(1) PROVE IInv'
  OBVIOUS
<1>1. /\ Callers = {1} /\ Types
      /\ UNCHANGED <<now, tickHigh, nowl, high, end, delay, began, called>>
  BY TheCaller DEF IInv, Clear
<1>2. Zeros' = Zeros /\ (Last' <=> Last)
  BY <1>1, StillZeros
<1>3. /\ pc[1] = "clear" /\ pc' = [pc EXCEPT ![1] = "reload"]
      /\ ris' = FALSE
  BY DEF Clear, At, GoTo
<1>4. pc'[1] = "reload"
  BY <1>1, <1>3 DEF Types
<1>5. Types'
  BY <1>1, <1>3 DEF Types, Handling
<1>6. HighInv' /\ LastInv' /\ ReadInv'
  BY <1>1, <1>2, <1>3, <1>4 DEF IInv, HighInv, LastInv, ReadInv, Handling
<1>7. DelayInv'
  BY <1>1, <1>3, <1>5, DelayKept DEF IInv
<1>8. BoundInv'
  BY <1>1, BoundKept
<1>9. QED
  BY <1>5, <1>6, <1>7, <1>8 DEF IInv

(* The counter is read again after an overflow.                             *)
LEMMA ReloadStep == OneCaller /\ IInv /\ Reload(1) => IInv'
<1> SUFFICES ASSUME OneCaller, IInv, Reload(1) PROVE IInv'
  OBVIOUS
<1>1. /\ Callers = {1} /\ Types
      /\ UNCHANGED <<now, ris, tickHigh, high, end, delay, began, called>>
  BY TheCaller DEF IInv, Reload
<1>2. Zeros' = Zeros /\ (Last' <=> Last)
  BY <1>1, StillZeros
<1>3. /\ pc[1] = "reload" /\ pc' = [pc EXCEPT ![1] = "again"]
      /\ nowl' = [nowl EXCEPT ![1] = Counter]
  BY DEF Reload, At, GoTo
<1>4. pc'[1] = "again" /\ nowl'[1] = Counter
  BY <1>1, <1>3 DEF Types
<1>5. Types'
  BY <1>1, <1>3, CounterRange DEF Types, Handling
<1>6. HighInv' /\ LastInv'
  BY <1>1, <1>2, <1>3, <1>4 DEF IInv, HighInv, LastInv, Handling
<1>7. ReadInv'
  <2>1. SUFFICES ASSUME Counter # 0 PROVE Good' /\ ~Last'
    BY <1>4 DEF ReadInv
  <2>2. ~Last /\ tickHigh = Zeros
    BY <1>1, <1>3, <2>1, CounterRange DEF IInv, HighInv
  <2>3. Ticks(1)' = now
    BY <1>1, <1>4, <2>2, ReadingTrue DEF Ticks
  <2>4. began[1] <= now /\ now <= now
    BY <1>1 DEF IInv, DelayInv, Types
  <2>5. QED
    BY <1>1, <1>2, <2>2, <2>3, <2>4 DEF Good
<1>8. DelayInv'
  BY <1>1, <1>3, <1>5, DelayKept DEF IInv
<1>9. BoundInv'
  BY <1>1, BoundKept
<1>10. QED
  BY <1>5, <1>6, <1>7, <1>8, <1>9 DEF IInv

(* The loop of the handling is left only with a counter that is not 0.      *)
LEMMA AgainStep == OneCaller /\ IInv /\ Again(1) => IInv'
<1> SUFFICES ASSUME OneCaller, IInv, Again(1) PROVE IInv'
  OBVIOUS
<1> DEFINE to == IF ris \/ nowl[1] = 0 THEN "clear" ELSE "ret"
<1>1. /\ Callers = {1} /\ Types
      /\ UNCHANGED <<now, ris, tickHigh, nowl, high, end, delay, began, called>>
  BY TheCaller DEF IInv, Again
<1>2. Zeros' = Zeros /\ (Last' <=> Last)
  BY <1>1, StillZeros
<1>3. pc[1] = "again" /\ pc' = [pc EXCEPT ![1] = to]
  BY DEF Again, At, GoTo
<1>4. pc'[1] = to
  BY <1>1, <1>3 DEF Types
<1>5. Types'
  <2>1. to \in Handling \cup {"idle", "value", "ris", "ret"}
    BY DEF Handling
  <2>2. QED
    BY <1>1, <1>3, <2>1 DEF Types
<1>6. tickHigh = Zeros /\ ~ris /\ tickHigh + 0 = tickHigh
  BY <1>1, <1>3 DEF IInv, HighInv, Types
<1>7. HighInv'
  BY <1>1, <1>2, <1>4, <1>6 DEF HighInv, Handling
<1>8. LastInv'
  BY <1>1, <1>2, <1>3, <1>4 DEF IInv, ReadInv, LastInv, Handling
<1>9. ReadInv'
  <2>1. Ticks(1)' = Ticks(1)
    BY <1>1 DEF Ticks
  <2>2. QED
    BY <1>1, <1>3, <1>4, <2>1 DEF IInv, ReadInv, Good
<1>10. DelayInv'
  BY <1>1, <1>3, <1>5, DelayKept DEF IInv
<1>11. BoundInv'
  BY <1>1, BoundKept
<1>12. QED
  BY <1>5, <1>7, <1>8, <1>9, <1>10, <1>11 DEF IInv

(* Every time of the one caller is a number.                                *)
LEMMA TimesAreNumbers ==
  ASSUME Callers = {1}, Types
  PROVE  /\ began[1] \in Int /\ called[1] \in Int /\ delay[1] \in Int
         /\ now \in Int /\ end[1] \in Int
<1>1. MaxTime \in Int /\ Delays \subseteq Nat
  BY TimerAssumption
<1>2. now \in Int
  BY <1>1 DEF Types
<1>3. began[1] \in Int /\ called[1] \in Int
  BY <1>1 DEF Types
<1>4. delay[1] \in Int
  <2>1. delay[1] \in Delays \cup {0}
    BY DEF Types
  <2>2. CASE delay[1] \in Delays
    <3>1. delay[1] \in Nat
      BY <1>1, <2>2, Zenon
    <3>2. QED
      BY <3>1
  <2>3. CASE delay[1] = 0
    BY <2>3
  <2>4. QED
    BY <2>1, <2>2, <2>3
<1>5. end[1] \in Int
  BY DEF Types
<1>6. QED
  BY <1>2, <1>3, <1>4, <1>5

(* The end of a delay is computed from a true time.                         *)
LEMMA RetStep == OneCaller /\ IInv /\ Ret(1) => IInv'
<1> SUFFICES ASSUME OneCaller, IInv, Ret(1) PROVE IInv'
  OBVIOUS
<1>1. /\ Callers = {1} /\ Types
      /\ UNCHANGED <<now, ris, tickHigh, nowl, high, delay, called>>
  BY TheCaller DEF IInv, Ret
<1>2. Zeros' = Zeros /\ (Last' <=> Last)
  BY <1>1, StillZeros
<1>3. pc[1] = "ret"
  BY DEF Ret, At
<1>4. pc'[1] \in {"idle", "value"} /\ pc' \in [Callers -> Handling \cup {"idle", "value", "ris", "ret"}]
  BY <1>1 DEF Ret, GoTo, Types
<1>5. began[1] \in Int /\ called[1] \in Int /\ delay[1] \in Int /\ now \in Int /\ end[1] \in Int
  BY <1>1, TimesAreNumbers
<1>6. Ticks(1) \in Int
  BY <1>1, TimerAssumption DEF Types, Ticks
<1>7. called[1] + delay[1] <= Ticks(1) + delay[1]
  BY <1>3, <1>5, <1>6 DEF IInv, ReadInv, DelayInv, Good
<1>8. BoundInv' /\ HighInv' /\ LastInv' /\ ReadInv'
  BY <1>1, <1>2, <1>3, <1>4, BoundKept DEF IInv, HighInv, LastInv, ReadInv, Handling
<1>9. CASE Finished(1, Ticks(1))
  <2>1. pc'[1] = "idle" /\ UNCHANGED <<end, began>>
    BY <1>1, <1>9 DEF Ret, GoTo, Types
  <2>2. Types'
    BY <1>1, <1>4, <2>1 DEF Types
  <2>3. DelayInv'
    BY <1>1, <2>1 DEF IInv, DelayInv
  <2>4. QED
    BY <1>8, <2>2, <2>3 DEF IInv
<1>10. CASE ~Finished(1, Ticks(1))
  <2>1. /\ end' = [end EXCEPT ![1] = IF end[1] = -1 THEN Ticks(1) + delay[1] ELSE end[1]]
        /\ began' = [began EXCEPT ![1] = now]
    BY <1>10 DEF Ret
  <2>2. /\ end'[1] = IF end[1] = -1 THEN Ticks(1) + delay[1] ELSE end[1]
        /\ began'[1] = now
    BY <1>1, <2>1 DEF Types
  <2>3. (IF end[1] = -1 THEN Ticks(1) + delay[1] ELSE end[1]) \in Int /\ now \in 0 .. MaxTime
    BY <1>1, <1>5, <1>6 DEF Types
  <2>4. Types'
    BY <1>1, <1>4, <2>1, <2>3 DEF Types
  <2>5. DelayInv'
    BY <1>1, <1>3, <1>5, <1>7, <2>2 DEF IInv, DelayInv
  <2>6. QED
    BY <1>8, <2>4, <2>5 DEF IInv
<1>11. QED
  BY <1>9, <1>10

(* A stuttering step.                                                       *)
LEMMA StutterStep == IInv /\ UNCHANGED vars => IInv'
<1> SUFFICES ASSUME IInv, UNCHANGED vars PROVE IInv'
  OBVIOUS
<1>1. UNCHANGED <<now, ris, tickHigh, pc, nowl, high, end, delay, began, called>>
  BY DEF vars, caller
<1>2. Ticks(1)' = Ticks(1) /\ Zeros' = Zeros /\ Last' = Last
  BY <1>1 DEF Ticks, Zeros, Last
<1>3. QED
  BY <1>1, <1>2 DEF IInv, Types, BoundInv, HighInv, LastInv, ReadInv, DelayInv, Good

-----------------------------------------------------------------------------
(* The theorems.                                                            *)

(* The invariant holds in every reachable state.                            *)
THEOREM Invariance ==
  ASSUME OneCaller PROVE Spec => []IInv
<1>1. Init => IInv
  BY InitStep
<1>2. IInv /\ [Next]_vars => IInv'
  <2> SUFFICES ASSUME IInv, [Next]_vars PROVE IInv'
    OBVIOUS
  <2>1. CASE Tick
    BY <2>1, TickStep
  <2>2. CASE \E c \in Callers : Step(c)
    BY <2>2, TheCaller, ValueStep, RisStep, LoadStep, StoreStep, ClearStep, ReloadStep,
       AgainStep, RetStep DEF Step
  <2>3. CASE \E c \in Callers : \E d \in Delays : Call(c, d)
    BY <2>3, TheCaller, CallStep
  <2>4. CASE UNCHANGED vars
    BY <2>4, StutterStep
  <2>5. QED
    BY <2>1, <2>2, <2>3, <2>4 DEF Next
<1>3. QED
  BY <1>1, <1>2, PTL DEF Spec

(* Every overflow is counted once, whatever the period of the counter and   *)
(* wherever the clock ticks inside get_ticks.                               *)
THEOREM EveryOverflowCounted ==
  ASSUME OneCaller PROVE Spec => []OverflowsCounted
<1>1. IInv => OverflowsCounted
  BY TheCaller DEF IInv, HighInv, OverflowsCounted, Zeros
<1>2. QED
  BY <1>1, Invariance, PTL

(* What get_ticks returns is the time at some moment of the call.           *)
THEOREM TimeTrue ==
  ASSUME OneCaller PROVE Spec => []TicksTrue
<1>1. IInv => TicksTrue
  <2> SUFFICES ASSUME IInv, pc[1] = "ret" PROVE Ticks(1) \in began[1] .. now
    BY TheCaller DEF TicksTrue
  <2>1. Callers = {1} /\ Types /\ Good
    BY TheCaller DEF IInv, ReadInv
  <2>2. Ticks(1) \in Int /\ began[1] \in Int /\ now \in Int
    BY <2>1, TimerAssumption DEF Types, Ticks
  <2>3. QED
    BY <2>1, <2>2 DEF Good
<1>2. QED
  BY <1>1, Invariance, PTL

(* The variables keep their types; tick_high never exceeds the number of    *)
(* periods begun.                                                           *)
THEOREM TypeCorrect ==
  ASSUME OneCaller PROVE Spec => []TypeOK
<1>1. IInv => TypeOK
  <2> SUFFICES ASSUME IInv PROVE TypeOK
    OBVIOUS
  <2> DEFINE bound == MaxTime \div Period + 1
  <2>1. Callers = {1} /\ Types /\ Levels = 1
    BY TheCaller DEF IInv, OneCaller
  <2>2. now \in Nat /\ now + 1 \in Nat /\ MaxTime + 1 \in Nat /\ now + 1 <= MaxTime + 1
        /\ MaxTime \in Nat /\ Period \in Nat \ {0}
    BY <2>1, TimerAssumption DEF Types
  <2>3. (MaxTime + 1) \div Period
          = (MaxTime \div Period) + (IF MaxTime % Period = Period - 1 THEN 1 ELSE 0)
    BY <2>2, DivStep
  <2>4. MaxTime \div Period \in Nat
    BY <2>2, DivMod
  <2>5. Zeros <= (MaxTime + 1) \div Period /\ Zeros \in Nat
    BY <2>1, <2>2, DivMonotonic, ZerosNat DEF Zeros
  <2>6. Zeros <= bound /\ bound \in Nat
    BY <2>3, <2>4, <2>5
  <2> HIDE DEF bound
  <2>7. tickHigh \in Nat /\ tickHigh <= Zeros /\ high[1] \in Nat /\ high[1] <= Zeros
    BY <2>1, <2>5 DEF IInv, BoundInv, HighInv, Types, Handling
  <2>8. tickHigh \in 0 .. bound /\ high[1] \in 0 .. bound
    BY <2>5, <2>6, <2>7
  <2>9. Levels * (MaxTime \div Period + 1) = bound
    BY <2>1, <2>4 DEF bound
  <2>10. high \in [Callers -> 0 .. bound]
    BY <2>1, <2>8 DEF Types
  <2>11. QED
    BY <2>1, <2>8, <2>9, <2>10 DEF TypeOK, Types
<1>2. QED
  BY <1>1, Invariance, PTL

(* A delay lasts at least as long as it was asked to.                       *)
THEOREM DelaysElapse ==
  ASSUME OneCaller PROVE Spec => DelayElapsed
<1>1. IInv /\ [Next]_vars =>
        [\A c \in Callers :
           pc[c] = "ret" /\ pc'[c] = "idle" => now - called[c] >= delay[c]]_vars
  <2> SUFFICES ASSUME IInv, Next, pc[1] = "ret", pc'[1] = "idle"
               PROVE  now - called[1] >= delay[1]
    BY TheCaller DEF vars
  <2>1. Callers = {1} /\ Types
    BY TheCaller DEF IInv
  <2>2. Ret(1)
    BY <2>1 DEF Next, Step, Tick, caller, Call, Value, Ris, Load, Store, Clear, Reload, Again, At
  <2>3. Finished(1, Ticks(1))
    BY <2>1, <2>2 DEF Ret, GoTo, Types
  <2>4. began[1] \in Int /\ called[1] \in Int /\ delay[1] \in Int /\ now \in Int /\ end[1] \in Int
    BY <2>1, TimesAreNumbers
  <2>5. Ticks(1) \in Int
    BY <2>1, TimerAssumption DEF Types, Ticks
  <2>6. /\ called[1] <= now /\ Ticks(1) <= now
        /\ end[1] # -1 => called[1] + delay[1] <= end[1]
    BY <2>4, <2>5 DEF IInv, ReadInv, DelayInv, Good
  <2>7. QED
    BY <2>3, <2>4, <2>5, <2>6 DEF Finished
<1>2. QED
  BY <1>1, Invariance, PTL DEF Spec, DelayElapsed
=============================================================================
