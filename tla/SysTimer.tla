------------------------------- MODULE SysTimer ------------------------------
(***************************************************************************)
(* The system time (test/timer/sys_timer.c): a timer of the SoC counts     *)
(* down from 0xFFFFFFFF and starts again; get_ticks extends it to 64 bits  *)
(* by counting, in `tick_high`, the overflows it finds in the raw          *)
(* interrupt status.  Every timeout of the drivers is built on it.         *)
(*                                                                         *)
(* get_ticks is cut at every access to the timer and to tick_high, since   *)
(* the timer goes on and an interrupt may come in between.  The callers    *)
(* are numbered by level: level 1 is the main program, level 2 an          *)
(* interrupt handler (dma_int_i2s_handler gets here through                *)
(* dma_ch_select), which runs to its end before level 1 goes on.           *)
(***************************************************************************)
EXTENDS Integers

CONSTANTS
  Period,    (* 2^32, what the counter counts                               *)
  Levels,    (* levels that use the time                                    *)
  Delays,    (* ticks a caller delays for; 0 is a bare get_ticks            *)
  MaxTime    (* bound of the model                                          *)

ASSUME TimerAssumption ==
  /\ Period \in Nat \ {0, 1} /\ Levels \in Nat \ {0} /\ MaxTime \in Nat
  /\ Delays \subseteq Nat

Callers == 1 .. Levels

VARIABLES
  now,       (* ticks since the timer was started                           *)
  ris,       (* the timer's raw interrupt status                            *)
  tickHigh,  (* tick_high                                                   *)
  pc,        (* where each caller is                                        *)
  nowl,      (* its local nowl                                              *)
  high,      (* the value of tick_high it is about to increment             *)
  end,       (* the end of its delay, -1 until it is known                  *)
  delay,     (* the delay it asked for                                      *)
  began,     (* history: when its get_ticks began                           *)
  called     (* history: when its delay began                               *)

caller == <<pc, nowl, high, end, delay, began, called>>
vars == <<now, ris, tickHigh, caller>>

(* timer_get_value: the counter, in free running mode.                      *)
Counter == (Period - 1) - (now % Period)

Init ==
  /\ now = 0 /\ ris = FALSE /\ tickHigh = 0
  /\ pc = [c \in Callers |-> "idle"]
  /\ nowl = [c \in Callers |-> 0] /\ high = [c \in Callers |-> 0]
  /\ end = [c \in Callers |-> -1] /\ delay = [c \in Callers |-> 0]
  /\ began = [c \in Callers |-> 0] /\ called = [c \in Callers |-> 0]

(* The clock ticks; the interrupt is raised when the counter reaches 0.     *)
(* Not modelled is a second overflow while the first has not been seen, or  *)
(* is being counted: a period is minutes long.                              *)
Handling == {"load", "store", "clear", "reload", "again"}
Overflows == (now + 1) % Period = Period - 1
Tick ==
  /\ now < MaxTime
  /\ Overflows => ~ris /\ \A c \in Callers : pc[c] \notin Handling
  /\ now' = now + 1
  /\ ris' = (ris \/ Overflows)
  /\ UNCHANGED <<tickHigh, caller>>

-----------------------------------------------------------------------------
(* A level runs while no higher level does.                                 *)
Runs(c) == \A d \in Callers : d > c => pc[d] = "idle"
At(c, l) == Runs(c) /\ pc[c] = l
GoTo(c, l) == pc' = [pc EXCEPT ![c] = l]

(* ticksdelay, or udelay once it has turned its time into ticks.            *)
Call(c, d) ==
  /\ At(c, "idle") /\ now < MaxTime
  /\ GoTo(c, "value")
  /\ delay' = [delay EXCEPT ![c] = d]
  /\ end' = [end EXCEPT ![c] = -1]
  /\ began' = [began EXCEPT ![c] = now]
  /\ called' = [called EXCEPT ![c] = now]
  /\ UNCHANGED <<now, ris, tickHigh, nowl, high>>

(* nowl = timer_get_value                                                   *)
Value(c) ==
  /\ At(c, "value")
  /\ nowl' = [nowl EXCEPT ![c] = Counter]
  /\ GoTo(c, "ris")
  /\ UNCHANGED <<now, ris, tickHigh, high, end, delay, began, called>>

(* if (timer_get_ris)                                                       *)
Ris(c) ==
  /\ At(c, "ris")
  /\ GoTo(c, IF ris THEN "load" ELSE "ret")
  /\ UNCHANGED <<now, ris, tickHigh, nowl, high, end, delay, began, called>>

(* tick_high += 1, a read and a write                                       *)
Load(c) ==
  /\ At(c, "load")
  /\ high' = [high EXCEPT ![c] = tickHigh]
  /\ GoTo(c, "store")
  /\ UNCHANGED <<now, ris, tickHigh, nowl, end, delay, began, called>>

Store(c) ==
  /\ At(c, "store")
  /\ tickHigh' = high[c] + 1
  /\ GoTo(c, "clear")
  /\ UNCHANGED <<now, ris, nowl, high, end, delay, began, called>>

(* timer_clr_int                                                            *)
Clear(c) ==
  /\ At(c, "clear")
  /\ ris' = FALSE
  /\ GoTo(c, "reload")
  /\ UNCHANGED <<now, tickHigh, nowl, high, end, delay, began, called>>

Reload(c) ==
  /\ At(c, "reload")
  /\ nowl' = [nowl EXCEPT ![c] = Counter]
  /\ GoTo(c, "again")
  /\ UNCHANGED <<now, ris, tickHigh, high, end, delay, began, called>>

(* while (timer_get_ris || nowl == 0)                                       *)
Again_IgnoreZero(c) ==
  /\ At(c, "again")
  /\ GoTo(c, IF ris THEN "clear" ELSE "ret")
  /\ UNCHANGED <<now, ris, tickHigh, nowl, high, end, delay, began, called>>
Again_CountAgain(c) ==
  /\ At(c, "again")
  /\ GoTo(c, IF ris \/ nowl[c] = 0 THEN "load" ELSE "ret")
  /\ UNCHANGED <<now, ris, tickHigh, nowl, high, end, delay, began, called>>
Again(c) ==
  /\ At(c, "again")
  /\ GoTo(c, IF ris \/ nowl[c] = 0 THEN "clear" ELSE "ret")
  /\ UNCHANGED <<now, ris, tickHigh, nowl, high, end, delay, began, called>>

(* What get_ticks returns.                                                  *)
Ticks(c) == tickHigh * Period + ((Period - 1) - nowl[c])

(* The return: the first time sets the end of the delay, from then on the   *)
(* caller asks again until the end is reached.                              *)
Finished_LowWord(c, t) == delay[c] = 0 \/ (end[c] # -1 /\ t % Period >= end[c])
Finished_Early(c, t) == delay[c] = 0 \/ (end[c] # -1 /\ t + 1 >= end[c])
Finished(c, t) == delay[c] = 0 \/ (end[c] # -1 /\ t >= end[c])
Ret(c) ==
  /\ At(c, "ret")
  /\ IF Finished(c, Ticks(c))
     THEN GoTo(c, "idle") /\ UNCHANGED <<end, began>>
     ELSE /\ GoTo(c, "value")
          /\ end' = [end EXCEPT ![c] = IF @ = -1 THEN Ticks(c) + delay[c] ELSE @]
          /\ began' = [began EXCEPT ![c] = now]
  /\ UNCHANGED <<now, ris, tickHigh, nowl, high, delay, called>>

-----------------------------------------------------------------------------
Step(c) ==
  \/ Value(c) \/ Ris(c) \/ Load(c) \/ Store(c) \/ Clear(c) \/ Reload(c)
  \/ Again(c) \/ Ret(c)

Next ==
  \/ Tick
  \/ \E c \in Callers : Step(c) \/ \E d \in Delays : Call(c, d)

Spec == Init /\ [][Next]_vars

(* The clock runs, and so does a caller that has begun.                     *)
FairSpec == Spec /\ WF_vars(Tick) /\ \A c \in Callers : WF_vars(Step(c))

-----------------------------------------------------------------------------
(* The type invariant.                                                      *)
TypeOK ==
  /\ now \in 0 .. MaxTime /\ ris \in BOOLEAN
  /\ tickHigh \in 0 .. Levels * (MaxTime \div Period + 1)
  /\ pc \in [Callers -> Handling \cup {"idle", "value", "ris", "ret"}]
  /\ nowl \in [Callers -> 0 .. Period - 1]
  /\ high \in [Callers -> 0 .. Levels * (MaxTime \div Period + 1)]
  /\ end \in [Callers -> Int] /\ delay \in [Callers -> Delays \cup {0}]
  /\ began \in [Callers -> 0 .. MaxTime] /\ called \in [Callers -> 0 .. MaxTime]

(* Every overflow is counted once: with the one that is still pending,      *)
(* tick_high is the number of times the counter has reached 0.              *)
OverflowsCounted ==
  (\A c \in Callers : pc[c] \notin Handling) =>
    tickHigh + (IF ris THEN 1 ELSE 0) = (now + 1) \div Period

(* "one high 32 bit to accumulate when overflow": what get_ticks returns is *)
(* the time at some moment of the call, so that it neither jumps ahead at   *)
(* an overflow nor ever goes back.                                          *)
TicksTrue == \A c \in Callers :
  pc[c] = "ret" => Ticks(c) \in began[c] .. now

(* A delay lasts at least as long as it was asked to.                       *)
DelayElapsed ==
  [][\A c \in Callers :
       pc[c] = "ret" /\ pc'[c] = "idle" => now - called[c] >= delay[c]]_vars

(* A delay ends, one that goes on over an overflow or begins in the middle  *)
(* of one included, and so does a bare get_ticks.  Left out are the delays  *)
(* that end beyond the last tick of the model; that the clock gets there    *)
(* excuses no other.                                                        *)
DelayEnds ==
  \A c \in Callers : pc[c] # "idle" ~> pc[c] = "idle" \/ end[c] > MaxTime
=============================================================================
