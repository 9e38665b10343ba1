------------------------------- MODULE SysControl -------------------------------
(***************************************************************************)
(* The processor at work on the registers of the system and of its ports.  *)
(* It runs a program, a sequence of calls of the functions of SysCalls and *)
(* PortCalls; each call is a script of register accesses, and most of them *)
(* read a register, change a field and write it back: two steps, between   *)
(* which an interrupt may run the script of its handler.  Outside the      *)
(* processor: the reset generator, whose status lines follow the reset     *)
(* registers in their own time, PLL 1, the pins of the GPIO port, and the  *)
(* two codecs that watch three pads each.                                  *)
(*                                                                         *)
(* Bounds: the programs, the handlers' calls, and MaxInterrupts.           *)
(***************************************************************************)
EXTENDS PortCalls

CONSTANTS
  Programs,       \* the sequences of calls that are run
  HandlerCalls,   \* the calls the interrupt handlers make, by program
  MaxInterrupts,  \* bound on the interrupts of each program
  None

Codecs == {1, 2}

VARIABLES
  program,     \* the program and the number of its calls started
  script,      \* the rest of the accesses of the running call
  word,        \* the word just read and not yet written back, or None
  interrupted, \* what the processor was doing when the interrupt came, <<>> if none did
  interrupts,  \* how many interrupts came
  connected,   \* can the USB and the DMA controller interrupt?
  regs,        \* the registers written so far
  initial,     \* the bits all the others hold
  status,      \* the status of the reset lines
  locked,      \* has PLL 1 locked?
  cache,       \* the codec registers as the driver remembers them
  codec,       \* the codecs: bits shifted in, registers, volumes applied
  set,         \* what was last put into each field (history)
  asked        \* the volumes last asked of each codec, None before its init (history)

vars == <<program, script, word, interrupted, interrupts, connected, regs, initial, status,
          locked, cache, codec, set, asked>>
inside == <<program, interrupted, interrupts, connected>>
outside == <<initial, status, locked>>

-----------------------------------------------------------------------------
(* The codecs.  A rising clock shifts the data pin in while the select is   *)
(* low; when it rises again, sixteen bits are a register write.  A volume   *)
(* is held back until one comes with its update bit.                        *)

Channels == 1 .. 3
PowerOn == [regs |-> [a \in CodecRegs |-> {}], applied |-> [ch \in Channels |-> <<0 .. 7, 0 .. 7>>],
            held |-> [ch \in Channels |-> <<0 .. 7, 0 .. 7>>]]
Fresh == [bits |-> <<>>, chip |-> PowerOn]

Held(held, a, v) ==
  [ch \in Channels |-> [side \in 1 .. 2 |->
     IF VolumeRegs[ch][side] = a THEN v \ {Update} ELSE held[ch][side]]]
Written(chip, a, v) ==
  LET held == Held(chip.held, a, v)
      volume == \E ch \in Channels, side \in 1 .. 2 : VolumeRegs[ch][side] = a
  IN  CASE a = CodecReset -> PowerOn
        [] a \in CodecRegs ->
             [regs |-> [chip.regs EXCEPT ![a] = v], held |-> held,
              applied |-> IF volume /\ Update \in v THEN held ELSE chip.applied]
        [] OTHER -> chip
LastSixteen(s) == IF Len(s) > 16 THEN Tail(s) ELSE s
ShiftedIn(bits) ==
  [addr |-> CHOOSE a \in 0 .. 127 : Bits(a) = {i \in 0 .. 6 : bits[7 - i]},
   data |-> {i \in 0 .. 8 : bits[16 - i]}]
Watch(c, pins, old, new) ==
  LET rise(p) == p \notin old /\ p \in new
      frame == ShiftedIn(c.bits)
  IN  CASE rise(pins.clk) /\ pins.cs \notin new ->
             [bits |-> LastSixteen(Append(c.bits, pins.dat \in new)), chip |-> c.chip]
        [] rise(pins.cs) ->
             [bits |-> <<>>, chip |-> IF Len(c.bits) < 16 THEN c.chip
                                      ELSE Written(c.chip, frame.addr, frame.data)]
        [] OTHER -> c

-----------------------------------------------------------------------------
(* A register that was never written holds what the reset left in it, the   *)
(* same in all of them but the reset registers, the line control of the     *)
(* UARTs (0) and the interrupt masks of the I2S ports (all masked).  A GPIO *)
(* pin that is an input reads as the level outside.                         *)
Content(r) ==
  CASE r \in DOMAIN regs -> regs[r]
    [] r \notin DOMAIN regs /\ r[1] = "i2s" /\ r[3] = "imr" -> {0, 1, 4, 5}
    [] r \notin DOMAIN regs /\ r[1] = "uart" /\ r[3] = "lcr" -> {}
    [] OTHER -> initial
Sampled(r) ==
  IF r # GpioData THEN {Content(r)}
  ELSE {(Content(r) \cap Content(GpioDir)) \cup (level \ Content(GpioDir)) : level \in {{}, 0 .. 7}}

(* The reset generator: the lines of the DSPs are high in reset.            *)
ActiveHigh == {"dsp0_b", "dsp0_d", "dsp1_b", "dsp1_d"}
Level(l, asserted) == IF asserted = (l \in ActiveHigh) THEN 1 ELSE 0
InReset(l) == Extract(Content(Lines[l].reset.reg), Lines[l].reset) # {}

(* The access the processor is at: a register write of a codec is a frame   *)
(* of accesses, of which it has come to the one at op.at.                   *)
AccessOf(op) == IF op.op = "frame" THEN Frame(op.codec, op.addr, op.data, op.at) ELSE op
Op == Head(script)
Now == AccessOf(Op)
FrameAt(op, n) ==
  [op |-> "frame", codec |-> op.codec, addr |-> op.addr, data |-> op.data, at |-> n]
Rest == IF Op.op = "frame" /\ Op.at < FrameLength
        THEN <<FrameAt(Op, Op.at + 1)>> \o Tail(script) ELSE Tail(script)
Idle == script = <<>> /\ interrupted = <<>>
Cleared == [a \in CodecRegs |-> {}]

Init ==
  /\ \E p \in DOMAIN Programs : program = [of |-> p, started |-> 0]
  /\ script = <<>> /\ word = None
  /\ interrupted = <<>> /\ interrupts = 0 /\ connected = FALSE
  /\ regs = [r \in {<<"rst", 0>>, <<"rst", 1>>} |-> {}] /\ initial \in {{}, 0 .. 31}
  /\ status = [l \in DOMAIN Lines |-> Level(l, FALSE)]
  /\ locked = FALSE
  /\ cache = [k \in Codecs |-> Cleared]
  /\ codec = [k \in Codecs |-> Fresh]
  /\ set = <<>>
  /\ asked = [k \in Codecs |-> None]

-----------------------------------------------------------------------------
(* Calls.  The driver of the codecs computes what it writes from its cache. *)

Script(c) ==
  CASE c.fun = "access" -> c.script
    [] c.fun = "init" -> Wm8766Init(c.codec)
    [] c.fun = "resume" -> Wm8766Resume(c.codec, cache[c.codec])
    [] c.fun = "set_volume" -> SetVolume(c.codec, c.ch, c.l, c.r)
    [] c.fun = "volume_restore" -> VolumeRestore(c.codec, cache[c.codec])
    [] c.fun = "switch" -> CtlPut(c.codec, cache[c.codec], c.ctl, c.on)
    [] c.fun = "set_if" -> SetIf(c.codec, cache[c.codec], c.dac)
    [] c.fun = "set_role" -> SetRole(c.codec, cache[c.codec], c.master)
    [] c.fun = "lrclk_div" -> MasterLrclkDiv(c.codec, cache[c.codec], c.div)
    [] c.fun = "clk_polarity" -> ClkPolarity(c.codec, cache[c.codec], c.lrclk, c.bclk)
Asked(c) ==
  CASE c.fun = "init" ->
         [asked EXCEPT ![c.codec] = [ch \in Channels |-> <<{}, {}>>]]
    [] c.fun = "set_volume" /\ asked[c.codec] # None ->
         [asked EXCEPT ![c.codec][c.ch] = <<Bits(LinearVolToDb(c.l)), Bits(LinearVolToDb(c.r))>>]
    [] OTHER -> asked
Run(c) == script' = Script(c) /\ asked' = Asked(c) /\ word' = None

(* A call that is made in a loop until a field has some value, an interrupt *)
(* that is only raised then.                                                *)
Due(c) == "when" \in DOMAIN c => Extract(Content(c.when.reg), c.when) = c.is

Call ==
  /\ Idle /\ program.started < Len(Programs[program.of])
  /\ Due(Programs[program.of][program.started + 1])
  /\ Run(Programs[program.of][program.started + 1])
  /\ program' = [program EXCEPT !.started = @ + 1]
  /\ UNCHANGED <<interrupted, interrupts, connected, regs, outside, cache, codec, set>>

(* An interrupt, whatever the processor is doing, and the return from it.   *)
Interrupt ==
  /\ connected /\ interrupted = <<>> /\ interrupts < MaxInterrupts[program.of]
  /\ Extract(Content(Requests["interrupt_en"].reg), Requests["interrupt_en"]) # {}
  /\ interrupted' = <<[script |-> script, word |-> word]>>
  /\ interrupts' = interrupts + 1
  /\ \E c \in HandlerCalls[program.of] : Due(c) /\ Run(c)
  /\ UNCHANGED <<program, connected, regs, outside, cache, codec, set>>
Return ==
  /\ script = <<>> /\ interrupted # <<>>
  /\ script' = interrupted[1].script /\ word' = interrupted[1].word
  /\ interrupted' = <<>>
  /\ UNCHANGED <<program, interrupts, connected, regs, outside, cache, codec, set, asked>>

-----------------------------------------------------------------------------
(* The accesses.                                                            *)

Modifying == {"set", "put", "out", "modify"}
Read ==
  /\ script # <<>> /\ Now.op \in Modifying /\ word = None
  /\ word' \in Sampled(Now.field.reg)
  /\ UNCHANGED <<script, inside, regs, outside, cache, codec, set, asked>>

(* What an access puts into which fields: those of a register that is       *)
(* changed or filled by the bit are its bits.                               *)
PadEnables == Field(Debug, 16, 16)
BitByBit(r, bits, v) == [f \in {Field(r, b, 1) : b \in bits} |-> Flag(0, f.lo \in v)]
Puts(op) ==
  CASE op.op \in {"set", "put", "load", "banked"} -> [f \in {op.field} |-> op.value]
    [] op.op = "out" ->
         [f \in {op.field, PadEnables} |-> IF f = PadEnables THEN 0 .. 15 ELSE op.value]
    [] op.op = "modify" -> BitByBit(op.field.reg, op.clear \cup op.put, op.put)
    [] op.op = "fill" -> BitByBit(op.field.reg, FieldBits(op.field), op.value)
    [] OTHER -> <<>>
Changed(op, w) ==
  CASE op.op = "set" -> Insert(w, op.field, op.value)
    [] op.op = "put" -> InsertAll(w, op.field, op.value)
    [] op.op = "out" -> InsertAll(w, op.field, op.value) \cup 16 .. 31
    [] op.op = "modify" -> (w \ op.clear) \cup op.put

(* A pin that becomes an input no longer holds the level last put out.      *)
Released(r, new, f) == r = GpioDir /\ f.reg = GpioData /\ f.lo \notin new
Store(r, new) ==
  /\ regs' = [q \in DOMAIN regs \cup {r} |-> IF q = r THEN new ELSE regs[q]]
  /\ set' = [f \in DOMAIN Puts(Now) \cup {f \in DOMAIN set : ~Released(r, new, f)} |->
               IF f \in DOMAIN Puts(Now) THEN Puts(Now)[f] ELSE set[f]]
  /\ codec' = IF r # Debug THEN codec
              ELSE [k \in Codecs |-> Watch(codec[k], Pins(k), Content(Debug), new)]
  /\ script' = Rest /\ word' = None
  /\ UNCHANGED <<inside, outside, cache, asked>>
WriteBack == word # None /\ Store(Now.field.reg, Changed(Now, word))
Addressed ==
  IF Op.op = "banked" /\ (LatchBit \in Content(Lcr(Op.field.reg[2]))) # Op.latched
  THEN Op.other ELSE Op.field.reg
Write == script # <<>> /\ Op.op \in {"load", "fill", "banked"} /\ Store(Addressed, Op.value)

(* Busy-waiting for the status of a reset line, for the lock of PLL 1, for  *)
(* a field; and an access to a register that holds nothing.                 *)
Await ==
  /\ script # <<>>
  /\ \/ Op.op = "wait" /\ status[Op.line] = Op.level
     \/ Op.op = "lock" /\ locked
     \/ Op.op = "until" /\ Extract(Content(Op.field.reg), Op.field) = Op.value
     \/ Op.op = "strobe"
  /\ script' = Tail(script)
  /\ UNCHANGED <<inside, word, regs, outside, cache, codec, set, asked>>

(* snd_wm8766_write: the cache, then the frame.                             *)
WriteCodec ==
  /\ script # <<>> /\ Op.op = "codec"
  /\ cache' = IF Op.addr \in CodecRegs THEN [cache EXCEPT ![Op.codec][Op.addr] = Op.data]
              ELSE cache
  /\ script' = <<FrameAt(Op, 1)>> \o Tail(script)
  /\ UNCHANGED <<inside, word, regs, outside, codec, set, asked>>

(* dac_test_prepare clears the driver's structure.                          *)
Forget ==
  /\ script # <<>> /\ Op.op = "forget"
  /\ cache' = [cache EXCEPT ![Op.codec] = Cleared]
  /\ asked' = [asked EXCEPT ![Op.codec] = None]
  /\ script' = Tail(script)
  /\ UNCHANGED <<inside, word, regs, outside, codec, set>>

Connect ==
  /\ script # <<>> /\ Op.op = "connect"
  /\ connected' = Op.value
  /\ script' = Tail(script)
  /\ UNCHANGED <<program, interrupted, interrupts, word, regs, outside, cache, codec, set, asked>>

-----------------------------------------------------------------------------
(* Outside: the reset lines follow their register, the PLL locks.           *)

Settle ==
  /\ \E l \in DOMAIN Lines : status[l] # Level(l, InReset(l))
                             /\ status' = [status EXCEPT ![l] = Level(l, InReset(l))]
  /\ UNCHANGED <<inside, script, word, regs, initial, locked, cache, codec, set, asked>>
Lock ==
  /\ ~locked /\ Extract(Content(Pll1["PDRST1"].reg), Pll1["PDRST1"]) = {}
  /\ locked' = TRUE
  /\ UNCHANGED <<inside, script, word, regs, initial, status, cache, codec, set, asked>>

Access == Read \/ WriteBack \/ Write \/ Await \/ WriteCodec \/ Forget \/ Connect \/ Return
Next == Call \/ Interrupt \/ Access \/ Settle \/ Lock

Spec == Init /\ [][Next]_vars
(* The processor goes on, the reset generator and the PLL answer.           *)
FairSpec == Spec /\ WF_vars(Access) /\ WF_vars(Settle) /\ WF_vars(Lock)

-----------------------------------------------------------------------------
(* The programs.  A call is a script of accesses or a function of the codec *)
(* driver; the fields that a program and its handlers set are the same or   *)
(* have no bit in common, and every value fits its field.                   *)

Calls(p) == Range(Programs[p]) \cup HandlerCalls[p]
Scripted(calls) == {c \in calls : c.fun = "access"}
AccessesOf(calls) == UNION {Range(c.script) : c \in Scripted(calls)}
Accesses(p) == AccessesOf(Calls(p))

PadFields == {Field(Debug, n, 1) : n \in 0 .. 15} \cup {PadEnables}
PadOuts == {PadOut(n, v) : n \in 0 .. 15, v \in {{}, {0}}}

(* An access that needs a field to have some value when it is made: the     *)
(* latch bit of a UART, the direction of a GPIO pin that is put out.        *)
Latch(port) == Field(Lcr(port), LatchBit, 1)
Output(pin) == Field(GpioDir, pin, 1)
Needs(op) ==
  CASE op.op = "banked" -> {<<Latch(op.field.reg[2]), Flag(0, op.latched)>>}
    [] op.op = "modify" /\ op.field.reg = GpioData ->
         {<<Output(pin), {0}>> : pin \in op.clear \cup op.put}
    [] OTHER -> {}
NeedFields(p) == {need[1] : need \in UNION {Needs(op) : op \in Accesses(p)}}
AtRest(p) ==
  {<<Latch(op.field.reg[2]), {}>> : op \in {o \in Accesses(p) : o.op = "banked"}}
FieldsOf(p) == PadFields \cup NeedFields(p) \cup UNION {DOMAIN Puts(op) : op \in Accesses(p)}

(* In a script every need is met by an earlier access, or by the latch      *)
(* being closed between calls, which is also how the script leaves it.      *)
NeedsAt(p, s, i) == IF i > Len(s) THEN AtRest(p) ELSE Needs(s[i])
Unput(s, i, f) == \A j \in 1 .. i - 1 : f \notin DOMAIN Puts(s[j])
LastPut(s, i, f, v) ==
  \E j \in 1 .. i - 1 :
    /\ f \in DOMAIN Puts(s[j]) /\ Puts(s[j])[f] = v
    /\ \A m \in j + 1 .. i - 1 : f \notin DOMAIN Puts(s[m])
Prepared(p, s) ==
  \A i \in 1 .. Len(s) + 1 : \A need \in NeedsAt(p, s, i) :
    LastPut(s, i, need[1], need[2]) \/ (Unput(s, i, need[1]) /\ need \in AtRest(p))

FitsIn(v, f) == f.lo \in 0 .. 31 /\ f.width \in 1 .. 32 - f.lo /\ v \subseteq 0 .. f.width - 1
ProperAccess(op) ==
  CASE op.op \in {"set", "put"} -> FitsIn(op.value, op.field) /\ op.field.reg \notin {Debug, GpioData}
    [] op.op \in {"load", "fill", "banked"} ->
         /\ FitsIn(op.value, op.field) /\ op.field.lo = 0 /\ op.field.reg \notin {Debug, GpioData}
         /\ op.op = "banked" => op.latched \in BOOLEAN
    [] op.op = "modify" ->
         op.clear \subseteq 0 .. 31 /\ op.put \subseteq 0 .. 31 /\ op.field.reg # Debug
    [] op.op = "out" ->       \* nobody but the driver clocks or selects a codec
         op \in PadOuts \ ({PadOut(Pins(k).clk, {0}) : k \in Codecs}
                           \cup {PadOut(Pins(k).cs, {}) : k \in Codecs})
    [] op.op = "forget" -> op.codec \in Codecs
    [] op.op = "connect" -> op.value \in BOOLEAN
    [] OTHER -> op.op \in {"wait", "lock", "until", "strobe"}
Volumes == {0, 10, 50, 80, 100}
ProperCall(c) ==
  CASE c.fun = "access" ->
         c.script \in Seq(Range(c.script)) /\ \A op \in Range(c.script) : ProperAccess(op)
    [] c.fun = "set_volume" ->
         c.codec \in Codecs /\ c.ch \in Channels /\ c.l \in Volumes /\ c.r \in Volumes
    [] c.fun = "switch" -> c.codec \in Codecs /\ c.ctl \in DOMAIN Controls
    [] OTHER -> c.codec \in Codecs /\ c.fun \in {"init", "resume", "volume_restore", "set_if",
                                                "set_role", "lrclk_div", "clk_polarity"}

FieldsApart(p) ==
  /\ \A f, g \in FieldsOf(p) : f.reg = g.reg => f = g \/ FieldBits(f) \cap FieldBits(g) = {}
  /\ \A op \in Accesses(p) : op.op \in {"load", "fill", "banked"} =>
       \A f \in FieldsOf(p) : f.reg = op.field.reg => f \in DOMAIN Puts(op)

ASSUME BoundAssumption == \A p \in DOMAIN Programs : MaxInterrupts[p] \in Nat
ASSUME ProgramAssumption ==
  \A p \in DOMAIN Programs :
    /\ Programs[p] \in Seq(Range(Programs[p])) /\ \A c \in Calls(p) : ProperCall(c)
    /\ FieldsApart(p)
    /\ \A c \in Scripted(Calls(p)) : Prepared(p, c.script)
    /\ \A op \in AccessesOf(HandlerCalls[p]) :
         Needs(op) = {} /\ DOMAIN Puts(op) \cap NeedFields(p) = {}

-----------------------------------------------------------------------------
TypeOK ==
  /\ program.started \in 0 .. Len(Programs[program.of])
  /\ word \in {None} \cup SUBSET (0 .. 31) /\ (word # None => script # <<>>)
  /\ interrupts \in 0 .. MaxInterrupts[program.of] /\ connected \in BOOLEAN /\ locked \in BOOLEAN
  /\ \A r \in DOMAIN regs : regs[r] \subseteq 0 .. 31
  /\ status \in [DOMAIN Lines -> 0 .. 1]
  /\ \A k \in Codecs : \A a \in CodecRegs :
       cache[k][a] \subseteq 0 .. 8 /\ codec[k].chip.regs[a] \subseteq 0 .. 8

(* What the drivers ask of their callers.  A handler that interrupts an     *)
(* access between its read and its write back puts nothing into the         *)
(* register that the write back would undo.                                 *)
WordsKept ==
  script # <<>> => \A i \in DOMAIN interrupted : interrupted[i].word # None =>
    LET held == AccessOf(Head(interrupted[i].script))
    IN  \A f \in DOMAIN Puts(Now) : f.reg = held.field.reg =>
          f \in DOMAIN Puts(held) \/ Extract(interrupted[i].word, f) = Puts(Now)[f]

(* It does not talk to a codec either when it interrupts a call that does,  *)
(* and nobody talks to a codec before its init.                             *)
Talks(s) == \E i \in DOMAIN s : s[i].op \in {"codec", "frame", "out", "forget"}
TalksWhole == Talks(script) => \A i \in DOMAIN interrupted : ~Talks(interrupted[i].script)
Initialised(s) == \A i \in DOMAIN s : s[i].op \in {"codec", "frame"} => asked[s[i].codec] # None
InitFirst == Initialised(script) /\ \A i \in DOMAIN interrupted : Initialised(interrupted[i].script)
CallersConsiderate == WordsKept /\ TalksWhole /\ InitFirst

(* Every field of every register reads as it was last set, whatever was     *)
(* since written to its neighbours, and whoever interrupted whom between a  *)
(* read and the write back.                                                 *)
FieldsIntact == \A f \in DOMAIN set : Extract(Content(f.reg), f) = set[f]

(* Between calls an initialised codec holds what the driver's cache says,   *)
(* and plays each channel at the volumes in it: no frame was lost, torn by  *)
(* an interrupt or taken by the other codec.                                *)
CodecAgrees ==
  Idle => \A k \in Codecs : asked[k] # None =>
    /\ \A a \in 0 .. 10 : codec[k].chip.regs[a] = cache[k][a]
    /\ \A ch \in Channels :
         codec[k].chip.applied[ch] = [side \in 1 .. 2 |-> cache[k][VolumeRegs[ch][side]] \ {Update}]

(* The two sides of a channel change their volume at once, and only to the  *)
(* pair that was asked for (or to the codec's own on its reset).            *)
VolumesTogether ==
  [][\A k \in Codecs, ch \in Channels :
       LET applied == codec'[k].chip.applied[ch]
       IN  \/ applied = codec[k].chip.applied[ch]
           \/ applied = PowerOn.applied[ch]
           \/ asked[k] # None /\ applied = asked[k][ch]]_vars

(* Every call comes to its end, although it waits for resets and clocks     *)
(* without a time limit, and leaves no line in reset.                       *)
CallEnds == script # <<>> ~> (Idle /\ \A l \in DOMAIN Lines : status[l] = Level(l, FALSE))
=============================================================================
