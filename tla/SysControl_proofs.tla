------------------------------ MODULE SysControl_proofs ------------------------------
(***************************************************************************)
(* Proofs about the registers of the system, for every program and every   *)
(* handler that ProgramAssumption admits.  First what the macros of the    *)
(* register headers do to a word; then the types of the whole state; then  *)
(* that every field reads as it was last set, whoever interrupted whom;    *)
(* then that the codecs hold and play what they were told.                 *)
(***************************************************************************)
EXTENDS SysControl, SeqFacts

-----------------------------------------------------------------------------
(* Sequences, numbers and words.                                            *)

(* What is left of a sequence without its head, and with another one.       *)
LEMMA HeadAndTail ==
  ASSUME NEW S, NEW s \in Seq(S), s # <<>>
  PROVE  /\ Len(s) \in Nat /\ Len(s) >= 1 /\ Head(s) = s[1] /\ Head(s) \in S
         /\ Tail(s) \in Seq(S) /\ Len(Tail(s)) = Len(s) - 1
         /\ \A i \in 1 .. Len(s) - 1 : Tail(s)[i] = s[i + 1]
<1>1. Len(s) \in Nat /\ Len(s) # 0
  BY EmptySeq, LenProperties
<1>2. Head(s) = s[1] /\ Head(s) \in S /\ Tail(s) \in Seq(S) /\ Len(Tail(s)) = Len(s) - 1
      /\ \A i \in 1 .. Len(Tail(s)) : Tail(s)[i] = s[i + 1]
  BY HeadTailProperties
<1>3. QED
  BY <1>1, <1>2

(* A sequence with another head: its length, its elements and its tail.     *)
LEMMA OtherHead ==
  ASSUME NEW S, NEW s \in Seq(S), s # <<>>, NEW x \in S
  PROVE  /\ <<x>> \o Tail(s) \in Seq(S) /\ <<x>> \o Tail(s) # <<>>
         /\ Len(<<x>> \o Tail(s)) = Len(s) /\ Head(<<x>> \o Tail(s)) = x
         /\ Tail(<<x>> \o Tail(s)) = Tail(s)
         /\ (<<x>> \o Tail(s))[1] = x
         /\ \A i \in 2 .. Len(s) : (<<x>> \o Tail(s))[i] = s[i]
<1> DEFINE t == <<x>> \o Tail(s)
<1>1. Tail(s) \in Seq(S) /\ Len(Tail(s)) = Len(s) - 1 /\ Len(s) \in Nat /\ Len(s) >= 1
      /\ \A i \in 1 .. Len(s) - 1 : Tail(s)[i] = s[i + 1]
  BY HeadAndTail
<1>2. <<x>> \in Seq(S) /\ Len(<<x>>) = 1 /\ <<x>>[1] = x
  OBVIOUS
<1>3. t \in Seq(S) /\ Len(t) = Len(s)
      /\ \A i \in 1 .. Len(t) : t[i] = IF i <= 1 THEN <<x>>[i] ELSE Tail(s)[i - 1]
  BY <1>1, <1>2, ConcatProperties
<1>4. t # <<>> /\ t[1] = x /\ \A i \in 2 .. Len(s) : t[i] = s[i]
  <2>1. t # <<>>
    BY <1>3, <1>1, EmptySeq
  <2>2. ASSUME NEW i \in 2 .. Len(s) PROVE t[i] = s[i]
    <3>1. i - 1 \in 1 .. Len(s) - 1 /\ i \in 1 .. Len(t) /\ ~(i <= 1) /\ (i - 1) + 1 = i
      BY <1>1, <1>3
    <3>2. QED
      BY <3>1, <1>1, <1>3
  <2>3. t[1] = x
    BY <1>1, <1>2, <1>3
  <2> QED BY <2>1, <2>2, <2>3
<1>5. Head(t) = x /\ Tail(t) = Tail(s)
  <2>1. Head(t) = t[1] /\ Tail(t) \in Seq(S) /\ Len(Tail(t)) = Len(t) - 1
        /\ \A i \in 1 .. Len(t) - 1 : Tail(t)[i] = t[i + 1]
    BY <1>3, <1>4, HeadAndTail
  <2>2. \A i \in 1 .. Len(Tail(t)) : Tail(t)[i] = Tail(s)[i]
    <3> SUFFICES ASSUME NEW i \in 1 .. Len(Tail(t)) PROVE Tail(t)[i] = Tail(s)[i]
      OBVIOUS
    <3>1. i \in 1 .. Len(s) - 1 /\ i + 1 \in 2 .. Len(s)
      BY <2>1, <1>1, <1>3
    <3>2. QED
      BY <3>1, <2>1, <1>1, <1>3, <1>4
  <2>3. Tail(t) = Tail(s)
    BY <2>1, <2>2, <1>1, <1>3, SeqEqual
  <2> QED BY <2>1, <2>3, <1>4
<1>6. QED
  BY <1>3, <1>4, <1>5

(* The bits of the numbers in use.                                          *)
LEMMA Powers ==
  /\ 2^0 = 1 /\ 2^1 = 2 /\ 2^2 = 4 /\ 2^3 = 8 /\ 2^4 = 16 /\ 2^5 = 32 /\ 2^6 = 64 /\ 2^7 = 128
  /\ 2^8 = 256 /\ 2^9 = 512 /\ 2^10 = 1024 /\ 2^11 = 2048 /\ 2^12 = 4096 /\ 2^13 = 8192
  /\ 2^14 = 16384 /\ 2^15 = 32768
OBVIOUS

(* A number that has a high bit is at least the power of two of that bit.   *)
LEMMA HighBits ==
  ASSUME NEW n \in Nat, NEW i \in 0 .. 15, i \in Bits(n)
  PROVE  /\ (i = 3 => n >= 8) /\ (i = 4 => n >= 16) /\ (i = 5 => n >= 32) /\ (i = 6 => n >= 64)
         /\ (i = 7 => n >= 128) /\ (i = 8 => n >= 256) /\ (i >= 9 => n >= 512)
<1>1. (n \div 2^i) % 2 = 1
  BY DEF Bits
<1>2. CASE i = 3
  <2>1. (n \div 8) % 2 = 1
    BY <1>1, <1>2, Powers
  <2>2. n >= 8
    BY <2>1
  <2>3. QED
    BY <1>2, <2>2
<1>3. CASE i = 4
  <2>1. (n \div 16) % 2 = 1
    BY <1>1, <1>3, Powers
  <2>2. n >= 16
    BY <2>1
  <2>3. QED
    BY <1>3, <2>2
<1>4. CASE i = 5
  <2>1. (n \div 32) % 2 = 1
    BY <1>1, <1>4, Powers
  <2>2. n >= 32
    BY <2>1
  <2>3. QED
    BY <1>4, <2>2
<1>5. CASE i = 6
  <2>1. (n \div 64) % 2 = 1
    BY <1>1, <1>5, Powers
  <2>2. n >= 64
    BY <2>1
  <2>3. QED
    BY <1>5, <2>2
<1>6. CASE i = 7
  <2>1. (n \div 128) % 2 = 1
    BY <1>1, <1>6, Powers
  <2>2. n >= 128
    BY <2>1
  <2>3. QED
    BY <1>6, <2>2
<1>7. CASE i = 8
  <2>1. (n \div 256) % 2 = 1
    BY <1>1, <1>7, Powers
  <2>2. n >= 256
    BY <2>1
  <2>3. QED
    BY <1>7, <2>2
<1>8. CASE i = 9
  <2>1. (n \div 512) % 2 = 1
    BY <1>1, <1>8, Powers
  <2>2. n >= 512
    BY <2>1
  <2>3. QED
    BY <1>8, <2>2
<1>9. CASE i = 10
  <2>1. (n \div 1024) % 2 = 1
    BY <1>1, <1>9, Powers
  <2>2. n >= 1024
    BY <2>1
  <2>3. QED
    BY <1>9, <2>2
<1>10. CASE i = 11
  <2>1. (n \div 2048) % 2 = 1
    BY <1>1, <1>10, Powers
  <2>2. n >= 2048
    BY <2>1
  <2>3. QED
    BY <1>10, <2>2
<1>11. CASE i = 12
  <2>1. (n \div 4096) % 2 = 1
    BY <1>1, <1>11, Powers
  <2>2. n >= 4096
    BY <2>1
  <2>3. QED
    BY <1>11, <2>2
<1>12. CASE i = 13
  <2>1. (n \div 8192) % 2 = 1
    BY <1>1, <1>12, Powers
  <2>2. n >= 8192
    BY <2>1
  <2>3. QED
    BY <1>12, <2>2
<1>13. CASE i = 14
  <2>1. (n \div 16384) % 2 = 1
    BY <1>1, <1>13, Powers
  <2>2. n >= 16384
    BY <2>1
  <2>3. QED
    BY <1>13, <2>2
<1>14. CASE i = 15
  <2>1. (n \div 32768) % 2 = 1
    BY <1>1, <1>14, Powers
  <2>2. n >= 32768
    BY <2>1
  <2>3. QED
    BY <1>14, <2>2
<1>15. QED
  BY <1>2, <1>3, <1>4, <1>5, <1>6, <1>7, <1>8, <1>9, <1>10, <1>11, <1>12, <1>13, <1>14

(* The bits of a number lie below the power of two it is less than.         *)
LEMMA BitsBelow ==
  /\ \A n \in Nat : Bits(n) \subseteq 0 .. 15
  /\ \A n \in 0 .. 511 : Bits(n) \subseteq 0 .. 8
  /\ \A n \in 0 .. 255 : Bits(n) \subseteq 0 .. 7
  /\ \A n \in 0 .. 127 : Bits(n) \subseteq 0 .. 6
  /\ \A n \in 0 .. 7 : Bits(n) \subseteq 0 .. 2
<1>1. \A n \in Nat : Bits(n) \subseteq 0 .. 15
  BY DEF Bits
<1>2. \A n \in Nat : \A i \in Bits(n) :
        /\ i \in 0 .. 15
        /\ (i = 3 => n >= 8) /\ (i = 4 => n >= 16) /\ (i = 5 => n >= 32) /\ (i = 6 => n >= 64)
        /\ (i = 7 => n >= 128) /\ (i = 8 => n >= 256) /\ (i >= 9 => n >= 512)
  BY <1>1, HighBits
<1>3. \A n \in 0 .. 511 : Bits(n) \subseteq 0 .. 8
  BY <1>2
<1>4. \A n \in 0 .. 255 : Bits(n) \subseteq 0 .. 7
  BY <1>2
<1>5. \A n \in 0 .. 127 : Bits(n) \subseteq 0 .. 6
  BY <1>2
<1>6. \A n \in 0 .. 7 : Bits(n) \subseteq 0 .. 2
  BY <1>2
<1>7. QED
  BY <1>1, <1>3, <1>4, <1>5, <1>6

(* A number below 128 is known by its bits.                                 *)
LEMMA BitsTell ==
  ASSUME NEW a \in 0 .. 127, NEW b \in 0 .. 127, Bits(a) = Bits(b)
  PROVE  a = b
<1>1. \A i \in 0 .. 15 : (a \div 2^i) % 2 = 1 <=> (b \div 2^i) % 2 = 1
  <2>1. \A i \in 0 .. 15 : (i \in Bits(a) <=> (a \div 2^i) % 2 = 1)
                           /\ (i \in Bits(b) <=> (b \div 2^i) % 2 = 1)
    BY DEF Bits
  <2> QED BY <2>1
<1>2. /\ a % 2 = 1 <=> b % 2 = 1
      /\ (a \div 2) % 2 = 1 <=> (b \div 2) % 2 = 1
      /\ (a \div 4) % 2 = 1 <=> (b \div 4) % 2 = 1
      /\ (a \div 8) % 2 = 1 <=> (b \div 8) % 2 = 1
      /\ (a \div 16) % 2 = 1 <=> (b \div 16) % 2 = 1
      /\ (a \div 32) % 2 = 1 <=> (b \div 32) % 2 = 1
      /\ (a \div 64) % 2 = 1 <=> (b \div 64) % 2 = 1
  BY <1>1, Powers
<1> QED BY <1>2

-----------------------------------------------------------------------------
(* What a read, modify and write of a field does to a word, for every      *)
(* word, field and value: the macros of the register headers, which are    *)
(* the same lines with other masks a thousand times over.                  *)

(* A field of a register, some value for it.                                *)
IsField(f) == f.lo \in Nat /\ f.width \in Nat
Fits(v, f) == v \subseteq 0 .. f.width - 1

(* A field reads as it was set, for every word, field and value that fits.  *)
THEOREM SetReadsBack ==
  ASSUME NEW w \in SUBSET Nat, NEW f, NEW v \in SUBSET Nat, IsField(f), Fits(v, f)
  PROVE  Extract(Insert(w, f, v), f) = v
<1>1. ASSUME NEW b \in v PROVE b \in Extract(Insert(w, f, v), f)
  BY <1>1 DEF Extract, Insert, Shifted, FieldBits, IsField, Fits
<1>2. ASSUME NEW b \in Extract(Insert(w, f, v), f) PROVE b \in v
  BY <1>2 DEF Extract, Insert, Shifted, FieldBits, IsField, Fits
<1>3. QED
  BY <1>1, <1>2

(* The bits outside the field keep what they were, whatever is put into it. *)
THEOREM SetLeavesOthers ==
  ASSUME NEW w \in SUBSET Nat, NEW f, NEW v \in SUBSET Nat, IsField(f)
  PROVE  Insert(w, f, v) \ FieldBits(f) = w \ FieldBits(f)
<1>1. Shifted(v \cap 0 .. f.width - 1, f.lo) \subseteq FieldBits(f)
  BY DEF Shifted, FieldBits, IsField
<1>2. QED
  BY <1>1 DEF Insert

(* A field that shares no bit with it keeps its value: the macros of one    *)
(* register do not disturb each other.                                      *)
THEOREM SetKeepsNeighbours ==
  ASSUME NEW w \in SUBSET Nat, NEW f, NEW g, NEW v \in SUBSET Nat,
         IsField(f), IsField(g), FieldBits(f) \cap FieldBits(g) = {}
  PROVE  Extract(Insert(w, f, v), g) = Extract(w, g)
<1>1. Insert(w, f, v) \ FieldBits(f) = w \ FieldBits(f)
  BY SetLeavesOthers
<1>2. Insert(w, f, v) \cap FieldBits(g) = w \cap FieldBits(g)
  BY <1>1
<1>3. QED
  BY <1>2 DEF Extract

(* The macros of the clock dividers put every bit of their value: that is   *)
(* the same as the others do as long as the value fits.                     *)
THEOREM FittingDivider ==
  ASSUME NEW w \in SUBSET Nat, NEW f, NEW v \in SUBSET Nat, IsField(f), Fits(v, f)
  PROVE  InsertAll(w, f, v) = Insert(w, f, v)
<1>1. v \cap 0 .. f.width - 1 = v
  BY DEF Fits
<1>2. QED
  BY <1>1 DEF InsertAll, Insert

(* Two fields of a register may be set in either order: an interrupt that   *)
(* sets one before or after the main program sets the other leaves the same *)
(* word (between its read and its write it does not).                       *)
THEOREM SetsCommute ==
  ASSUME NEW w \in SUBSET Nat, NEW f, NEW g, NEW v \in SUBSET Nat, NEW u \in SUBSET Nat,
         IsField(f), IsField(g), FieldBits(f) \cap FieldBits(g) = {}
  PROVE  Insert(Insert(w, f, v), g, u) = Insert(Insert(w, g, u), f, v)
<1> DEFINE vs == Shifted(v \cap 0 .. f.width - 1, f.lo)
           us == Shifted(u \cap 0 .. g.width - 1, g.lo)
<1>1. vs \subseteq FieldBits(f) /\ us \subseteq FieldBits(g)
  BY DEF Shifted, FieldBits, IsField
<1> HIDE DEF vs, us
<1>2. (((w \ FieldBits(f)) \cup vs) \ FieldBits(g)) \cup us
        = (((w \ FieldBits(g)) \cup us) \ FieldBits(f)) \cup vs
  BY <1>1
<1>3. QED
  BY <1>2 DEF Insert, vs, us

(* What a field reads depends on its bits only.                             *)
LEMMA SameBits ==
  ASSUME NEW w, NEW u, NEW f, w \cap FieldBits(f) = u \cap FieldBits(f)
  PROVE  Extract(w, f) = Extract(u, f)
BY DEF Extract

(* And two words that read the same in it agree on them.                    *)
LEMMA ReadBits ==
  ASSUME NEW w \in SUBSET Nat, NEW u \in SUBSET Nat, NEW f, IsField(f),
         Extract(w, f) = Extract(u, f)
  PROVE  w \cap FieldBits(f) = u \cap FieldBits(f)
<1>1. ASSUME NEW x \in SUBSET Nat, NEW b \in FieldBits(f)
      PROVE  b \in x <=> b - f.lo \in Extract(x, f)
  <2>1. ASSUME b \in x PROVE b - f.lo \in Extract(x, f)
    BY <2>1 DEF Extract, Shifted, FieldBits, IsField
  <2>2. ASSUME b - f.lo \in Extract(x, f) PROVE b \in x
    <3>1. PICK c \in x \cap FieldBits(f) : b - f.lo = c + (-f.lo)
      BY <2>2 DEF Extract, Shifted
    <3>2. b = c
      BY <3>1 DEF FieldBits, IsField
    <3>3. QED
      BY <3>1, <3>2
  <2>3. QED
    BY <2>1, <2>2
<1>2. QED
  BY <1>1

-----------------------------------------------------------------------------
(* What the accesses of a program put into which fields.                    *)

(* The definition, one kind of access at a time.                            *)
LEMMA PutsOne ==
  ASSUME NEW op, op.op \in {"set", "put", "load", "banked"}
  PROVE  Puts(op) = [f \in {op.field} |-> op.value]
BY Zenon DEF Puts

(* A pad puts its level and, with it, the enables of all pads.              *)
LEMMA PutsOut ==
  ASSUME NEW op, op.op = "out"
  PROVE  Puts(op) = [f \in {op.field, PadEnables} |->
                       IF f = PadEnables THEN 0 .. 15 ELSE op.value]
BY Zenon DEF Puts

(* A change of bits puts each of them as a field of one bit.                *)
LEMMA PutsModify ==
  ASSUME NEW op, op.op = "modify"
  PROVE  Puts(op) = BitByBit(op.field.reg, op.clear \cup op.put, op.put)
BY Zenon DEF Puts

(* A register filled by the bit puts each bit of the field.                 *)
LEMMA PutsFill ==
  ASSUME NEW op, op.op = "fill"
  PROVE  Puts(op) = BitByBit(op.field.reg, FieldBits(op.field), op.value)
BY Zenon DEF Puts

(* All the other operations put nothing.                                    *)
LEMMA PutsNothing ==
  ASSUME NEW op, op.op \notin {"set", "put", "load", "banked", "out", "modify", "fill"}
  PROVE  Puts(op) = <<>> /\ DOMAIN Puts(op) = {}
<1>1. Puts(op) = <<>>
  BY Zenon DEF Puts
<1>2. QED
  BY <1>1

(* A proper access does one of the things there are.                        *)
Silent == {"forget", "connect", "wait", "lock", "until", "strobe"}

(* What a program's setting of a field is known to be.                      *)
LEMMA ProperOne ==
  ASSUME NEW op, ProperAccess(op), op.op \in {"set", "put"}
  PROVE  FitsIn(op.value, op.field) /\ op.field.reg \notin {Debug, GpioData}
BY Zenon DEF ProperAccess

(* The same for a register that is written whole.                           *)
LEMMA ProperWhole ==
  ASSUME NEW op, ProperAccess(op), op.op \in {"load", "fill", "banked"}
  PROVE  FitsIn(op.value, op.field) /\ op.field.lo = 0 /\ op.field.reg \notin {Debug, GpioData}
BY Zenon DEF ProperAccess

(* A banked register says which of the two it means.                        *)
LEMMA ProperBanked ==
  ASSUME NEW op, ProperAccess(op), op.op = "banked" PROVE op.latched \in BOOLEAN
BY Zenon DEF ProperAccess

(* The same for a change of bits.                                           *)
LEMMA ProperModify ==
  ASSUME NEW op, ProperAccess(op), op.op = "modify"
  PROVE  op.clear \subseteq 0 .. 31 /\ op.put \subseteq 0 .. 31 /\ op.field.reg # Debug
BY Zenon DEF ProperAccess

(* The same for a pad: the codecs' clocks and selects are the driver's own. *)
LEMMA ProperOut ==
  ASSUME NEW op, ProperAccess(op), op.op = "out"
  PROVE  /\ op \in PadOuts
         /\ \A k \in Codecs : op # PadOut(Pins(k).clk, {0}) /\ op # PadOut(Pins(k).cs, {})
<1>1. op \in PadOuts \ ({PadOut(Pins(k).clk, {0}) : k \in Codecs}
                        \cup {PadOut(Pins(k).cs, {}) : k \in Codecs})
  BY Zenon DEF ProperAccess
<1>2. QED
  BY <1>1

(* The codec a driver's structure is cleared for is one of the two.         *)
LEMMA ProperForget ==
  ASSUME NEW op, ProperAccess(op), op.op = "forget" PROVE op.codec \in Codecs
BY Zenon DEF ProperAccess

(* Interrupts are switched on or off.                                       *)
LEMMA ProperConnect ==
  ASSUME NEW op, ProperAccess(op), op.op = "connect" PROVE op.value \in BOOLEAN
BY Zenon DEF ProperAccess

(* The other operations of a program touch no register.                     *)
LEMMA ProperOther ==
  ASSUME NEW op, ProperAccess(op),
         op.op \notin {"set", "put", "load", "fill", "banked", "modify", "out"}
  PROVE  op.op \in Silent
<1>1. CASE op.op \in {"forget", "connect"}
  BY <1>1 DEF Silent
<1>2. CASE op.op \notin {"forget", "connect"}
  <2>1. op.op \in {"wait", "lock", "until", "strobe"}
    BY Zenon, <1>2 DEF ProperAccess
  <2>2. QED
    BY <2>1 DEF Silent
<1>3. QED
  BY <1>1, <1>2

(* The scripts of a program hold its accesses.                              *)
LEMMA ScriptedAccess ==
  ASSUME NEW p \in DOMAIN Programs, NEW c \in Calls(p), c.fun = "access"
  PROVE  c.script \in Seq(Accesses(p)) /\ Prepared(p, c.script)
<1>1. ProperCall(c) /\ c \in Scripted(Calls(p)) /\ Prepared(p, c.script)
  BY ProgramAssumption DEF Scripted
<1>2. c.script \in Seq(Range(c.script))
  BY Zenon, <1>1 DEF ProperCall
<1>3. Range(c.script) \subseteq Accesses(p)
  BY <1>1 DEF Accesses, AccessesOf
<1>4. QED
  BY <1>1, <1>2, <1>3

(* Every access of a program is a proper one.                               *)
LEMMA AccessIsProper ==
  ASSUME NEW p \in DOMAIN Programs, NEW op \in Accesses(p) PROVE ProperAccess(op)
<1>1. PICK c \in Scripted(Calls(p)) : op \in Range(c.script)
  BY DEF Accesses, AccessesOf
<1>2. ProperCall(c) /\ c.fun = "access"
  BY <1>1, ProgramAssumption DEF Scripted
<1>3. \A x \in Range(c.script) : ProperAccess(x)
  BY Zenon, <1>2 DEF ProperCall
<1>4. QED
  BY <1>1, <1>3

(* The accesses that reach a register: those of the program, the pads.      *)
Reaching(p) == Accesses(p) \cup PadOuts
IsProper(f) == f.lo \in 0 .. 31 /\ f.width \in 1 .. 32 - f.lo

(* A bit that is put is a field of its own.                                 *)
LEMMA OneBit ==
  ASSUME NEW f, f.lo \in 0 .. 31, f.width = 1, NEW x \in {{}, {0}}
  PROVE  FitsIn(x, f) /\ IsProper(f)
<1>1. x \subseteq 0 .. f.width - 1
  <2>1. x \subseteq {0}
    OBVIOUS
  <2>2. 0 \in 0 .. f.width - 1
    OBVIOUS
  <2>3. QED
    BY <2>1, <2>2
<1>2. f.width \in 1 .. 32 - f.lo
  OBVIOUS
<1>3. QED
  BY <1>1, <1>2 DEF FitsIn, IsProper

(* The fields a change by the bit puts: one for each bit.                   *)
LEMMA BitDomain ==
  ASSUME NEW r, NEW bits, NEW v
  PROVE  DOMAIN BitByBit(r, bits, v) = {Field(r, b, 1) : b \in bits}
BY DEF BitByBit

(* Such a field lies in the register, is one bit wide, at one of the bits.  *)
LEMMA BitFields ==
  ASSUME NEW r, NEW bits, NEW v, NEW f \in DOMAIN BitByBit(r, bits, v)
  PROVE  f.reg = r /\ f.lo \in bits /\ f.width = 1
<1>1. f \in {Field(r, b, 1) : b \in bits}
  BY DEF BitByBit
<1>2. QED
  BY <1>1 DEF Field

(* What it puts there: the bit of the value.                                *)
LEMMA BitPut ==
  ASSUME NEW r, NEW bits, NEW v, NEW f \in DOMAIN BitByBit(r, bits, v)
  PROVE  /\ f.lo \in v => BitByBit(r, bits, v)[f] = {0}
         /\ f.lo \notin v => BitByBit(r, bits, v)[f] = {}
<1>1. BitByBit(r, bits, v) = [g \in {Field(r, b, 1) : b \in bits} |-> Flag(0, g.lo \in v)]
  BY DEF BitByBit
<1>2. BitByBit(r, bits, v)[f] = Flag(0, f.lo \in v)
  BY <1>1
<1>3. /\ f.lo \in v => Flag(0, f.lo \in v) = {0}
      /\ f.lo \notin v => Flag(0, f.lo \in v) = {}
  BY Zenon DEF Flag
<1>4. QED
  BY <1>2, <1>3

(* The fields of the pads, and what an access to a pad puts into them.      *)
LEMMA PadFacts ==
  /\ IsProper(PadEnables) /\ FitsIn(0 .. 15, PadEnables) /\ PadEnables.reg = Debug
  /\ PadEnables.lo = 16 /\ PadEnables.width = 16
  /\ \A f \in PadFields : IsProper(f) /\ f.reg = Debug
  /\ \A A \in PadOuts :
       /\ A.op = "out" /\ A.field \in PadFields /\ A.field # PadEnables /\ A.field.reg = Debug
       /\ A.field.lo \in 0 .. 15 /\ A.field.width = 1
       /\ A.value \in {{}, {0}} /\ FitsIn(A.value, A.field)
  /\ PadEnables \in PadFields
<1>1. /\ PadEnables.reg = Debug /\ PadEnables.lo = 16 /\ PadEnables.width = 16
  BY DEF PadEnables, Field
<1>2. IsProper(PadEnables) /\ FitsIn(0 .. 15, PadEnables)
  BY <1>1 DEF IsProper, FitsIn
<1>3. ASSUME NEW n \in 0 .. 15
      PROVE  /\ Field(Debug, n, 1).reg = Debug /\ Field(Debug, n, 1).lo = n
             /\ Field(Debug, n, 1).width = 1 /\ Field(Debug, n, 1) \in PadFields
             /\ IsProper(Field(Debug, n, 1)) /\ Field(Debug, n, 1) # PadEnables
  <2>1. Field(Debug, n, 1).reg = Debug /\ Field(Debug, n, 1).lo = n /\ Field(Debug, n, 1).width = 1
    BY DEF Field
  <2>2. QED
    BY <1>1, <2>1 DEF IsProper, PadFields
<1>4. PadEnables \in PadFields
  BY DEF PadFields
<1>5. \A f \in PadFields : IsProper(f) /\ f.reg = Debug
  BY <1>1, <1>2, <1>3 DEF PadFields
<1>6. ASSUME NEW A \in PadOuts
      PROVE /\ A.op = "out" /\ A.field \in PadFields /\ A.field # PadEnables /\ A.field.reg = Debug
            /\ A.field.lo \in 0 .. 15 /\ A.field.width = 1
            /\ A.value \in {{}, {0}} /\ FitsIn(A.value, A.field)
  <2>1. PICK n \in 0 .. 15, v \in {{}, {0}} : A = PadOut(n, v)
    BY DEF PadOuts
  <2>2. A.op = "out" /\ A.field = Field(Debug, n, 1) /\ A.value = v
    BY <2>1 DEF PadOut
  <2>3. FitsIn(v, Field(Debug, n, 1))
    BY <1>3 DEF FitsIn
  <2>4. QED
    BY <1>3, <2>2, <2>3
<1>7. QED
  BY <1>1, <1>2, <1>4, <1>5, <1>6

(* Every field an access puts is one of the program's, in its register, and *)
(* the value fits; one that fills its register leaves no field of it out.   *)
LEMMA PutsFacts ==
  ASSUME NEW p \in DOMAIN Programs, NEW A \in Reaching(p)
  PROVE  /\ DOMAIN Puts(A) \subseteq FieldsOf(p)
         /\ \A f \in DOMAIN Puts(A) :
              IsProper(f) /\ FitsIn(Puts(A)[f], f) /\ f.reg = A.field.reg
         /\ \A f \in DOMAIN Puts(A) : f.reg = GpioData => f.width = 1 /\ A.op = "modify"
<1>1. CASE A \in PadOuts
  <2>1. /\ A.op = "out" /\ A.field \in PadFields /\ A.field # PadEnables /\ A.field.reg = Debug
        /\ FitsIn(A.value, A.field) /\ IsProper(A.field)
    BY <1>1, PadFacts
  <2>2. DOMAIN Puts(A) = {A.field, PadEnables} /\ Puts(A)[A.field] = A.value
        /\ Puts(A)[PadEnables] = 0 .. 15
    BY <2>1, PutsOut
  <2>3. Debug # GpioData
    BY DEF Debug, GpioData
  <2>4. QED
    BY <2>1, <2>2, <2>3, PadFacts DEF FieldsOf
<1>2. CASE A \in Accesses(p)
  <2> USE <1>2
  <2>1. ProperAccess(A)
    BY AccessIsProper
  <2>2. DOMAIN Puts(A) \subseteq FieldsOf(p)
    BY DEF FieldsOf
  <2>3. CASE A.op \in {"set", "put"}
    <3>1. FitsIn(A.value, A.field) /\ A.field.reg # GpioData
      BY <2>1, <2>3, ProperOne
    <3>2. DOMAIN Puts(A) = {A.field} /\ Puts(A)[A.field] = A.value
      BY <2>3, PutsOne
    <3>3. QED
      BY <2>2, <3>1, <3>2 DEF FitsIn, IsProper
  <2>4. CASE A.op \in {"load", "banked"}
    <3>1. FitsIn(A.value, A.field) /\ A.field.reg # GpioData
      BY <2>1, <2>4, ProperWhole
    <3>2. DOMAIN Puts(A) = {A.field} /\ Puts(A)[A.field] = A.value
      BY <2>4, PutsOne
    <3>3. QED
      BY <2>2, <3>1, <3>2 DEF FitsIn, IsProper
  <2>5. CASE A.op = "fill"
    <3>1. FitsIn(A.value, A.field) /\ A.field.reg # GpioData /\ A.field.lo = 0
      BY <2>1, <2>5, ProperWhole
    <3>2. FieldBits(A.field) \subseteq 0 .. 31
      BY <3>1 DEF FitsIn, FieldBits
    <3>3. Puts(A) = BitByBit(A.field.reg, FieldBits(A.field), A.value)
      BY <2>5, PutsFill
    <3> DEFINE B == FieldBits(A.field)
               P == BitByBit(A.field.reg, B, A.value)
    <3>7. B \subseteq 0 .. 31
      BY <3>2
    <3> HIDE DEF B
    <3>8. ASSUME NEW f \in DOMAIN P
          PROVE  FitsIn(P[f], f) /\ f.reg = A.field.reg /\ f.width = 1
      <4>1. f.reg = A.field.reg /\ f.lo \in B /\ f.width = 1 /\ P[f] \in {{}, {0}}
        BY BitFields, BitPut
      <4>2. f.lo \in 0 .. 31
        BY <3>7, <4>1
      <4>3. QED
        BY <4>1, <4>2, OneBit
    <3>4. \A f \in DOMAIN Puts(A) : FitsIn(Puts(A)[f], f) /\ f.reg = A.field.reg
      BY <3>3, <3>8 DEF B
    <3>5. QED
      BY <2>2, <3>1, <3>4 DEF FitsIn, IsProper
  <2>6. CASE A.op = "modify"
    <3>1. A.clear \cup A.put \subseteq 0 .. 31
      BY <2>1, <2>6, ProperModify
    <3>2. Puts(A) = BitByBit(A.field.reg, A.clear \cup A.put, A.put)
      BY <2>6, PutsModify
    <3> DEFINE B == A.clear \cup A.put
               P == BitByBit(A.field.reg, B, A.put)
    <3>7. B \subseteq 0 .. 31
      BY <3>1
    <3> HIDE DEF B
    <3>8. ASSUME NEW f \in DOMAIN P
          PROVE  FitsIn(P[f], f) /\ f.reg = A.field.reg /\ f.width = 1
      <4>1. f.reg = A.field.reg /\ f.lo \in B /\ f.width = 1 /\ P[f] \in {{}, {0}}
        BY BitFields, BitPut
      <4>2. f.lo \in 0 .. 31
        BY <3>7, <4>1
      <4>3. QED
        BY <4>1, <4>2, OneBit
    <3>3. \A f \in DOMAIN Puts(A) : FitsIn(Puts(A)[f], f) /\ f.reg = A.field.reg /\ f.width = 1
      BY <3>2, <3>8 DEF B
    <3>4. QED
      BY <2>2, <2>6, <3>3 DEF FitsIn, IsProper
  <2>7. CASE A.op = "out"
    BY <1>1, <2>1, <2>7, ProperOut
  <2>8. CASE A.op \notin {"set", "put", "load", "banked", "out", "modify", "fill"}
    <3>1. DOMAIN Puts(A) = {}
      BY <2>8, PutsNothing
    <3>2. QED
      BY <3>1
  <2>9. QED
    BY <2>3, <2>4, <2>5, <2>6, <2>7, <2>8
<1>3. QED
  BY <1>1, <1>2 DEF Reaching

(* What an access needs, one kind at a time.                                *)
LEMMA NeedsLatch ==
  ASSUME NEW op, op.op = "banked"
  PROVE  Needs(op) = {<<Latch(op.field.reg[2]), Flag(0, op.latched)>>}
BY Zenon DEF Needs

(* A GPIO pin is only put out when its direction is output.                 *)
LEMMA NeedsOutput ==
  ASSUME NEW op, op.op = "modify", op.field.reg = GpioData
  PROVE  Needs(op) = {<<Output(pin), {0}>> : pin \in op.clear \cup op.put}
BY Zenon DEF Needs

(* No other access needs anything.                                          *)
LEMMA NeedsNothing ==
  ASSUME NEW op, op.op # "banked", ~(op.op = "modify" /\ op.field.reg = GpioData)
  PROVE  Needs(op) = {}
BY Zenon DEF Needs

(* The fields that are needed are fields of the program, and neither pads   *)
(* nor GPIO levels.                                                         *)
LEMMA NeedsFacts ==
  ASSUME NEW p \in DOMAIN Programs
  PROVE  /\ \A op \in Accesses(p) : \A need \in Needs(op) : need[1] \in NeedFields(p)
         /\ \A need \in AtRest(p) : need[1] \in NeedFields(p)
         /\ \A f \in NeedFields(p) : 
              IsProper(f) /\ f.reg \notin {Debug, GpioData} /\ f \in FieldsOf(p)
<1>1. \A op \in Accesses(p) : \A need \in Needs(op) : need[1] \in NeedFields(p)
  BY DEF NeedFields
<1>2. ASSUME NEW need \in AtRest(p) PROVE need[1] \in NeedFields(p)
  <2>1. PICK op \in Accesses(p) : op.op = "banked" /\ need = <<Latch(op.field.reg[2]), {}>>
    BY DEF AtRest
  <2>2. <<Latch(op.field.reg[2]), Flag(0, op.latched)>> \in Needs(op)
    BY <2>1, NeedsLatch
  <2>3. QED
    BY <1>1, <2>1, <2>2
<1>3. ASSUME NEW f \in NeedFields(p)
      PROVE IsProper(f) /\ f.reg \notin {Debug, GpioData} /\ f \in FieldsOf(p)
  <2>1. PICK op \in Accesses(p) : \E need \in Needs(op) : f = need[1]
    BY DEF NeedFields
  <2>2. PICK need \in Needs(op) : f = need[1]
    BY <2>1
  <2>3. f \in FieldsOf(p)
    BY DEF FieldsOf
  <2>4. CASE op.op = "banked"
    <3>1. f = Latch(op.field.reg[2])
      BY <2>2, <2>4, NeedsLatch
    <3>2. f.lo = 7 /\ f.width = 1 /\ f.reg = <<"uart", op.field.reg[2], "lcr">>
      BY <3>1 DEF Latch, Lcr, UartReg, LatchBit, Field
    <3>3. f.reg # Debug /\ f.reg # GpioData
      BY <3>2 DEF Debug, GpioData
    <3>4. QED
      BY <2>3, <3>2, <3>3 DEF IsProper
  <2>5. CASE op.op = "modify" /\ op.field.reg = GpioData
    <3>1. PICK pin \in op.clear \cup op.put : f = Output(pin)
      BY <2>2, <2>5, NeedsOutput
    <3>2. pin \in 0 .. 31
      BY <2>5, AccessIsProper, ProperModify
    <3>3. f.lo = pin /\ f.width = 1 /\ f.reg = <<"gpio", "dir">>
      BY <3>1 DEF Output, GpioDir, Field
    <3>4. f.reg # Debug /\ f.reg # GpioData
      BY <3>3 DEF Debug, GpioData
    <3>5. QED
      BY <2>3, <3>2, <3>3, <3>4 DEF IsProper
  <2>6. QED
    BY <2>2, <2>4, <2>5, NeedsNothing
<1>4. QED
  BY <1>1, <1>2, <1>3

(* The fields of a program: all proper, and those of the GPIO data bits.    *)
LEMMA FieldFacts ==
  ASSUME NEW p \in DOMAIN Programs, NEW f \in FieldsOf(p)
  PROVE  IsProper(f) /\ (f.reg = GpioData => f.width = 1)
<1>1. CASE f \in PadFields
  <2>1. Debug # GpioData
    BY DEF Debug, GpioData
  <2>2. QED
    BY <1>1, <2>1, PadFacts
<1>2. CASE f \in NeedFields(p)
  BY <1>2, NeedsFacts
<1>3. CASE \E op \in Accesses(p) : f \in DOMAIN Puts(op)
  BY <1>3, PutsFacts DEF Reaching
<1>4. QED
  BY <1>1, <1>2, <1>3 DEF FieldsOf

-----------------------------------------------------------------------------
(* What an access leaves in the register.                                   *)

(* A field of one bit reads as that bit of the word.                        *)
LEMMA OneBitReads ==
  ASSUME NEW w, w \subseteq Nat, NEW f, f.lo \in Nat, f.width = 1
  PROVE  /\ FieldBits(f) = {f.lo}
         /\ f.lo \in w => Extract(w, f) = {0}
         /\ f.lo \notin w => Extract(w, f) = {}
<1>1. FieldBits(f) = {f.lo}
  BY DEF FieldBits
<1>2. ASSUME f.lo \in w PROVE Extract(w, f) = {0}
  <2>1. w \cap FieldBits(f) = {f.lo}
    BY <1>1, <1>2
  <2>2. Extract(w, f) = {b + (-f.lo) : b \in {f.lo}}
    BY <2>1 DEF Extract, Shifted
  <2>3. f.lo + (-f.lo) = 0
    OBVIOUS
  <2>4. QED
    BY <2>2, <2>3
<1>3. ASSUME f.lo \notin w PROVE Extract(w, f) = {}
  <2>1. w \cap FieldBits(f) = {}
    BY <1>1, <1>3
  <2>2. QED
    BY <2>1 DEF Extract, Shifted
<1>4. QED
  BY <1>1, <1>2, <1>3

(* A proper field with a fitting value, in the terms of the theorems above. *)
LEMMA ProperFits ==
  ASSUME NEW w, w \subseteq 0 .. 31, NEW f, IsProper(f), NEW v, FitsIn(v, f)
  PROVE  /\ w \in SUBSET Nat /\ v \in SUBSET Nat /\ IsField(f) /\ Fits(v, f)
         /\ f.lo \in Nat /\ f.width \in Nat /\ f.lo + f.width <= 32
<1>1. f.lo \in 0 .. 31 /\ f.width \in 1 .. 32 - f.lo
  BY DEF IsProper
<1>2. f.lo \in Nat /\ f.width \in Nat /\ f.lo + f.width <= 32
  BY <1>1
<1>3. v \subseteq 0 .. f.width - 1
  BY DEF FitsIn
<1>4. w \in SUBSET Nat
  OBVIOUS
<1>5. v \in SUBSET Nat
  BY <1>2, <1>3
<1>6. QED
  BY <1>2, <1>3, <1>4, <1>5 DEF IsField, Fits

(* A word of 32 bits stays one when a field of it is set.                   *)
LEMMA InsertWord ==
  ASSUME NEW w, w \subseteq 0 .. 31, NEW f, IsProper(f), NEW v, FitsIn(v, f)
  PROVE  Insert(w, f, v) \subseteq 0 .. 31
<1>1. f.lo \in Nat /\ f.width \in Nat /\ f.lo + f.width <= 32
  BY ProperFits
<1>2. ASSUME NEW b \in Insert(w, f, v), b \notin w PROVE b \in 0 .. 31
  <2>1. b \in Shifted(v \cap 0 .. f.width - 1, f.lo)
    BY <1>2 DEF Insert
  <2>2. PICK c \in v \cap 0 .. f.width - 1 : b = c + f.lo
    BY <2>1 DEF Shifted
  <2>3. c \in 0 .. f.width - 1
    BY <2>2
  <2>4. QED
    BY <1>1, <2>2, <2>3
<1>3. QED
  BY <1>2

(* A proper field reads as it was set.                                      *)
LEMMA InsertReads ==
  ASSUME NEW w, w \subseteq 0 .. 31, NEW f, IsProper(f), NEW v, FitsIn(v, f)
  PROVE  Extract(Insert(w, f, v), f) = v
BY ProperFits, SetReadsBack

(* The bits outside a proper field are left alone.                          *)
LEMMA InsertKeeps ==
  ASSUME NEW w, w \subseteq 0 .. 31, NEW f, IsProper(f), NEW v, FitsIn(v, f)
  PROVE  Insert(w, f, v) \ FieldBits(f) = w \ FieldBits(f)
BY ProperFits, SetLeavesOthers

(* A fitting value is put the same way without its mask.                    *)
LEMMA InsertFits ==
  ASSUME NEW w, w \subseteq 0 .. 31, NEW f, IsProper(f), NEW v, FitsIn(v, f)
  PROVE  InsertAll(w, f, v) = Insert(w, f, v)
BY ProperFits, FittingDivider

(* A field with no bit among those that changed reads as before.            *)
LEMMA Unchanged ==
  ASSUME NEW w, NEW u, NEW f, NEW g, u \ FieldBits(f) = w \ FieldBits(f),
         FieldBits(f) \cap FieldBits(g) = {}
  PROVE  Extract(u, g) = Extract(w, g)
<1>1. u \cap FieldBits(g) = w \cap FieldBits(g)
  OBVIOUS
<1>2. QED
  BY <1>1, SameBits

(* The definition, one kind of access at a time.                            *)
LEMMA ChangedSet == ASSUME NEW op, NEW w, op.op = "set"
  PROVE Changed(op, w) = Insert(w, op.field, op.value)
BY Zenon DEF Changed

(* A divider is put without a mask.                                         *)
LEMMA ChangedPut == ASSUME NEW op, NEW w, op.op = "put"
  PROVE Changed(op, w) = InsertAll(w, op.field, op.value)
BY Zenon DEF Changed

(* A pad is put, and all pads are enabled.                                  *)
LEMMA ChangedOut == ASSUME NEW op, NEW w, op.op = "out"
  PROVE Changed(op, w) = InsertAll(w, op.field, op.value) \cup 16 .. 31
BY Zenon DEF Changed

(* Bits are cleared, then others set.                                       *)
LEMMA ChangedModify == ASSUME NEW op, NEW w, op.op = "modify"
  PROVE Changed(op, w) = (w \ op.clear) \cup op.put
BY Zenon DEF Changed

(* What is proved of an access A that leaves u where w was.                 *)
PutDone(A, u) == \A f \in DOMAIN Puts(A) : Extract(u, f) = Puts(A)[f]
RestKept(p, A, w, u) ==
  \A g \in FieldsOf(p) : g.reg = A.field.reg /\ g \notin DOMAIN Puts(A) =>
    Extract(u, g) = Extract(w, g)

(* Two fields of a program in one register are the same or share no bit.    *)
LEMMA Apart ==
  ASSUME NEW p \in DOMAIN Programs, NEW f \in FieldsOf(p), NEW g \in FieldsOf(p),
         f.reg = g.reg, f # g
  PROVE  FieldBits(f) \cap FieldBits(g) = {}
BY ProgramAssumption DEF FieldsApart

(* Setting a field leaves the value in it and the others alone.             *)
LEMMA InsertDone ==
  ASSUME NEW p \in DOMAIN Programs, NEW A \in Reaching(p), NEW w, w \subseteq 0 .. 31,
         A.op \in {"set", "put"}
  PROVE  /\ Changed(A, w) \subseteq 0 .. 31
         /\ PutDone(A, Changed(A, w)) /\ RestKept(p, A, w, Changed(A, w))
<1>1. DOMAIN Puts(A) = {A.field} /\ Puts(A)[A.field] = A.value
  BY PutsOne
<1>2. A.field \in FieldsOf(p) /\ IsProper(A.field) /\ FitsIn(A.value, A.field)
  BY <1>1, PutsFacts
<1>3. Changed(A, w) = Insert(w, A.field, A.value)
  <2>1. InsertAll(w, A.field, A.value) = Insert(w, A.field, A.value)
    BY <1>2, InsertWord, InsertReads, InsertKeeps, InsertFits
  <2>2. QED
    BY <2>1, ChangedSet, ChangedPut
<1> DEFINE u == Insert(w, A.field, A.value)
<1>4. u \subseteq 0 .. 31 /\ Extract(u, A.field) = A.value
      /\ u \ FieldBits(A.field) = w \ FieldBits(A.field)
  BY <1>2, InsertWord, InsertReads, InsertKeeps, InsertFits
<1> HIDE DEF u
<1>5. ASSUME NEW g \in FieldsOf(p), g.reg = A.field.reg, g # A.field
      PROVE  Extract(u, g) = Extract(w, g)
  BY <1>2, <1>4, <1>5, Apart, Unchanged
<1>6. PutDone(A, u)
  BY <1>1, <1>4 DEF PutDone
<1>7. RestKept(p, A, w, u)
  BY <1>1, <1>5 DEF RestKept
<1>8. QED
  BY <1>3, <1>4, <1>6, <1>7 DEF u

(* So does putting out a level on a pad.                                    *)
LEMMA OutDone ==
  ASSUME NEW p \in DOMAIN Programs, NEW A \in Reaching(p), NEW w, w \subseteq 0 .. 31, A.op = "out"
  PROVE  /\ Changed(A, w) \subseteq 0 .. 31
         /\ PutDone(A, Changed(A, w)) /\ RestKept(p, A, w, Changed(A, w))
<1>1. A \in PadOuts
  BY AccessIsProper, ProperOut DEF Reaching
<1>2. /\ A.field \in PadFields /\ A.field # PadEnables /\ A.field.reg = Debug
      /\ A.field.lo \in 0 .. 15 /\ A.field.width = 1 /\ FitsIn(A.value, A.field)
      /\ IsProper(A.field) /\ PadEnables.reg = Debug /\ PadEnables \in PadFields
      /\ PadEnables.lo = 16 /\ PadEnables.width = 16
  BY <1>1, PadFacts
<1>3. DOMAIN Puts(A) = {A.field, PadEnables} /\ Puts(A)[A.field] = A.value
      /\ Puts(A)[PadEnables] = 0 .. 15
  BY <1>2, PutsOut
<1> DEFINE u == Insert(w, A.field, A.value)
           x == u \cup 16 .. 31
<1>4. u \subseteq 0 .. 31 /\ Extract(u, A.field) = A.value
      /\ u \ FieldBits(A.field) = w \ FieldBits(A.field)
      /\ InsertAll(w, A.field, A.value) = u
  <2>1. u \subseteq 0 .. 31
    BY <1>2, InsertWord
  <2>2. Extract(u, A.field) = A.value
    BY <1>2, InsertReads
  <2>3. u \ FieldBits(A.field) = w \ FieldBits(A.field)
    BY <1>2, InsertKeeps
  <2>4. InsertAll(w, A.field, A.value) = u
    BY <1>2, InsertFits
  <2>5. QED
    BY <2>1, <2>2, <2>3, <2>4
<1>5. Changed(A, w) = x
  BY <1>4, ChangedOut
<1> HIDE DEF u
<1>6. FieldBits(PadEnables) = 16 .. 31 /\ FieldBits(A.field) = {A.field.lo}
  BY <1>2 DEF FieldBits
<1>7. x \subseteq 0 .. 31
  BY <1>4
<1>8. Extract(x, A.field) = A.value
  <2>1. x \cap FieldBits(A.field) = u \cap FieldBits(A.field)
    BY <1>2, <1>6
  <2>2. QED
    BY <1>4, <2>1, SameBits
<1>9. Extract(x, PadEnables) = 0 .. 15
  <2>1. x \cap FieldBits(PadEnables) = 16 .. 31
    BY <1>6
  <2>2. Extract(x, PadEnables) = {b + (-16) : b \in 16 .. 31}
    BY <1>2, <2>1 DEF Extract, Shifted
  <2>3. \A b \in 16 .. 31 : b + (-16) \in 0 .. 15
    OBVIOUS
  <2>4. \A c \in 0 .. 15 : c + 16 \in 16 .. 31 /\ (c + 16) + (-16) = c
    OBVIOUS
  <2>5. QED
    BY <2>2, <2>3, <2>4
<1>10. PutDone(A, x)
  BY <1>3, <1>8, <1>9 DEF PutDone
<1>11. ASSUME NEW g \in FieldsOf(p), g.reg = Debug, g # A.field, g # PadEnables
       PROVE  Extract(x, g) = Extract(w, g)
  <2>1. A.field \in FieldsOf(p) /\ PadEnables \in FieldsOf(p)
    BY <1>2 DEF FieldsOf
  <2>2. FieldBits(A.field) \cap FieldBits(g) = {} /\ FieldBits(PadEnables) \cap FieldBits(g) = {}
    BY <1>2, <1>11, <2>1, Apart
  <2>3. x \cap FieldBits(g) = u \cap FieldBits(g)
    BY <1>6, <2>2
  <2>4. Extract(x, g) = Extract(u, g)
    BY <2>3, SameBits
  <2>5. Extract(u, g) = Extract(w, g)
    BY <1>4, <2>2, Unchanged
  <2>6. QED
    BY <2>4, <2>5
<1>12. RestKept(p, A, w, x)
  BY <1>2, <1>3, <1>11 DEF RestKept
<1>13. QED
  BY <1>5, <1>7, <1>10, <1>12

(* So does a change of bits.                                                *)
LEMMA ModifyDone ==
  ASSUME NEW p \in DOMAIN Programs, NEW A \in Reaching(p), NEW w, w \subseteq 0 .. 31,
         A.op = "modify"
  PROVE  /\ Changed(A, w) \subseteq 0 .. 31
         /\ PutDone(A, Changed(A, w)) /\ RestKept(p, A, w, Changed(A, w))
<1> DEFINE r == A.field.reg
           bits == A.clear \cup A.put
           u == (w \ A.clear) \cup A.put
<1>1. ProperAccess(A)
  <2>1. A \notin PadOuts
    BY PadFacts
  <2>2. QED
    BY <2>1, AccessIsProper DEF Reaching
<1>2. A.clear \subseteq 0 .. 31 /\ A.put \subseteq 0 .. 31
  BY <1>1, ProperModify
<1>3. Changed(A, w) = u
  BY ChangedModify
<1>4. Puts(A) = BitByBit(r, bits, A.put)
  BY PutsModify
<1>5. u \subseteq 0 .. 31
  BY <1>2
<1>6. \A f \in DOMAIN Puts(A) :
        /\ f.reg = r /\ f.lo \in bits /\ f.width = 1
        /\ f.lo \in A.put => Puts(A)[f] = {0}
        /\ f.lo \notin A.put => Puts(A)[f] = {}
  <2> HIDE DEF bits, u, r
  <2>1. ASSUME NEW f \in DOMAIN Puts(A)
        PROVE  f.reg = r /\ f.lo \in bits /\ f.width = 1
    BY <1>4, BitFields
  <2>2. ASSUME NEW f \in DOMAIN Puts(A)
        PROVE  /\ f.lo \in A.put => Puts(A)[f] = {0}
               /\ f.lo \notin A.put => Puts(A)[f] = {}
    BY <1>4, BitPut
  <2>3. QED
    BY <2>1, <2>2
<1>7. ASSUME NEW f \in DOMAIN Puts(A) PROVE Extract(u, f) = Puts(A)[f]
  <2>1. f.lo \in bits /\ f.width = 1
    BY <1>6
  <2>2. f.lo \in Nat /\ u \subseteq Nat
    BY <1>2, <1>5, <2>1
  <2>3. f.lo \in A.put <=> f.lo \in u
    BY <2>1
  <2>4. QED
    BY <1>6, <2>1, <2>2, <2>3, OneBitReads
<1>8. ASSUME NEW g \in FieldsOf(p), g.reg = r, g \notin DOMAIN Puts(A)
      PROVE  Extract(u, g) = Extract(w, g)
  <2>1. ASSUME NEW b \in bits PROVE b \notin FieldBits(g)
    <3> DEFINE f == Field(r, b, 1)
    <3>1. f \in DOMAIN Puts(A)
      BY <1>4 DEF BitByBit
    <3>2. f \in FieldsOf(p) /\ f # g
      BY <1>8, <3>1, PutsFacts
    <3>3. f.reg = r /\ f.lo = b /\ f.width = 1
      BY DEF Field
    <3> HIDE DEF f
    <3>4. FieldBits(f) \cap FieldBits(g) = {}
      BY <1>8, <3>2, <3>3, Apart
    <3>5. b \in Nat
      BY <1>2
    <3>6. FieldBits(f) = {b}
      BY <3>3, <3>5, OneBitReads
    <3>7. QED
      BY <3>4, <3>6
  <2>2. u \cap FieldBits(g) = w \cap FieldBits(g)
    BY <2>1
  <2>3. QED
    BY <2>2, SameBits
<1>9. PutDone(A, u)
  BY <1>7 DEF PutDone
<1>10. RestKept(p, A, w, u)
  BY <1>8 DEF RestKept
<1>11. QED
  BY <1>3, <1>5, <1>9, <1>10

(* So does every access that modifies its register.                         *)
LEMMA ChangedFacts ==
  ASSUME NEW p \in DOMAIN Programs, NEW A \in Reaching(p), NEW w, w \subseteq 0 .. 31,
         A.op \in Modifying
  PROVE  /\ Changed(A, w) \subseteq 0 .. 31
         /\ PutDone(A, Changed(A, w)) /\ RestKept(p, A, w, Changed(A, w))
<1>1. A.op \in {"set", "put"} \/ A.op = "out" \/ A.op = "modify"
  BY DEF Modifying
<1>2. QED
  BY <1>1, InsertDone, OutDone, ModifyDone

(* A register written whole.                                                *)
LEMMA WholeFacts ==
  ASSUME NEW p \in DOMAIN Programs, NEW A \in Accesses(p),
         A.op \in {"load", "fill", "banked"}, NEW w
  PROVE  A.value \subseteq 0 .. 31 /\ PutDone(A, A.value) /\ RestKept(p, A, w, A.value)
<1>1. FitsIn(A.value, A.field) /\ A.field.lo = 0
  BY AccessIsProper, ProperWhole
<1>2. A.field.width \in 1 .. 32 /\ A.value \subseteq 0 .. A.field.width - 1
  BY <1>1 DEF FitsIn
<1>3. A.value \subseteq 0 .. 31
  BY <1>2
<1>4. RestKept(p, A, w, A.value)
  <2>1. \A f \in FieldsOf(p) : f.reg = A.field.reg => f \in DOMAIN Puts(A)
    BY ProgramAssumption DEF FieldsApart
  <2>2. QED
    BY <2>1 DEF RestKept
<1>5. CASE A.op \in {"load", "banked"}
  <2>1. DOMAIN Puts(A) = {A.field} /\ Puts(A)[A.field] = A.value
    BY <1>5, PutsOne
  <2>2. FieldBits(A.field) = 0 .. A.field.width - 1
    <3>1. FieldBits(A.field) = 0 .. 0 + A.field.width - 1
      BY <1>1 DEF FieldBits
    <3>2. 0 + A.field.width - 1 = A.field.width - 1
      BY <1>2
    <3>3. QED
      BY <3>1, <3>2
  <2>3. A.value \cap FieldBits(A.field) = A.value
    BY <1>2, <2>2
  <2>4. Extract(A.value, A.field) = {b + (-0) : b \in A.value}
    BY <1>1, <2>3 DEF Extract, Shifted
  <2>5. \A b \in A.value : b + (-0) = b
    BY <1>3
  <2>6. Extract(A.value, A.field) = A.value
    BY <2>4, <2>5
  <2>7. QED
    BY <1>3, <1>4, <2>1, <2>6 DEF PutDone
<1>6. CASE A.op = "fill"
  <2> DEFINE r == A.field.reg
             bits == FieldBits(A.field)
  <2>1. Puts(A) = BitByBit(r, bits, A.value)
    BY <1>6, PutsFill
  <2>2. bits \subseteq Nat
    BY <1>1, <1>2 DEF FieldBits
  <2>3. \A f \in DOMAIN Puts(A) :
          /\ f.lo \in bits /\ f.width = 1
          /\ f.lo \in A.value => Puts(A)[f] = {0}
          /\ f.lo \notin A.value => Puts(A)[f] = {}
    BY <2>1, BitFields, BitPut
  <2>4. A.value \subseteq Nat
    BY <1>3
  <2>5. ASSUME NEW f \in DOMAIN Puts(A) PROVE Extract(A.value, f) = Puts(A)[f]
    <3>1. f.lo \in Nat /\ f.width = 1
      BY <2>2, <2>3
    <3>2. QED
      BY <2>3, <2>4, <3>1, OneBitReads
  <2>6. QED
    BY <1>3, <1>4, <2>5 DEF PutDone
<1>7. QED
  BY <1>5, <1>6

-----------------------------------------------------------------------------
(* The scripts of the codec driver.                                         *)

RegData == SUBSET (0 .. 8)
Caches == [CodecRegs -> RegData]
WriteAddrs == CodecRegs \cup {CodecReset}
CodecOps == {CodecOp(k, a, d) : k \in Codecs, a \in WriteAddrs, d \in RegData}

(* The calls that are not a script, one function at a time.                 *)
LEMMA ScriptAccess == ASSUME NEW c, c.fun = "access" PROVE Script(c) = c.script
BY Zenon DEF Script

(* The initialisation of a codec.                                           *)
LEMMA ScriptInit == ASSUME NEW c, c.fun = "init" PROVE Script(c) = Wm8766Init(c.codec)
BY Zenon DEF Script

(* Its registers written again from the cache.                              *)
LEMMA ScriptResume ==
  ASSUME NEW c, c.fun = "resume" PROVE Script(c) = Wm8766Resume(c.codec, cache[c.codec])
BY Zenon DEF Script

(* The volume of a channel.                                                 *)
LEMMA ScriptVolume ==
  ASSUME NEW c, c.fun = "set_volume" PROVE Script(c) = SetVolume(c.codec, c.ch, c.l, c.r)
BY Zenon DEF Script

(* The update of the volumes from the cache.                                *)
LEMMA ScriptRestore ==
  ASSUME NEW c, c.fun = "volume_restore" PROVE Script(c) = VolumeRestore(c.codec, cache[c.codec])
BY Zenon DEF Script

(* A switch of the codec.                                                   *)
LEMMA ScriptSwitch ==
  ASSUME NEW c, c.fun = "switch" PROVE Script(c) = CtlPut(c.codec, cache[c.codec], c.ctl, c.on)
BY Zenon DEF Script

(* Its audio interface.                                                     *)
LEMMA ScriptIf ==
  ASSUME NEW c, c.fun = "set_if" PROVE Script(c) = SetIf(c.codec, cache[c.codec], c.dac)
BY Zenon DEF Script

(* Its role of master or slave.                                             *)
LEMMA ScriptRole ==
  ASSUME NEW c, c.fun = "set_role" PROVE Script(c) = SetRole(c.codec, cache[c.codec], c.master)
BY Zenon DEF Script

(* The divider of its frame clock.                                          *)
LEMMA ScriptDiv ==
  ASSUME NEW c, c.fun = "lrclk_div"
  PROVE Script(c) = MasterLrclkDiv(c.codec, cache[c.codec], c.div)
BY Zenon DEF Script

(* The polarity of its clocks.                                              *)
LEMMA ScriptPolarity ==
  ASSUME NEW c, c.fun = "clk_polarity"
  PROVE Script(c) = ClkPolarity(c.codec, cache[c.codec], c.lrclk, c.bclk)
BY Zenon DEF Script

(* A proper call names a codec, and asks for a volume there is.             *)
CodecFuns == {"init", "resume", "set_volume", "volume_restore", "switch", "set_if", "set_role",
              "lrclk_div", "clk_polarity"}

(* What is known of the arguments of a proper call of the codec driver.     *)
LEMMA ProperCodecCall ==
  ASSUME NEW c, ProperCall(c), c.fun # "access"
  PROVE  /\ c.fun \in CodecFuns /\ c.codec \in Codecs
         /\ c.fun = "set_volume" => c.ch \in Channels /\ c.l \in Volumes /\ c.r \in Volumes
         /\ c.fun = "switch" => c.ctl \in DOMAIN Controls
<1>1. CASE c.fun = "set_volume"
  <2>1. c.codec \in Codecs /\ c.ch \in Channels /\ c.l \in Volumes /\ c.r \in Volumes
    BY Zenon, <1>1 DEF ProperCall
  <2>2. QED
    BY <1>1, <2>1 DEF CodecFuns
<1>2. CASE c.fun = "switch"
  <2>1. c.codec \in Codecs /\ c.ctl \in DOMAIN Controls
    BY Zenon, <1>2 DEF ProperCall
  <2>2. QED
    BY <1>2, <2>1 DEF CodecFuns
<1>3. CASE c.fun # "set_volume" /\ c.fun # "switch"
  <2>1. c.codec \in Codecs /\ c.fun \in {"init", "resume", "volume_restore", "set_if",
                                         "set_role", "lrclk_div", "clk_polarity"}
    BY Zenon, <1>3 DEF ProperCall
  <2>2. QED
    BY <1>3, <2>1 DEF CodecFuns
<1>4. QED
  BY <1>1, <1>2, <1>3

(* The values of the driver's tables.                                       *)
LEMMA VolumeValues ==
  ASSUME NEW v \in Volumes
  PROVE  LinearVolToDb(v) \in 0 .. 255 /\ Bits(LinearVolToDb(v)) \subseteq 0 .. 7
<1>1. LinearVolToDb(v) \in {0, 215, 243, 252, 255}
  BY DEF Volumes, LinearVolToDb
<1>2. LinearVolToDb(v) \in 0 .. 255
  BY <1>1
<1>3. QED
  BY <1>2, BitsBelow

(* The eleven register values of the initialisation.                        *)
LEMMA Defaults ==
  /\ DOMAIN DefaultValues = 1 .. 11
  /\ \A i \in 1 .. 11 : DefaultValues[i] \in 0 .. 511 /\ Bits(DefaultValues[i]) \subseteq 0 .. 8
<1>1. DOMAIN DefaultValues = 1 .. 11 /\ \A i \in 1 .. 11 : DefaultValues[i] \in 0 .. 511
  BY DEF DefaultValues
<1>2. ASSUME NEW n \in 0 .. 511 PROVE Bits(n) \subseteq 0 .. 8
  BY BitsBelow
<1>3. ASSUME NEW i \in 1 .. 11 PROVE Bits(DefaultValues[i]) \subseteq 0 .. 8
  <2> DEFINE n == DefaultValues[i]
  <2>1. n \in 0 .. 511
    BY <1>1
  <2> HIDE DEF n
  <2>2. Bits(n) \subseteq 0 .. 8
    BY <1>2, <2>1
  <2>3. QED
    BY <2>2 DEF n
<1>4. QED
  BY <1>1, <1>3

(* The registers and bits of the switches.                                  *)
LEMMA ControlFacts ==
  ASSUME NEW ctl \in DOMAIN Controls
  PROVE  Controls[ctl].reg \in {2, 3, 9} /\ Controls[ctl].bit \in 0 .. 8
BY DEF Controls, Switch

(* The index of a ratio of the frame clock, and its bits.                   *)
LEMMA RatioFacts ==
  ASSUME NEW div, div \in Range(LrclkRatios)
  PROVE  RatioIndex(div) \in 1 .. 6 /\ Shifted(Bits(RatioIndex(div) - 1), 6) \subseteq 6 .. 8
<1>1. DOMAIN LrclkRatios = 1 .. 6
  BY DEF LrclkRatios
<1>2. \E i \in DOMAIN LrclkRatios : LrclkRatios[i] = div
  BY DEF Range
<1>3. RatioIndex(div) \in 1 .. 6
  BY <1>1, <1>2 DEF RatioIndex
<1> DEFINE n == RatioIndex(div) - 1
<1>4. n \in 0 .. 7
  BY <1>3
<1> HIDE DEF n
<1>5. Bits(n) \subseteq 0 .. 2
  BY <1>4, BitsBelow
<1>6. Shifted(Bits(n), 6) \subseteq 6 .. 8
  BY <1>5 DEF Shifted
<1>7. QED
  BY <1>3, <1>6 DEF n

(* A codec write.                                                           *)
LEMMA WriteIsOp ==
  ASSUME NEW k \in Codecs, NEW a \in WriteAddrs, NEW d, d \subseteq 0 .. 8
  PROVE  CodecOp(k, a, d) \in CodecOps /\ CodecWrite(k, a, d) = <<CodecOp(k, a, d)>>
         /\ CodecWrite(k, a, d) \in Seq(CodecOps)
<1>1. d \in RegData
  BY DEF RegData
<1>2. CodecOp(k, a, d) \in CodecOps
  BY <1>1 DEF CodecOps
<1>3. CodecWrite(k, a, d) = <<CodecOp(k, a, d)>>
  BY DEF CodecWrite
<1>4. QED
  BY <1>2, <1>3

(* What the cache holds for a register: nine bits.                          *)
LEMMA CacheData ==
  ASSUME NEW regs0 \in Caches, NEW a \in CodecRegs PROVE regs0[a] \subseteq 0 .. 8
<1>1. regs0[a] \in RegData
  BY DEF Caches
<1>2. QED
  BY <1>1 DEF RegData

(* The single writes: to which register, and what.                          *)
LEMMA RestoreScript ==
  ASSUME NEW k \in Codecs, NEW m \in Caches
  PROVE  /\ VolumeRestore(k, m) = <<CodecOp(k, 1, m[1] \cup {Update})>>
         /\ m[1] \cup {Update} \subseteq 0 .. 8
<1>1. m[1] \subseteq 0 .. 8 /\ Update \in 0 .. 8
  BY CacheData DEF CodecRegs, Update
<1>2. QED
  BY <1>1 DEF VolumeRestore, CodecWrite

(* A switch is one write of register 2, 3 or 9.                             *)
LEMMA SwitchScript ==
  ASSUME NEW k \in Codecs, NEW m \in Caches, NEW ctl \in DOMAIN Controls, NEW on
  PROVE  \E a \in {2, 3, 9}, d \in RegData : CtlPut(k, m, ctl, on) = <<CodecOp(k, a, d)>>
<1> DEFINE s == Controls[ctl]
           d == (m[s.reg] \ {s.bit}) \cup (IF on # s.inverted THEN {s.bit} ELSE {})
<1>1. s.reg \in {2, 3, 9} /\ s.bit \in 0 .. 8
  BY ControlFacts
<1>2. CtlPut(k, m, ctl, on) = <<CodecOp(k, s.reg, d)>>
  BY DEF CtlPut, CodecWrite
<1>3. m[s.reg] \subseteq 0 .. 8
  BY <1>1, CacheData DEF CodecRegs
<1>4. d \in RegData
  BY <1>1, <1>3 DEF RegData
<1>5. QED
  BY <1>1, <1>2, <1>4

(* The interface is one write of register 3.                                *)
LEMMA IfScript ==
  ASSUME NEW k \in Codecs, NEW m \in Caches, NEW dac
  PROVE  \E d \in RegData : SetIf(k, m, dac) = <<CodecOp(k, 3, d)>>
<1>1. m[3] \subseteq 0 .. 8
  BY CacheData DEF CodecRegs
<1>2. (m[3] \ 0 .. 5) \cup (dac \cap 0 .. 5) \in RegData
  BY <1>1 DEF RegData
<1>3. QED
  BY <1>2 DEF SetIf, CodecWrite

(* The role is one write of register 10, or none.                           *)
LEMMA RoleScript ==
  ASSUME NEW k \in Codecs, NEW m \in Caches, NEW master
  PROVE  \/ SetRole(k, m, master) = <<>>
         \/ \E d \in RegData : SetRole(k, m, master) = <<CodecOp(k, 10, d)>>
<1> DEFINE d == (m[10] \ {Master}) \cup (IF master THEN {Master} ELSE {})
<1>1. m[10] \subseteq 0 .. 8 /\ Master \in 0 .. 8
  BY CacheData DEF CodecRegs, Master
<1>2. d \in RegData
  BY <1>1 DEF RegData
<1>3. SetRole(k, m, master) \in {<<>>, <<CodecOp(k, 10, d)>>}
  BY DEF SetRole, CodecWrite
<1>4. QED
  BY <1>2, <1>3

(* The divider is one write of register 10, or none.                        *)
LEMMA DivScript ==
  ASSUME NEW k \in Codecs, NEW m \in Caches, NEW div
  PROVE  \/ MasterLrclkDiv(k, m, div) = <<>>
         \/ \E d \in RegData : MasterLrclkDiv(k, m, div) = <<CodecOp(k, 10, d)>>
<1> DEFINE x == Shifted(Bits(RatioIndex(div) - 1), 6)
           d == (m[10] \ 6 .. 8) \cup x
<1>1. CASE div \notin Range(LrclkRatios)
  BY <1>1 DEF MasterLrclkDiv
<1>2. CASE div \in Range(LrclkRatios)
  <2>1. m[10] \subseteq 0 .. 8
    BY CacheData DEF CodecRegs
  <2>2. x \subseteq 6 .. 8
    BY <1>2, RatioFacts
  <2>3. MasterLrclkDiv(k, m, div) = <<CodecOp(k, 10, d)>>
    BY <1>2 DEF MasterLrclkDiv, CodecWrite
  <2> HIDE DEF x
  <2>4. x \subseteq 0 .. 8
    BY <2>2
  <2>5. d \subseteq 0 .. 8
    BY <2>1, <2>4
  <2>6. d \in RegData
    BY <2>5 DEF RegData
  <2>7. QED
    BY <2>3, <2>6
<1>3. QED
  BY <1>1, <1>2

(* The polarity is one write of register 3.                                 *)
LEMMA PolarityScript ==
  ASSUME NEW k \in Codecs, NEW m \in Caches, NEW lrclk, NEW bclk
  PROVE  \E d \in RegData : ClkPolarity(k, m, lrclk, bclk) = <<CodecOp(k, 3, d)>>
<1> DEFINE d == (m[3] \ {2, 3}) \cup (IF lrclk THEN {2} ELSE {}) \cup (IF bclk THEN {3} ELSE {})
<1>1. m[3] \subseteq 0 .. 8
  BY CacheData DEF CodecRegs
<1>2. d \in RegData
  BY <1>1 DEF RegData
<1>3. ClkPolarity(k, m, lrclk, bclk) = <<CodecOp(k, 3, d)>>
  BY DEF ClkPolarity, CodecWrite
<1>4. QED
  BY <1>2, <1>3

-----------------------------------------------------------------------------
(* The operations a script may hold.                                        *)

Ats == 1 .. FrameLength
FrameOf(k, a, d, n) == [op |-> "frame", codec |-> k, addr |-> a, data |-> d, at |-> n]
FrameOps == {FrameOf(k, a, d, n) : k \in Codecs, a \in WriteAddrs, d \in RegData, n \in Ats}
Ops(p) == Reaching(p) \cup CodecOps \cup FrameOps

(* The pads of the two codecs.                                              *)
LEMMA PinFacts ==
  /\ Pins(1).mode = 2 /\ Pins(1).cs = 3 /\ Pins(1).clk = 4 /\ Pins(1).dat = 5
  /\ Pins(2).mode = 7 /\ Pins(2).cs = 8 /\ Pins(2).clk = 9 /\ Pins(2).dat = 10
BY DEF Pins

(* They are pads with a level of their own.                                 *)
LEMMA PinsArePads ==
  ASSUME NEW k \in Codecs
  PROVE  /\ Pins(k).mode \in 0 .. 15 /\ Pins(k).cs \in 0 .. 15
         /\ Pins(k).clk \in 0 .. 15 /\ Pins(k).dat \in 0 .. 15
BY PinFacts DEF Codecs

(* A pad put to a level is an access of the drivers.                        *)
LEMMA PadOutIn ==
  ASSUME NEW n \in 0 .. 15, NEW v \in {{}, {0}} PROVE PadOut(n, v) \in PadOuts
BY DEF PadOuts

(* The accesses of a frame, one kind at a time.                             *)
LEMMA FrameFirst ==
  ASSUME NEW k, NEW a, NEW d, NEW n, n = 1 PROVE Frame(k, a, d, n) = PadOut(Pins(k).cs, {})
<1>1. n # FrameLength /\ n \notin 2 .. 50
  BY DEF FrameLength
<1>2. QED
  BY Zenon, <1>1 DEF Frame

(* The select rises in the end.                                             *)
LEMMA FrameLast ==
  ASSUME NEW k, NEW a, NEW d, NEW n, n = FrameLength
  PROVE  Frame(k, a, d, n) = PadOut(Pins(k).cs, {0})
<1>1. n # 1 /\ n \notin 2 .. 50
  BY DEF FrameLength
<1>2. QED
  BY Zenon, <1>1 DEF Frame

(* The clock falls first for each bit.                                      *)
LEMMA FrameFall ==
  ASSUME NEW k, NEW a, NEW d, NEW n \in 2 .. 50, n % 3 = 2
  PROVE  Frame(k, a, d, n) = PadOut(Pins(k).clk, {})
<1>1. n # 1 /\ n # FrameLength /\ n % 3 # 0 /\ n % 3 # 1
  BY DEF FrameLength
<1>2. QED
  BY Zenon, <1>1 DEF Frame

(* Then the data pin follows the bit.                                       *)
LEMMA FrameBit ==
  ASSUME NEW k, NEW a, NEW d, NEW n \in 2 .. 50, n % 3 = 0
  PROVE  Frame(k, a, d, n) = BitOut(k, FrameWord(a, d), n \div 3)
<1>1. n # 1 /\ n # FrameLength /\ n % 3 # 2 /\ n % 3 # 1
  BY DEF FrameLength
<1>2. QED
  BY Zenon, <1>1 DEF Frame

(* Then the clock rises.                                                    *)
LEMMA FrameRise ==
  ASSUME NEW k, NEW a, NEW d, NEW n \in 2 .. 50, n % 3 = 1
  PROVE  Frame(k, a, d, n) = PadOut(Pins(k).clk, {0})
<1>1. n # 1 /\ n # FrameLength /\ n % 3 # 2 /\ n % 3 # 0
  BY DEF FrameLength
<1>2. QED
  BY Zenon, <1>1 DEF Frame

(* Every access of a frame puts out a level on a pad.                       *)
LEMMA FrameIsOut ==
  ASSUME NEW k \in Codecs, NEW a, NEW d, NEW n \in Ats
  PROVE  Frame(k, a, d, n) \in PadOuts
<1>1. n = 1 \/ n = FrameLength
      \/ (n \in 2 .. 50 /\ (n % 3 = 0 \/ n % 3 = 1 \/ n % 3 = 2))
  BY DEF Ats, FrameLength
<1>2. Pins(k).cs \in 0 .. 15 /\ Pins(k).clk \in 0 .. 15 /\ Pins(k).dat \in 0 .. 15
  BY PinsArePads
<1>3. PadOut(Pins(k).cs, {}) \in PadOuts /\ PadOut(Pins(k).cs, {0}) \in PadOuts
      /\ PadOut(Pins(k).clk, {}) \in PadOuts /\ PadOut(Pins(k).clk, {0}) \in PadOuts
  BY <1>2, PadOutIn
<1>4. ASSUME NEW x, NEW i PROVE BitOut(k, x, i) \in PadOuts
  <2>1. BitOut(k, x, i) \in {PadOut(Pins(k).dat, {0}), PadOut(Pins(k).dat, {})}
    BY DEF BitOut
  <2>2. QED
    BY <1>2, <2>1, PadOutIn
<1>5. CASE n = 1
  BY <1>3, <1>5, FrameFirst
<1>6. CASE n = FrameLength
  BY <1>3, <1>6, FrameLast
<1>7. CASE n \in 2 .. 50 /\ n % 3 = 0
  BY <1>4, <1>7, FrameBit
<1>8. CASE n \in 2 .. 50 /\ n % 3 = 1
  BY <1>3, <1>8, FrameRise
<1>9. CASE n \in 2 .. 50 /\ n % 3 = 2
  BY <1>3, <1>9, FrameFall
<1>10. QED
  BY <1>1, <1>5, <1>6, <1>7, <1>8, <1>9

(* Which operation is what: the kinds have different names.                 *)
LEMMA OpKinds ==
  ASSUME NEW p \in DOMAIN Programs
  PROVE  /\ \A op \in Reaching(p) : op.op \notin {"frame", "codec"} /\ AccessOf(op) = op
         /\ \A op \in CodecOps : op.op = "codec" /\ AccessOf(op) = op
         /\ \A op \in FrameOps : op.op = "frame" /\ AccessOf(op) \in PadOuts
<1>1. ASSUME NEW op \in Reaching(p) PROVE op.op \notin {"frame", "codec"} /\ AccessOf(op) = op
  <2>1. CASE op \in PadOuts
    <3>1. op.op = "out"
      BY <2>1, PadFacts
    <3>2. QED
      BY <3>1 DEF AccessOf
  <2>2. CASE op \in Accesses(p)
    <3>1. op.op \in {"set", "put", "load", "fill", "banked", "modify", "out"} \/ op.op \in Silent
      BY <2>2, AccessIsProper, ProperOther
    <3>2. op.op \notin {"frame", "codec"}
      BY <3>1 DEF Silent
    <3>3. QED
      BY <3>2 DEF AccessOf
  <2>3. QED
    BY <2>1, <2>2 DEF Reaching
<1>2. ASSUME NEW op \in CodecOps PROVE op.op = "codec" /\ AccessOf(op) = op
  <2>1. op.op = "codec"
    BY DEF CodecOps, CodecOp
  <2>2. QED
    BY <2>1 DEF AccessOf
<1>3. ASSUME NEW op \in FrameOps PROVE op.op = "frame" /\ AccessOf(op) \in PadOuts
  <2>1. PICK k \in Codecs, a \in WriteAddrs, d \in RegData, n \in Ats : op = FrameOf(k, a, d, n)
    BY DEF FrameOps
  <2>2. op.op = "frame" /\ op.codec = k /\ op.addr = a /\ op.data = d /\ op.at = n
    BY <2>1 DEF FrameOf
  <2>3. AccessOf(op) = Frame(k, a, d, n)
    BY <2>2 DEF AccessOf
  <2>4. QED
    BY <2>2, <2>3, FrameIsOut
<1>4. QED
  BY <1>1, <1>2, <1>3

(* The head of a script: what it reaches, and what is left when it is done. *)
LEMMA HeadFacts ==
  ASSUME NEW p \in DOMAIN Programs, NEW op \in Ops(p)
  PROVE  /\ AccessOf(op) \in Reaching(p) \/ (op \in CodecOps /\ AccessOf(op) = op)
         /\ op.op # "frame" => AccessOf(op) = op
         /\ op.op \notin {"frame", "codec"} => op \in Reaching(p)
         /\ op.op = "codec" => op \in CodecOps
         /\ op.op = "frame" => op \in FrameOps
BY OpKinds DEF Ops, Reaching

(* A frame at its n-th access, from a register write or an earlier access.  *)
LEMMA FrameOpIs ==
  ASSUME NEW k \in Codecs, NEW a \in WriteAddrs, NEW d \in RegData, NEW n \in Ats
  PROVE  /\ FrameOf(k, a, d, n) \in FrameOps
         /\ FrameAt(CodecOp(k, a, d), n) = FrameOf(k, a, d, n)
         /\ \A m : FrameAt(FrameOf(k, a, d, m), n) = FrameOf(k, a, d, n)
<1>1. FrameOf(k, a, d, n) \in FrameOps
  BY DEF FrameOps
<1>2. FrameAt(CodecOp(k, a, d), n) = FrameOf(k, a, d, n)
  BY DEF FrameAt, FrameOf, CodecOp
<1>3. ASSUME NEW m PROVE FrameAt(FrameOf(k, a, d, m), n) = FrameOf(k, a, d, n)
  BY DEF FrameAt, FrameOf
<1>4. QED
  BY <1>1, <1>2, <1>3

(* The next access of a frame that is not at its end.                       *)
LEMMA NextFrame ==
  ASSUME NEW op \in FrameOps, op.at < FrameLength
  PROVE  op.at + 1 \in Ats /\ FrameAt(op, op.at + 1) \in FrameOps
<1>1. PICK k \in Codecs, a \in WriteAddrs, d \in RegData, n \in Ats : op = FrameOf(k, a, d, n)
  BY DEF FrameOps
<1>2. op.at = n /\ op.codec = k /\ op.addr = a /\ op.data = d
  BY <1>1 DEF FrameOf
<1>3. n + 1 \in Ats
  BY <1>2 DEF Ats, FrameLength
<1>4. FrameAt(op, n + 1) = FrameOf(k, a, d, n + 1)
  BY <1>2 DEF FrameAt, FrameOf
<1>5. QED
  BY <1>2, <1>3, <1>4, FrameOpIs

(* Zero has no bit.                                                         *)
LEMMA NoBits == Bits(0) = {}
<1>1. Bits(0) \subseteq 0 .. 6
  BY BitsBelow
<1>2. (0 \div 1) % 2 = 0 /\ (0 \div 2) % 2 = 0 /\ (0 \div 4) % 2 = 0
  OBVIOUS
<1>3. ASSUME NEW i \in Bits(0) PROVE FALSE
  <2>1. i = 0 \/ i = 1 \/ i = 2
    BY <1>1, HighBits
  <2>2. (0 \div 2^i) % 2 = 1
    BY DEF Bits
  <2>3. CASE i = 0
    BY <1>2, <2>2, <2>3, Powers
  <2>4. CASE i = 1
    BY <1>2, <2>2, <2>4, Powers
  <2>5. CASE i = 2
    BY <1>2, <2>2, <2>5, Powers
  <2>6. QED
    BY <2>1, <2>3, <2>4, <2>5
<1>4. QED
  BY <1>3

(* A function on 1 .. n is a sequence.                                      *)
LEMMA FunctionSeq ==
  ASSUME NEW S, NEW n \in Nat, NEW f \in [1 .. n -> S]
  PROVE  f \in Seq(S) /\ Len(f) = n
OBVIOUS

(* What the codec driver's functions do: codec writes, after a pad.         *)
LEMMA CodecScript ==
  ASSUME NEW c, ProperCall(c), c.fun # "access", cache \in [Codecs -> Caches]
  PROVE  Script(c) \in Seq(CodecOps \cup PadOuts)
<1> DEFINE k == c.codec
           m == cache[k]
           S == CodecOps \cup PadOuts
<1>1. k \in Codecs /\ m \in Caches /\ c.fun \in CodecFuns
  BY ProperCodecCall
<1> HIDE DEF k, m
<1>2. ASSUME NEW a \in CodecRegs, NEW d \in RegData PROVE <<CodecOp(k, a, d)>> \in Seq(S)
  <2>1. CodecOp(k, a, d) \in S
    BY <1>1 DEF CodecOps, WriteAddrs
  <2>2. QED
    BY <2>1
<1>3. <<>> \in Seq(S)
  OBVIOUS
<1>14. 3 \in CodecRegs /\ 10 \in CodecRegs
  BY DEF CodecRegs
<1>4. CASE c.fun = "init"
  <2> DEFINE w == [i \in DOMAIN DefaultValues |-> CodecOp(k, i - 1, Bits(DefaultValues[i]))]
  <2>1. ExternalPad(Pins(k).mode, 0) \in Seq(S)
    <3>1. Bits(0) = {}
      BY NoBits
    <3>2. PadOut(Pins(k).mode, {}) \in PadOuts
      BY <1>1, PinsArePads, PadOutIn
    <3>3. QED
      BY <3>1, <3>2 DEF ExternalPad
  <2>2. CodecWrite(k, CodecReset, {}) \in Seq(S)
    <3>1. CodecOp(k, CodecReset, {}) \in S
      <4>1. {} \in RegData
        BY DEF RegData
      <4>2. QED
        BY <1>1, <4>1 DEF CodecOps, WriteAddrs
    <3>2. QED
      BY <3>1 DEF CodecWrite
  <2>3. w \in Seq(S)
    <3>1. DOMAIN w = 1 .. 11
      BY Defaults
    <3>2. ASSUME NEW i \in 1 .. 11 PROVE w[i] \in S
      <4>1. w[i] = CodecOp(k, i - 1, Bits(DefaultValues[i]))
        BY Defaults
      <4>2. Bits(DefaultValues[i]) \in RegData
        BY Defaults DEF RegData
      <4>3. i - 1 \in WriteAddrs
        BY DEF WriteAddrs, CodecRegs
      <4>4. QED
        BY <1>1, <4>1, <4>2, <4>3 DEF CodecOps
    <3>3. w = [i \in 1 .. 11 |-> w[i]]
      BY <3>1
    <3> HIDE DEF w, S
    <3>4. w \in [1 .. 11 -> S]
      BY <3>2, <3>3
    <3>5. QED
      BY <3>4, FunctionSeq
  <2>4. Script(c) = ExternalPad(Pins(k).mode, 0) \o CodecWrite(k, CodecReset, {}) \o w
    BY <1>4, ScriptInit DEF Wm8766Init, k
  <2> HIDE DEF w
  <2>5. QED
    BY <2>1, <2>2, <2>3, <2>4
<1>5. CASE c.fun = "resume"
  <2> DEFINE w == [i \in 1 .. 16 |-> CodecOp(k, i - 1, m[i - 1])]
  <2>1. ASSUME NEW i \in 1 .. 16 PROVE CodecOp(k, i - 1, m[i - 1]) \in S
    <3>1. i - 1 \in CodecRegs
      BY DEF CodecRegs
    <3>2. m[i - 1] \in RegData
      BY <1>1, <3>1, CacheData DEF RegData
    <3>3. QED
      BY <1>1, <3>1, <3>2 DEF CodecOps, WriteAddrs
  <2>2. w \in [1 .. 16 -> S]
    BY <2>1
  <2>3. Script(c) = w
    BY <1>5, ScriptResume DEF Wm8766Resume, k, m
  <2> HIDE DEF w
  <2>4. QED
    BY <2>2, <2>3, FunctionSeq
<1>6. CASE c.fun = "set_volume"
  <2> DEFINE x == Bits(LinearVolToDb(c.l))
             y == Bits(LinearVolToDb(c.r)) \cup {Update}
  <2>1. c.ch \in Channels /\ c.l \in Volumes /\ c.r \in Volumes
    BY <1>6, ProperCodecCall
  <2>2. x \in RegData /\ y \in RegData
    <3>1. Bits(LinearVolToDb(c.l)) \subseteq 0 .. 7 /\ Bits(LinearVolToDb(c.r)) \subseteq 0 .. 7
      BY <2>1, VolumeValues
    <3>2. QED
      BY <3>1 DEF RegData, Update
  <2>3. VolumeRegs[c.ch][1] \in CodecRegs /\ VolumeRegs[c.ch][2] \in CodecRegs
    BY <2>1 DEF VolumeRegs, Channels, CodecRegs
  <2>4. Script(c) = <<CodecOp(k, VolumeRegs[c.ch][1], x)>> \o <<CodecOp(k, VolumeRegs[c.ch][2], y)>>
    BY <1>6, ScriptVolume DEF SetVolume, CodecWrite, k
  <2> HIDE DEF x, y
  <2>5. <<CodecOp(k, VolumeRegs[c.ch][1], x)>> \in Seq(S)
        /\ <<CodecOp(k, VolumeRegs[c.ch][2], y)>> \in Seq(S)
    BY <1>2, <2>2, <2>3
  <2> HIDE DEF S
  <2>6. Script(c) \in Seq(S)
    BY <2>4, <2>5
  <2>7. QED
    BY <2>6 DEF S
<1>7. CASE c.fun = "volume_restore"
  <2>1. Script(c) = <<CodecOp(k, 1, m[1] \cup {Update})>> /\ m[1] \cup {Update} \in RegData
    BY <1>1, <1>7, ScriptRestore, RestoreScript DEF k, m, RegData
  <2>2. QED
    BY <1>2, <2>1 DEF CodecRegs
<1>8. CASE c.fun = "switch"
  <2>1. c.ctl \in DOMAIN Controls
    BY <1>8, ProperCodecCall
  <2>2. PICK a \in {2, 3, 9}, d \in RegData : CtlPut(k, m, c.ctl, c.on) = <<CodecOp(k, a, d)>>
    BY <1>1, <2>1, SwitchScript
  <2>3. Script(c) = <<CodecOp(k, a, d)>> /\ a \in CodecRegs
    BY <1>8, <2>2, ScriptSwitch DEF k, m, CodecRegs
  <2>4. QED
    BY <1>2, <2>3
<1>9. CASE c.fun = "set_if"
  <2>1. PICK d \in RegData : SetIf(k, m, c.dac) = <<CodecOp(k, 3, d)>>
    BY <1>1, IfScript
  <2>2. Script(c) = <<CodecOp(k, 3, d)>>
    BY <1>9, <2>1, ScriptIf DEF k, m
  <2>3. QED
    BY <1>2, <1>14, <2>2
<1>10. CASE c.fun = "set_role"
  <2>1. SetRole(k, m, c.master) = <<>>
        \/ \E d \in RegData : SetRole(k, m, c.master) = <<CodecOp(k, 10, d)>>
    BY <1>1, RoleScript
  <2>2. Script(c) = SetRole(k, m, c.master)
    BY <1>10, ScriptRole DEF k, m
  <2>3. QED
    BY <1>2, <1>3, <1>14, <2>1, <2>2
<1>11. CASE c.fun = "lrclk_div"
  <2>1. MasterLrclkDiv(k, m, c.div) = <<>>
        \/ \E d \in RegData : MasterLrclkDiv(k, m, c.div) = <<CodecOp(k, 10, d)>>
    BY <1>1, DivScript
  <2>2. Script(c) = MasterLrclkDiv(k, m, c.div)
    BY <1>11, ScriptDiv DEF k, m
  <2>3. QED
    BY <1>2, <1>3, <1>14, <2>1, <2>2
<1>12. CASE c.fun = "clk_polarity"
  <2>1. PICK d \in RegData : ClkPolarity(k, m, c.lrclk, c.bclk) = <<CodecOp(k, 3, d)>>
    BY <1>1, PolarityScript
  <2>2. Script(c) = <<CodecOp(k, 3, d)>>
    BY <1>12, <2>1, ScriptPolarity DEF k, m
  <2>3. QED
    BY <1>2, <1>14, <2>2
<1>13. QED
  BY <1>1, <1>4, <1>5, <1>6, <1>7, <1>8, <1>9, <1>10, <1>11, <1>12 DEF CodecFuns

-----------------------------------------------------------------------------
(* The types of the state.                                                  *)

SidePairs == [1 .. 2 -> RegData]
Volumes3 == [Channels -> SidePairs]
Chips == [regs : Caches, applied : Volumes3, held : Volumes3]
Watchers == [bits : Seq(BOOLEAN), chip : Chips]
Words == {None} \cup SUBSET (0 .. 31)
Contexts(p) == [script : Seq(Ops(p)), word : Words]

(* A word is held between the read and the write back of the access at the  *)
(* head of the script.                                                      *)
Holding(s, w) == w = None \/ (w \subseteq 0 .. 31 /\ s # <<>> /\ AccessOf(Head(s)).op \in Modifying)

TypeInv ==
  /\ program \in [of : DOMAIN Programs, started : Nat]
  /\ program.started <= Len(Programs[program.of])
  /\ script \in Seq(Ops(program.of)) /\ word \in Words /\ Holding(script, word)
  /\ interrupted = <<>> \/ \E x \in Contexts(program.of) :
                             interrupted = <<x>> /\ Holding(x.script, x.word)
  /\ interrupts \in 0 .. MaxInterrupts[program.of] /\ connected \in BOOLEAN /\ locked \in BOOLEAN
  /\ (\A r \in DOMAIN regs : regs[r] \subseteq 0 .. 31) /\ initial \subseteq 0 .. 31
  /\ status \in [DOMAIN Lines -> 0 .. 1]
  /\ cache \in [Codecs -> Caches]
  /\ codec \in [Codecs -> Watchers]
  /\ asked \in [Codecs -> {None} \cup Volumes3]

(* The content of a register.                                               *)
Blank(r) ==
  CASE r[1] = "i2s" /\ r[3] = "imr" -> {0, 1, 4, 5}
    [] r[1] = "uart" /\ r[3] = "lcr" -> {}
    [] OTHER -> initial

(* What a register holds, whether it was written or not.                    *)
LEMMA ContentOf ==
  ASSUME NEW r
  PROVE  /\ r \in DOMAIN regs => Content(r) = regs[r]
         /\ r \notin DOMAIN regs => Content(r) = Blank(r)
<1>1. r \in DOMAIN regs => Content(r) = regs[r]
  BY Zenon DEF Content
<1>2. ASSUME r \notin DOMAIN regs PROVE Content(r) = Blank(r)
  <2>1. CASE r[1] = "i2s" /\ r[3] = "imr"
    BY Zenon, <1>2, <2>1 DEF Content, Blank
  <2>2. CASE ~(r[1] = "i2s" /\ r[3] = "imr") /\ r[1] = "uart" /\ r[3] = "lcr"
    BY Zenon, <1>2, <2>2 DEF Content, Blank
  <2>3. CASE ~(r[1] = "i2s" /\ r[3] = "imr") /\ ~(r[1] = "uart" /\ r[3] = "lcr")
    BY Zenon, <1>2, <2>3 DEF Content, Blank
  <2>4. QED
    BY <2>1, <2>2, <2>3
<1>3. QED
  BY <1>1, <1>2

(* A register that was not written holds a word.                            *)
LEMMA BlankWord ==
  ASSUME NEW r, initial \subseteq 0 .. 31 PROVE Blank(r) \subseteq 0 .. 31
<1>1. CASE r[1] = "i2s" /\ r[3] = "imr"
  <2>1. Blank(r) = {0, 1, 4, 5}
    BY Zenon, <1>1 DEF Blank
  <2>2. QED
    BY <2>1
<1>2. CASE ~(r[1] = "i2s" /\ r[3] = "imr") /\ r[1] = "uart" /\ r[3] = "lcr"
  <2>1. Blank(r) = {}
    BY Zenon, <1>2 DEF Blank
  <2>2. QED
    BY <2>1
<1>3. CASE ~(r[1] = "i2s" /\ r[3] = "imr") /\ ~(r[1] = "uart" /\ r[3] = "lcr")
  <2>1. Blank(r) = initial
    BY Zenon, <1>3 DEF Blank
  <2>2. QED
    BY <2>1
<1>4. QED
  BY <1>1, <1>2, <1>3

(* Every register holds a word.                                             *)
LEMMA ContentWord ==
  ASSUME TypeInv, NEW r PROVE Content(r) \subseteq 0 .. 31
<1>1. CASE r \in DOMAIN regs
  BY <1>1, ContentOf DEF TypeInv
<1>2. CASE r \notin DOMAIN regs
  <2>1. initial \subseteq 0 .. 31
    BY DEF TypeInv
  <2>2. Blank(r) \subseteq 0 .. 31
    BY <2>1, BlankWord
  <2>3. QED
    BY <1>2, <2>2, ContentOf
<1>3. QED
  BY <1>1, <1>2

(* And every read of one yields a word.                                     *)
LEMMA SampledWord ==
  ASSUME TypeInv, NEW r, NEW w \in Sampled(r) PROVE w \subseteq 0 .. 31
<1>1. Content(r) \subseteq 0 .. 31
  BY ContentWord
<1>2. CASE r # GpioData
  BY <1>1, <1>2 DEF Sampled
<1>3. CASE r = GpioData
  <2>1. PICK level \in {{}, 0 .. 7} :
          w = (Content(r) \cap Content(GpioDir)) \cup (level \ Content(GpioDir))
    BY <1>3 DEF Sampled
  <2>2. level \subseteq 0 .. 31
    OBVIOUS
  <2>3. QED
    BY <1>1, <2>1, <2>2
<1>4. QED
  BY <1>2, <1>3

(* A step that writes to a register, and one that writes to none.           *)
LEMMA BlankSame ==
  ASSUME NEW r, initial' = initial PROVE Blank(r)' = Blank(r)
BY DEF Blank

(* A step that writes no register changes none.                             *)
LEMMA ContentSame ==
  ASSUME NEW r, initial' = initial, regs' = regs PROVE Content(r)' = Content(r)
BY DEF Content

-----------------------------------------------------------------------------
(* The codecs.                                                              *)

(* The reset register brings back what the codec had at power on.           *)
LEMMA WrittenReset ==
  ASSUME NEW chip, NEW a, NEW v, a = CodecReset PROVE Written(chip, a, v) = PowerOn
<1>1. a \notin CodecRegs
  BY DEF CodecRegs, CodecReset
<1>2. QED
  BY Zenon, <1>1 DEF Written

(* A register of the codec takes the value, a volume waits for its update.  *)
LEMMA WrittenReg ==
  ASSUME NEW chip, NEW a \in CodecRegs, NEW v
  PROVE  Written(chip, a, v) =
           LET held == Held(chip.held, a, v)
               volume == \E ch \in Channels, side \in 1 .. 2 : VolumeRegs[ch][side] = a
           IN [regs |-> [chip.regs EXCEPT ![a] = v], held |-> held,
               applied |-> IF volume /\ Update \in v THEN held ELSE chip.applied]
<1>1. a # CodecReset
  BY DEF CodecRegs, CodecReset
<1>2. QED
  BY Zenon, <1>1 DEF Written

(* Nothing listens at the other addresses.                                  *)
LEMMA WrittenElse ==
  ASSUME NEW chip, NEW a, a \notin WriteAddrs, NEW v PROVE Written(chip, a, v) = chip
<1>1. a # CodecReset /\ a \notin CodecRegs
  BY DEF WriteAddrs
<1>2. QED
  BY Zenon, <1>1 DEF Written

(* A pair is a function on 1 .. 2.                                          *)
LEMMA PairOf ==
  ASSUME NEW S, NEW a \in S, NEW b \in S PROVE <<a, b>> \in [1 .. 2 -> S]
OBVIOUS

(* The codec at power on.                                                   *)
LEMMA PowerOnChip == PowerOn \in Chips
<1>1. <<0 .. 7, 0 .. 7>> \in SidePairs
  <2>1. 0 .. 7 \in RegData
    BY DEF RegData
  <2>2. QED
    BY <2>1, PairOf DEF SidePairs
<1>2. [ch \in Channels |-> <<0 .. 7, 0 .. 7>>] \in Volumes3
  BY <1>1 DEF Volumes3
<1>3. [a \in CodecRegs |-> {}] \in Caches
  BY DEF Caches, RegData
<1>4. QED
  BY <1>2, <1>3 DEF PowerOn, Chips

(* The volumes held back, after a write.                                    *)
LEMMA HeldPairs ==
  ASSUME NEW h \in Volumes3, NEW a, NEW v, v \subseteq 0 .. 8 PROVE Held(h, a, v) \in Volumes3
<1>1. ASSUME NEW ch \in Channels, NEW side \in 1 .. 2
      PROVE  (IF VolumeRegs[ch][side] = a THEN v \ {Update} ELSE h[ch][side]) \in RegData
  BY DEF Volumes3, SidePairs, RegData
<1>2. QED
  BY <1>1 DEF Held, Volumes3, SidePairs

(* A written codec is a codec.                                              *)
LEMMA WrittenChip ==
  ASSUME NEW chip \in Chips, NEW a, NEW v, v \subseteq 0 .. 8 PROVE Written(chip, a, v) \in Chips
<1>1. CASE a = CodecReset
  BY <1>1, WrittenReset, PowerOnChip
<1>2. CASE a \in CodecRegs
  <2> DEFINE held == Held(chip.held, a, v)
             volume == \E ch \in Channels, side \in 1 .. 2 : VolumeRegs[ch][side] = a
             applied == IF volume /\ Update \in v THEN held ELSE chip.applied
             rs == [chip.regs EXCEPT ![a] = v]
  <2>1. chip.regs \in Caches /\ chip.held \in Volumes3 /\ chip.applied \in Volumes3
    BY DEF Chips
  <2>2. held \in Volumes3
    BY <2>1, HeldPairs
  <2>3. rs \in Caches
    BY <1>2, <2>1 DEF Caches, RegData
  <2>4. Written(chip, a, v) = [regs |-> rs, held |-> held, applied |-> applied]
    BY <1>2, WrittenReg
  <2> HIDE DEF rs, held
  <2>5. applied \in Volumes3
    BY <2>1, <2>2
  <2> HIDE DEF applied
  <2>6. QED
    BY <2>2, <2>3, <2>4, <2>5 DEF Chips
<1>3. CASE a \notin WriteAddrs
  BY <1>3, WrittenElse
<1>4. QED
  BY <1>1, <1>2, <1>3 DEF WriteAddrs

(* What a codec sees of a change of the pads.                               *)
Rises(pin, old, new) == pin \notin old /\ pin \in new

(* A rising clock shifts in a bit of a selected codec.                      *)
LEMMA WatchClock ==
  ASSUME NEW c, NEW pins, NEW old, NEW new, Rises(pins.clk, old, new), pins.cs \notin new
  PROVE  Watch(c, pins, old, new) =
           [bits |-> LastSixteen(Append(c.bits, pins.dat \in new)), chip |-> c.chip]
BY Zenon DEF Watch, Rises

(* A rising select makes a write of sixteen bits.                           *)
LEMMA WatchSelect ==
  ASSUME NEW c, NEW pins, NEW old, NEW new, Rises(pins.cs, old, new)
  PROVE  Watch(c, pins, old, new) =
           [bits |-> <<>>,
            chip |-> IF Len(c.bits) < 16 THEN c.chip
                     ELSE Written(c.chip, ShiftedIn(c.bits).addr, ShiftedIn(c.bits).data)]
BY Zenon DEF Watch, Rises

(* No other change of the pads moves a codec.                               *)
LEMMA WatchElse ==
  ASSUME NEW c, NEW pins, NEW old, NEW new, ~Rises(pins.cs, old, new),
         ~(Rises(pins.clk, old, new) /\ pins.cs \notin new)
  PROVE  Watch(c, pins, old, new) = c
BY Zenon DEF Watch, Rises

(* Bits shifted in are bits.                                                *)
LEMMA LastBits ==
  ASSUME NEW s \in Seq(BOOLEAN), NEW b \in BOOLEAN
  PROVE  LastSixteen(Append(s, b)) \in Seq(BOOLEAN)
<1>1. Append(s, b) \in Seq(BOOLEAN) /\ Len(Append(s, b)) = Len(s) + 1 /\ Len(s) \in Nat
  BY AppendProperties, LenProperties
<1>2. Append(s, b) # <<>>
  BY <1>1, LengthOfSeq
<1>3. Tail(Append(s, b)) \in Seq(BOOLEAN)
  BY <1>1, <1>2, HeadTailProperties
<1>4. QED
  BY <1>1, <1>3 DEF LastSixteen

(* What a codec is after any change of the pads.                            *)
LEMMA WatchType ==
  ASSUME NEW c \in Watchers, NEW pins, NEW old, NEW new PROVE Watch(c, pins, old, new) \in Watchers
<1>0. c.bits \in Seq(BOOLEAN) /\ c.chip \in Chips
  BY DEF Watchers
<1>1. CASE Rises(pins.cs, old, new)
  <2>1. ShiftedIn(c.bits).data \subseteq 0 .. 8
    BY DEF ShiftedIn
  <2>2. Written(c.chip, ShiftedIn(c.bits).addr, ShiftedIn(c.bits).data) \in Chips
    BY <1>0, <2>1, WrittenChip
  <2> DEFINE w == IF Len(c.bits) < 16 THEN c.chip
                  ELSE Written(c.chip, ShiftedIn(c.bits).addr, ShiftedIn(c.bits).data)
  <2>3. <<>> \in Seq(BOOLEAN)
    OBVIOUS
  <2>4. w \in Chips
    BY <1>0, <2>2
  <2>5. Watch(c, pins, old, new) = [bits |-> <<>>, chip |-> w]
    BY Zenon, <1>1, WatchSelect
  <2> HIDE DEF w
  <2>6. QED
    BY <2>3, <2>4, <2>5 DEF Watchers
<1>2. CASE Rises(pins.clk, old, new) /\ pins.cs \notin new
  <2> DEFINE b == pins.dat \in new
             s == LastSixteen(Append(c.bits, b))
  <2>1. b \in BOOLEAN
    OBVIOUS
  <2>2. Watch(c, pins, old, new) = [bits |-> s, chip |-> c.chip]
    BY <1>2, WatchClock
  <2> HIDE DEF b
  <2>3. s \in Seq(BOOLEAN)
    BY <1>0, <2>1, LastBits
  <2> HIDE DEF s
  <2>4. QED
    BY <1>0, <2>2, <2>3 DEF Watchers
<1>3. QED
  BY <1>1, <1>2, WatchElse

(* The volumes asked of the codecs by a call.                               *)
LEMMA AskedOf ==
  ASSUME NEW c
  PROVE  /\ c.fun = "init" =>
              Asked(c) = [asked EXCEPT ![c.codec] = [ch \in Channels |-> <<{}, {}>>]]
         /\ c.fun = "set_volume" /\ asked[c.codec] # None =>
              Asked(c) = [asked EXCEPT ![c.codec][c.ch] =
                            <<Bits(LinearVolToDb(c.l)), Bits(LinearVolToDb(c.r))>>]
         /\ c.fun # "init" /\ ~(c.fun = "set_volume" /\ asked[c.codec] # None) => Asked(c) = asked
<1>1. ASSUME c.fun = "init"
      PROVE  Asked(c) = [asked EXCEPT ![c.codec] = [ch \in Channels |-> <<{}, {}>>]]
  BY Zenon, <1>1 DEF Asked
<1>2. ASSUME c.fun = "set_volume" /\ asked[c.codec] # None
      PROVE  Asked(c) = [asked EXCEPT ![c.codec][c.ch] =
                            <<Bits(LinearVolToDb(c.l)), Bits(LinearVolToDb(c.r))>>]
  BY Zenon, <1>2 DEF Asked
<1>3. ASSUME c.fun # "init" /\ ~(c.fun = "set_volume" /\ asked[c.codec] # None)
      PROVE  Asked(c) = asked
  BY Zenon, <1>3 DEF Asked
<1>4. QED
  BY <1>1, <1>2, <1>3

(* A call of the program is a script of its operations.                     *)
LEMMA CallTyped ==
  ASSUME TypeInv, NEW c \in Calls(program.of)
  PROVE  Script(c) \in Seq(Ops(program.of)) /\ Asked(c) \in [Codecs -> {None} \cup Volumes3]
<1> DEFINE p == program.of
<1>1. p \in DOMAIN Programs /\ cache \in [Codecs -> Caches]
      /\ asked \in [Codecs -> {None} \cup Volumes3]
  BY DEF TypeInv
<1>2. ProperCall(c)
  BY <1>1, ProgramAssumption
<1>3. Script(c) \in Seq(Ops(p))
  <2>1. CASE c.fun = "access"
    <3>1. c.script \in Seq(Accesses(p))
      BY <1>1, <2>1, ScriptedAccess
    <3>2. Accesses(p) \subseteq Ops(p)
      BY DEF Ops, Reaching
    <3>3. QED
      BY <2>1, <3>1, <3>2, ScriptAccess
  <2>2. CASE c.fun # "access"
    <3>1. Script(c) \in Seq(CodecOps \cup PadOuts)
      BY <1>1, <1>2, <2>2, CodecScript
    <3>2. CodecOps \cup PadOuts \subseteq Ops(p)
      BY DEF Ops, Reaching
    <3>3. QED
      BY <3>1, <3>2
  <2>3. QED
    BY <2>1, <2>2
<1>4. Asked(c) \in [Codecs -> {None} \cup Volumes3]
  <2>1. CASE c.fun = "init"
    <3>1. c.codec \in Codecs
      BY <1>2, <2>1, ProperCodecCall
    <3>2. <<{}, {}>> \in SidePairs
      <4>1. {} \in RegData
        BY DEF RegData
      <4>2. QED
        BY <4>1, PairOf DEF SidePairs
    <3>3. [ch \in Channels |-> <<{}, {}>>] \in Volumes3
      BY <3>2 DEF Volumes3
    <3> DEFINE z == [ch \in Channels |-> <<{}, {}>>]
    <3>4. Asked(c) = [asked EXCEPT ![c.codec] = z]
      BY <2>1, AskedOf
    <3> HIDE DEF z
    <3>5. QED
      BY <1>1, <3>1, <3>3, <3>4 DEF z
  <2>2. CASE c.fun = "set_volume" /\ asked[c.codec] # None
    <3>1. c.codec \in Codecs /\ c.ch \in Channels /\ c.l \in Volumes /\ c.r \in Volumes
      BY <1>2, <2>2, ProperCodecCall
    <3> DEFINE z == <<Bits(LinearVolToDb(c.l)), Bits(LinearVolToDb(c.r))>>
    <3>2. Bits(LinearVolToDb(c.l)) \in RegData /\ Bits(LinearVolToDb(c.r)) \in RegData
      <4>1. Bits(LinearVolToDb(c.l)) \subseteq 0 .. 7 /\ Bits(LinearVolToDb(c.r)) \subseteq 0 .. 7
        BY <3>1, VolumeValues
      <4>2. QED
        BY <4>1 DEF RegData
    <3>3. z \in SidePairs
      BY <3>2, PairOf DEF SidePairs
    <3>4. Asked(c) = [asked EXCEPT ![c.codec][c.ch] = z]
      BY <2>2, AskedOf
    <3> HIDE DEF z
    <3>5. asked[c.codec] \in Volumes3
      BY <1>1, <2>2, <3>1
    <3>6. [asked[c.codec] EXCEPT ![c.ch] = z] \in Volumes3
      BY <3>1, <3>3, <3>5 DEF Volumes3
    <3>7. QED
      BY <1>1, <3>1, <3>4, <3>6
  <2>3. CASE c.fun # "init" /\ ~(c.fun = "set_volume" /\ asked[c.codec] # None)
    BY <1>1, <2>3, AskedOf
  <2>4. QED
    BY <2>1, <2>2, <2>3
<1>5. QED
  BY <1>3, <1>4

(* What is left of a script, as a script.                                   *)
LEMMA RestTyped ==
  ASSUME TypeInv, script # <<>>
  PROVE  /\ Op \in Ops(program.of) /\ Tail(script) \in Seq(Ops(program.of))
         /\ Rest \in Seq(Ops(program.of))
<1> DEFINE p == program.of
<1>1. p \in DOMAIN Programs /\ script \in Seq(Ops(p))
  BY DEF TypeInv
<1>2. Op \in Ops(p) /\ Tail(script) \in Seq(Ops(p))
  BY <1>1, HeadAndTail DEF Op
<1>3. CASE Op.op = "frame" /\ Op.at < FrameLength
  <2>1. Op \in FrameOps
    BY <1>1, <1>2, <1>3, HeadFacts
  <2>2. FrameAt(Op, Op.at + 1) \in Ops(p)
    BY <1>3, <2>1, NextFrame DEF Ops
  <2>3. QED
    BY <1>1, <1>2, <1>3, <2>2, OtherHead DEF Rest
<1>4. CASE ~(Op.op = "frame" /\ Op.at < FrameLength)
  BY <1>2, <1>4 DEF Rest
<1>5. QED
  BY <1>2, <1>3, <1>4

(* A word stored keeps the types.                                           *)
LEMMA StoreTyped ==
  ASSUME TypeInv, script # <<>>, NEW r, NEW new, new \subseteq 0 .. 31, Store(r, new)
  PROVE  TypeInv'
<1>1. /\ regs' = [q \in DOMAIN regs \cup {r} |-> IF q = r THEN new ELSE regs[q]]
      /\ codec' = IF r # Debug THEN codec
                  ELSE [k \in Codecs |-> Watch(codec[k], Pins(k), Content(Debug), new)]
      /\ script' = Rest /\ word' = None
      /\ UNCHANGED <<inside, outside, cache, asked>>
  BY DEF Store
<1>2. Rest \in Seq(Ops(program.of))
  BY RestTyped
<1>3. \A q \in DOMAIN regs' : regs'[q] \subseteq 0 .. 31
  BY <1>1 DEF TypeInv
<1>4. codec' \in [Codecs -> Watchers]
  <2>1. ASSUME NEW k \in Codecs
        PROVE  Watch(codec[k], Pins(k), Content(Debug), new) \in Watchers
    <3>1. codec[k] \in Watchers
      BY DEF TypeInv
    <3>2. QED
      BY <3>1, WatchType
  <2>2. QED
    BY <1>1, <2>1 DEF TypeInv
<1>5. /\ program' = program /\ interrupted' = interrupted /\ interrupts' = interrupts
      /\ connected' = connected /\ initial' = initial /\ status' = status /\ locked' = locked
      /\ cache' = cache /\ asked' = asked
  BY <1>1 DEF inside, outside
<1>6. word' \in Words /\ Holding(script', word')
  BY <1>1 DEF Words, Holding
<1>7. QED
  BY <1>1, <1>2, <1>3, <1>4, <1>5, <1>6 DEF TypeInv

(* The types hold at first.                                                 *)
LEMMA InitTyped == Init => TypeInv
<1> SUFFICES ASSUME Init PROVE TypeInv
  OBVIOUS
<1>1. PICK p \in DOMAIN Programs : program = [of |-> p, started |-> 0]
  BY DEF Init
<1>2. /\ script = <<>> /\ word = None /\ interrupted = <<>> /\ interrupts = 0
      /\ connected = FALSE /\ regs = [r \in {<<"rst", 0>>, <<"rst", 1>>} |-> {}]
      /\ initial \in {{}, 0 .. 31} /\ status = [l \in DOMAIN Lines |-> Level(l, FALSE)]
      /\ locked = FALSE /\ cache = [k \in Codecs |-> Cleared] /\ codec = [k \in Codecs |-> Fresh]
      /\ asked = [k \in Codecs |-> None]
  BY DEF Init
<1>3. /\ program \in [of : DOMAIN Programs, started : Nat] /\ program.of = p
      /\ program.started <= Len(Programs[program.of])
  <2>1. Programs[p] \in Seq(Range(Programs[p]))
    BY ProgramAssumption
  <2>2. Len(Programs[p]) \in Nat
    BY <2>1, LenProperties
  <2>3. QED
    BY <1>1, <2>2
<1>4. script \in Seq(Ops(program.of)) /\ word \in Words /\ Holding(script, word)
  BY <1>2 DEF Words, Holding
<1>5. interrupts \in 0 .. MaxInterrupts[program.of]
  BY <1>2, <1>3, BoundAssumption
<1>6. (\A r \in DOMAIN regs : regs[r] \subseteq 0 .. 31) /\ initial \subseteq 0 .. 31
  BY <1>2
<1>7. status \in [DOMAIN Lines -> 0 .. 1]
  BY <1>2 DEF Level
<1>8. cache \in [Codecs -> Caches]
  <2>1. Cleared \in Caches
    BY DEF Cleared, Caches, RegData
  <2>2. QED
    BY <1>2, <2>1
<1>9. codec \in [Codecs -> Watchers]
  <2>1. Fresh \in Watchers
    BY PowerOnChip DEF Fresh, Watchers
  <2>2. QED
    BY <1>2, <2>1
<1>10. asked \in [Codecs -> {None} \cup Volumes3]
  BY <1>2
<1>11. QED
  BY <1>2, <1>3, <1>4, <1>5, <1>6, <1>7, <1>8, <1>9, <1>10 DEF TypeInv

(* A call keeps the types.                                                  *)
LEMMA CallKeepsTypes == TypeInv /\ Call => TypeInv'
<1> SUFFICES ASSUME TypeInv, Call PROVE TypeInv'
  OBVIOUS
<1> DEFINE p == program.of
           n == program.started
           c == Programs[p][n + 1]
<1>1. p \in DOMAIN Programs /\ n \in Nat /\ n < Len(Programs[p])
      /\ program' = [program EXCEPT !.started = @ + 1]
  BY DEF Call, TypeInv
<1>2. Programs[p] \in Seq(Range(Programs[p])) /\ Len(Programs[p]) \in Nat
  <2>1. Programs[p] \in Seq(Range(Programs[p]))
    BY <1>1, ProgramAssumption
  <2>2. QED
    BY <2>1, LenProperties
<1>3. program' \in [of : DOMAIN Programs, started : Nat] /\ program'.of = p
      /\ program'.started = n + 1 /\ program'.started <= Len(Programs[program'.of])
  BY <1>1, <1>2 DEF TypeInv
<1>4. c \in Calls(p)
  <2>1. n + 1 \in DOMAIN Programs[p]
    BY <1>1, <1>2
  <2>2. QED
    BY <2>1 DEF Calls, Range
<1>5. script' = Script(c) /\ asked' = Asked(c) /\ word' = None
  BY DEF Call, Run
<1> HIDE DEF c
<1>6. script' \in Seq(Ops(p)) /\ asked' \in [Codecs -> {None} \cup Volumes3]
  BY <1>4, <1>5, CallTyped
<1>7. word' \in Words /\ Holding(script', word')
  BY <1>5 DEF Words, Holding
<1>8. UNCHANGED <<interrupted, interrupts, connected, regs, initial, status, locked, cache, codec>>
  BY DEF Call, outside
<1> HIDE DEF p
<1>9. QED
  BY <1>3, <1>6, <1>7, <1>8 DEF TypeInv, p

(* An interrupt keeps them.                                                 *)
LEMMA InterruptKeepsTypes == TypeInv /\ Interrupt => TypeInv'
<1> SUFFICES ASSUME TypeInv, Interrupt PROVE TypeInv'
  OBVIOUS
<1> DEFINE p == program.of
           x == [script |-> script, word |-> word]
<1>1. PICK c \in HandlerCalls[p] : Run(c)
  BY DEF Interrupt
<1>2. /\ interrupted' = <<x>> /\ interrupts' = interrupts + 1
      /\ interrupts < MaxInterrupts[p]
      /\ UNCHANGED <<program, connected, regs, outside, cache, codec>>
  BY DEF Interrupt
<1>3. c \in Calls(p)
  BY DEF Calls
<1>4. script' \in Seq(Ops(p)) /\ asked' \in [Codecs -> {None} \cup Volumes3] /\ word' = None
  BY <1>1, <1>3, CallTyped DEF Run
<1>5. word' \in Words /\ Holding(script', word')
  BY <1>4 DEF Words, Holding
<1>6. x \in Contexts(p) /\ Holding(x.script, x.word)
  BY DEF TypeInv, Contexts
<1>7. interrupts' \in 0 .. MaxInterrupts[p]
  <2>1. MaxInterrupts[p] \in Nat
    BY BoundAssumption DEF TypeInv
  <2>2. interrupts \in 0 .. MaxInterrupts[p]
    BY DEF TypeInv
  <2>3. QED
    BY <1>2, <2>1, <2>2
<1> HIDE DEF x
<1>8. QED
  BY <1>2, <1>4, <1>5, <1>6, <1>7 DEF TypeInv, outside

(* The return from it keeps them.                                           *)
LEMMA ReturnKeepsTypes == TypeInv /\ Return => TypeInv'
<1> SUFFICES ASSUME TypeInv, Return PROVE TypeInv'
  OBVIOUS
<1>1. PICK x \in Contexts(program.of) : interrupted = <<x>> /\ Holding(x.script, x.word)
  BY DEF TypeInv, Return
<1>2. interrupted[1] = x
  BY <1>1
<1>3. script' = x.script /\ word' = x.word /\ interrupted' = <<>>
      /\ UNCHANGED <<program, interrupts, connected, regs, outside, cache, codec, asked>>
  BY <1>2 DEF Return
<1>4. script' \in Seq(Ops(program.of)) /\ word' \in Words /\ Holding(script', word')
  BY <1>1, <1>3 DEF Contexts
<1>5. QED
  BY <1>3, <1>4 DEF TypeInv, outside

(* Every access keeps them.                                                 *)
LEMMA AccessKeepsTypes ==
  TypeInv /\ (Read \/ WriteBack \/ Write \/ Await \/ WriteCodec \/ Forget \/ Connect) => TypeInv'
<1> SUFFICES ASSUME TypeInv PROVE
      (Read \/ WriteBack \/ Write \/ Await \/ WriteCodec \/ Forget \/ Connect) => TypeInv'
  OBVIOUS
<1> DEFINE p == program.of
<1>0. p \in DOMAIN Programs /\ script \in Seq(Ops(p)) /\ word \in Words /\ Holding(script, word)
  BY DEF TypeInv
<1>1. ASSUME Read PROVE TypeInv'
  <2>1. script # <<>> /\ Now.op \in Modifying /\ word' \in Sampled(Now.field.reg)
        /\ UNCHANGED <<script, inside, regs, outside, cache, codec, asked>>
    BY <1>1 DEF Read
  <2>2. word' \subseteq 0 .. 31
    BY <2>1, SampledWord
  <2>3. word' \in Words /\ Holding(script', word')
    BY <2>1, <2>2 DEF Words, Holding, Now, Op
  <2>4. QED
    BY <2>1, <2>3 DEF TypeInv, inside, outside
<1>2. ASSUME WriteBack PROVE TypeInv'
  <2>1. word # None /\ Store(Now.field.reg, Changed(Now, word))
    BY <1>2 DEF WriteBack
  <2>2. word \subseteq 0 .. 31 /\ script # <<>> /\ Now.op \in Modifying
    BY <1>0, <2>1 DEF Holding, Now, Op
  <2>3. Op \in Ops(p)
    BY <2>2, RestTyped
  <2>4. Now \in Reaching(p)
    <3>1. Now \in Reaching(p) \/ (Op \in CodecOps /\ Now = Op)
      BY <1>0, <2>3, HeadFacts DEF Now
    <3>2. Op \in CodecOps => Op.op \notin Modifying
      BY <1>0, OpKinds DEF Modifying
    <3>3. QED
      BY <2>2, <3>1, <3>2
  <2>5. Changed(Now, word) \subseteq 0 .. 31
    BY <1>0, <2>2, <2>4, ChangedFacts
  <2>6. QED
    BY <2>1, <2>2, <2>5, StoreTyped
<1>3. ASSUME Write PROVE TypeInv'
  <2>1. script # <<>> /\ Op.op \in {"load", "fill", "banked"} /\ Store(Addressed, Op.value)
    BY <1>3 DEF Write
  <2>2. Op \in Reaching(p)
    BY <1>0, <2>1, RestTyped, HeadFacts
  <2>3. Op \in Accesses(p)
    BY <2>1, <2>2, PadFacts DEF Reaching
  <2>4. Op.value \subseteq 0 .. 31
    BY <1>0, <2>1, <2>3, WholeFacts
  <2>5. QED
    BY <2>1, <2>4, StoreTyped
<1>4. ASSUME Await PROVE TypeInv'
  <2>1. script # <<>> /\ script' = Tail(script)
        /\ UNCHANGED <<inside, word, regs, outside, cache, codec, asked>>
        /\ Op.op \in {"wait", "lock", "until", "strobe"}
    BY <1>4 DEF Await
  <2>2. word = None
    <3>1. AccessOf(Op) = Op
      BY <2>1 DEF AccessOf
    <3>2. QED
      BY <1>0, <2>1, <3>1 DEF Holding, Op, Modifying
  <2>3. script' \in Seq(Ops(p)) /\ word' \in Words /\ Holding(script', word')
    BY <2>1, <2>2, RestTyped DEF Words, Holding
  <2>4. QED
    BY <2>1, <2>3 DEF TypeInv, inside, outside
<1>5. ASSUME WriteCodec PROVE TypeInv'
  <2>1. script # <<>> /\ Op.op = "codec" /\ script' = <<FrameAt(Op, 1)>> \o Tail(script)
        /\ UNCHANGED <<inside, word, regs, outside, codec, asked>>
        /\ cache' = IF Op.addr \in CodecRegs THEN [cache EXCEPT ![Op.codec][Op.addr] = Op.data]
                    ELSE cache
    BY <1>5 DEF WriteCodec
  <2>2. Op \in CodecOps
    BY <1>0, <2>1, RestTyped, HeadFacts
  <2>3. PICK k \in Codecs, a \in WriteAddrs, d \in RegData : Op = CodecOp(k, a, d)
    BY <2>2 DEF CodecOps
  <2>4. Op.codec = k /\ Op.addr = a /\ Op.data = d
    BY <2>3 DEF CodecOp
  <2>5. FrameAt(Op, 1) \in Ops(p)
    <3>1. 1 \in Ats
      BY DEF Ats, FrameLength
    <3>2. QED
      BY <2>3, <3>1, FrameOpIs DEF Ops
  <2>6. script' \in Seq(Ops(p))
    BY <1>0, <2>1, <2>5, OtherHead
  <2>7. cache' \in [Codecs -> Caches]
    <3>1. cache \in [Codecs -> Caches]
      BY DEF TypeInv
    <3>2. CASE a \in CodecRegs
      <4>1. cache[k] \in Caches
        BY <3>1
      <4>2. [cache[k] EXCEPT ![a] = d] \in Caches
        BY <3>2, <4>1 DEF Caches
      <4>3. cache' = [cache EXCEPT ![k] = [cache[k] EXCEPT ![a] = d]]
        BY <2>1, <2>4, <3>2, <3>1
      <4>4. QED
        BY <3>1, <4>2, <4>3
    <3>3. CASE a \notin CodecRegs
      BY <2>1, <2>4, <3>1, <3>3
    <3>4. QED
      BY <3>2, <3>3
  <2>8. word = None
    <3>1. AccessOf(Op) = Op
      BY <2>1 DEF AccessOf
    <3>2. QED
      BY <1>0, <2>1, <3>1 DEF Holding, Op, Modifying
  <2>9. word' \in Words /\ Holding(script', word')
    BY <2>1, <2>8 DEF Words, Holding
  <2>10. QED
    BY <2>1, <2>6, <2>7, <2>9 DEF TypeInv, inside, outside
<1>6. ASSUME Forget PROVE TypeInv'
  <2>1. script # <<>> /\ Op.op = "forget" /\ script' = Tail(script)
        /\ cache' = [cache EXCEPT ![Op.codec] = Cleared]
        /\ asked' = [asked EXCEPT ![Op.codec] = None]
        /\ UNCHANGED <<inside, word, regs, outside, codec>>
    BY <1>6 DEF Forget
  <2>2. word = None
    <3>1. AccessOf(Op) = Op
      BY <2>1 DEF AccessOf
    <3>2. QED
      BY <1>0, <2>1, <3>1 DEF Holding, Op, Modifying
  <2>3. script' \in Seq(Ops(p)) /\ word' \in Words /\ Holding(script', word')
    BY <2>1, <2>2, RestTyped DEF Words, Holding
  <2>4. Cleared \in Caches
    BY DEF Cleared, Caches, RegData
  <2>5. cache' \in [Codecs -> Caches] /\ asked' \in [Codecs -> {None} \cup Volumes3]
    BY <2>1, <2>4 DEF TypeInv
  <2>6. QED
    BY <2>1, <2>3, <2>5 DEF TypeInv, inside, outside
<1>7. ASSUME Connect PROVE TypeInv'
  <2>1. script # <<>> /\ Op.op = "connect" /\ connected' = Op.value /\ script' = Tail(script)
        /\ UNCHANGED <<program, interrupted, interrupts, word, regs, outside, cache, codec, asked>>
    BY <1>7 DEF Connect
  <2>2. word = None
    <3>1. AccessOf(Op) = Op
      BY <2>1 DEF AccessOf
    <3>2. QED
      BY <1>0, <2>1, <3>1 DEF Holding, Op, Modifying
  <2>3. script' \in Seq(Ops(p)) /\ word' \in Words /\ Holding(script', word')
    BY <2>1, <2>2, RestTyped DEF Words, Holding
  <2>4. connected' \in BOOLEAN
    <3>1. Op \in Reaching(p)
      BY <1>0, <2>1, RestTyped, HeadFacts
    <3>2. Op \in Accesses(p)
      BY <2>1, <3>1, PadFacts DEF Reaching
    <3>3. QED
      BY <1>0, <2>1, <3>2, AccessIsProper, ProperConnect
  <2>5. QED
    BY <2>1, <2>3, <2>4 DEF TypeInv, outside
<1>8. QED
  BY <1>1, <1>2, <1>3, <1>4, <1>5, <1>6, <1>7

(* The reset lines, the PLL and a stutter keep them.                        *)
LEMMA OutsideKeepsTypes == TypeInv /\ (Settle \/ Lock \/ UNCHANGED vars) => TypeInv'
<1> SUFFICES ASSUME TypeInv PROVE (Settle \/ Lock \/ UNCHANGED vars) => TypeInv'
  OBVIOUS
<1>1. ASSUME Settle PROVE TypeInv'
  <2>1. PICK l \in DOMAIN Lines : status' = [status EXCEPT ![l] = Level(l, InReset(l))]
    BY <1>1 DEF Settle
  <2>2. status' \in [DOMAIN Lines -> 0 .. 1]
    BY <2>1 DEF TypeInv, Level
  <2>3. UNCHANGED <<inside, script, word, regs, initial, locked, cache, codec, asked>>
    BY <1>1 DEF Settle
  <2>4. QED
    BY <2>2, <2>3 DEF TypeInv, inside
<1>2. ASSUME Lock PROVE TypeInv'
  BY <1>2 DEF Lock, TypeInv, inside
<1>3. ASSUME UNCHANGED vars PROVE TypeInv'
  BY <1>3 DEF TypeInv, vars
<1>4. QED
  BY <1>1, <1>2, <1>3

(* So does every step.                                                      *)
LEMMA TypeStep == TypeInv /\ [Next]_vars => TypeInv'
BY CallKeepsTypes, InterruptKeepsTypes, ReturnKeepsTypes, AccessKeepsTypes, OutsideKeepsTypes
   DEF Next, Access

(* The types of the whole state hold always.                                *)
LEMMA TypeHolds == Spec => []TypeInv
BY InitTyped, TypeStep, PTL DEF Spec

(* They imply those the run checks.                                         *)
LEMMA TypesFollow == TypeInv => TypeOK
<1> SUFFICES ASSUME TypeInv PROVE TypeOK
  OBVIOUS
<1>1. program.started \in 0 .. Len(Programs[program.of])
  <2>1. Programs[program.of] \in Seq(Range(Programs[program.of]))
    BY ProgramAssumption DEF TypeInv
  <2>2. Len(Programs[program.of]) \in Nat
    BY <2>1, LenProperties
  <2>3. QED
    BY <2>2 DEF TypeInv
<1>2. word \in {None} \cup SUBSET (0 .. 31) /\ (word # None => script # <<>>)
  BY DEF TypeInv, Words, Holding
<1>3. ASSUME NEW k \in Codecs, NEW a \in CodecRegs
      PROVE  cache[k][a] \subseteq 0 .. 8 /\ codec[k].chip.regs[a] \subseteq 0 .. 8
  <2>1. cache[k] \in Caches /\ codec[k].chip.regs \in Caches
    BY DEF TypeInv, Watchers, Chips
  <2>2. QED
    BY <2>1, CacheData
<1>4. QED
  BY <1>1, <1>2, <1>3 DEF TypeInv, TypeOK

(* The type invariant of the run: words stay within 32 bits, cached and     *)
(* shifted registers within 9, and a word is only held by a script that is  *)
(* going on, for every program, whatever interrupts it.                     *)
THEOREM TypesHold == Spec => []TypeOK
BY TypeHolds, TypesFollow, PTL

-----------------------------------------------------------------------------
(* What the accesses of a script need, and who provides it: H are the needs *)
(* that are met before the script goes on.                                  *)

AllNeeds(p) == AtRest(p) \cup UNION {Needs(op) : op \in Accesses(p)}
Met(s, i, need, H) == LastPut(s, i, need[1], need[2]) \/ (Unput(s, i, need[1]) /\ need \in H)
Prepped(p, s, H) == \A i \in 1 .. Len(s) + 1 : \A need \in NeedsAt(p, s, i) : Met(s, i, need, H)
Harmless(p, s) ==
  \A i \in 1 .. Len(s) : Needs(s[i]) = {} /\ DOMAIN Puts(s[i]) \cap NeedFields(p) = {}

(* Register writes and frames of a codec need nothing, and nothing that is  *)
(* needed is put by them.                                                   *)
LEMMA QuietOps ==
  /\ \A op \in CodecOps \cup FrameOps : Needs(op) = {} /\ DOMAIN Puts(op) = {}
  /\ \A op \in PadOuts : Needs(op) = {}
  /\ \A op \in PadOuts : \A p \in DOMAIN Programs : DOMAIN Puts(op) \cap NeedFields(p) = {}
<1>1. ASSUME NEW op \in CodecOps \cup FrameOps PROVE Needs(op) = {} /\ DOMAIN Puts(op) = {}
  <2>1. op.op \in {"codec", "frame"}
    BY DEF CodecOps, FrameOps, CodecOp, FrameOf
  <2>2. DOMAIN Puts(op) = {}
    BY <2>1, PutsNothing
  <2>3. QED
    BY <2>1, <2>2, NeedsNothing
<1>2. ASSUME NEW op \in PadOuts PROVE Needs(op) = {}
  <2>1. op.op = "out"
    BY PadFacts
  <2>2. QED
    BY <2>1, NeedsNothing
<1>3. ASSUME NEW op \in PadOuts, NEW p \in DOMAIN Programs
      PROVE  DOMAIN Puts(op) \cap NeedFields(p) = {}
  <2>1. \A f \in DOMAIN Puts(op) : f.reg = Debug
    BY PutsFacts, PadFacts DEF Reaching
  <2>2. \A f \in NeedFields(p) : f.reg # Debug
    BY NeedsFacts
  <2>3. QED
    BY <2>1, <2>2
<1>4. QED
  BY <1>1, <1>2, <1>3

(* What a script needs is one of the needs of the program.                  *)
LEMMA NeedsKnown ==
  ASSUME NEW p \in DOMAIN Programs, NEW s \in Seq(Ops(p)), NEW i \in 1 .. Len(s) + 1,
         NEW need \in NeedsAt(p, s, i)
  PROVE  need \in AllNeeds(p)
<1>0. Len(s) \in Nat
  BY LenProperties
<1>1. CASE i > Len(s)
  BY <1>1 DEF NeedsAt, AllNeeds
<1>2. CASE ~(i > Len(s))
  <2>1. need \in Needs(s[i]) /\ s[i] \in Ops(p)
    BY <1>0, <1>2 DEF NeedsAt
  <2>2. s[i] \in Accesses(p)
    BY <2>1, QuietOps DEF Ops, Reaching
  <2>3. QED
    BY <2>1, <2>2 DEF AllNeeds
<1>3. QED
  BY <1>1, <1>2

(* A need is about a field that is needed.                                  *)
LEMMA NeedIsField ==
  ASSUME NEW p \in DOMAIN Programs, NEW need \in AllNeeds(p) PROVE need[1] \in NeedFields(p)
BY NeedsFacts DEF AllNeeds

(* The access at the head has what it needs, and in the end all is at rest. *)
LEMMA MetNow ==
  ASSUME NEW p, NEW S, NEW s \in Seq(S), NEW H, Prepped(p, s, H)
  PROVE  (s # <<>> => Needs(Head(s)) \subseteq H) /\ (s = <<>> => AtRest(p) \subseteq H)
<1>0. Len(s) \in Nat
  BY LenProperties
<1>1. \A need \in NeedsAt(p, s, 1) : need \in H
  BY <1>0 DEF Prepped, Met, LastPut
<1>2. ASSUME s # <<>> PROVE Needs(Head(s)) \subseteq H
  <2>1. Head(s) = s[1] /\ ~(1 > Len(s))
    BY <1>0, <1>2, HeadAndTail
  <2>2. QED
    BY <1>1, <2>1 DEF NeedsAt
<1>3. ASSUME s = <<>> PROVE AtRest(p) \subseteq H
  <2>1. 1 > Len(s)
    BY <1>3
  <2>2. QED
    BY <1>1, <2>1 DEF NeedsAt
<1>4. QED
  BY <1>2, <1>3

(* More needs may be met than before.                                       *)
LEMMA MetMore ==
  ASSUME NEW p \in DOMAIN Programs, NEW s \in Seq(Ops(p)), NEW H, NEW G, Prepped(p, s, H),
         \A need \in AllNeeds(p) : need \in H => need \in G
  PROVE  Prepped(p, s, G)
<1> SUFFICES ASSUME NEW i \in 1 .. Len(s) + 1, NEW need \in NeedsAt(p, s, i)
              PROVE  Met(s, i, need, G)
  BY DEF Prepped
<1>1. Met(s, i, need, H)
  BY DEF Prepped
<1>2. need \in AllNeeds(p)
  BY NeedsKnown
<1>3. QED
  BY <1>1, <1>2 DEF Met

(* The access at the head is done.                                          *)
LEMMA MetStep ==
  ASSUME NEW p \in DOMAIN Programs, NEW s \in Seq(Ops(p)), s # <<>>, NEW H, NEW G,
         Prepped(p, s, H),
         \A need \in AllNeeds(p) :
           \/ need[1] \in DOMAIN Puts(Head(s)) /\ Puts(Head(s))[need[1]] = need[2]
           \/ need[1] \notin DOMAIN Puts(Head(s)) /\ need \in H
           => need \in G
  PROVE  Prepped(p, Tail(s), G)
<1> DEFINE t == Tail(s)
<1>1. /\ Len(s) \in Nat /\ Len(s) >= 1 /\ Head(s) = s[1] /\ t \in Seq(Ops(p))
      /\ Len(t) = Len(s) - 1 /\ \A i \in 1 .. Len(s) - 1 : t[i] = s[i + 1]
  BY HeadAndTail
<1> HIDE DEF t
<1> SUFFICES ASSUME NEW i \in 1 .. Len(t) + 1, NEW need \in NeedsAt(p, t, i)
              PROVE  Met(t, i, need, G)
  BY DEF Prepped, t
<1> DEFINE f == need[1]
           v == need[2]
<1>2. i \in Nat /\ i + 1 \in 1 .. Len(s) + 1 /\ (i + 1) - 1 = i
  BY <1>1
<1>3. need \in NeedsAt(p, s, i + 1)
  <2>1. CASE i > Len(t)
    <3>1. i + 1 > Len(s)
      BY <1>1, <1>2, <2>1
    <3>2. QED
      BY <2>1, <3>1 DEF NeedsAt
  <2>2. CASE ~(i > Len(t))
    <3>1. ~(i + 1 > Len(s)) /\ t[i] = s[i + 1]
      BY <1>1, <1>2, <2>2
    <3>2. QED
      BY <2>2, <3>1 DEF NeedsAt
  <2>3. QED
    BY <2>1, <2>2
<1>4. need \in AllNeeds(p)
  BY <1>2, <1>3, NeedsKnown
<1>5. Met(s, i + 1, need, H)
  BY <1>2, <1>3 DEF Prepped
<1>6. \A m \in 1 .. i - 1 : t[m] = s[m + 1]
  BY <1>1
<1>7. CASE LastPut(s, i + 1, f, v)
  <2>1. PICK j \in 1 .. (i + 1) - 1 :
          /\ f \in DOMAIN Puts(s[j]) /\ Puts(s[j])[f] = v
          /\ \A m \in j + 1 .. (i + 1) - 1 : f \notin DOMAIN Puts(s[m])
    BY <1>7 DEF LastPut
  <2>2. j \in 1 .. i /\ \A m \in j + 1 .. i : f \notin DOMAIN Puts(s[m])
    BY <1>2, <2>1
  <2>3. CASE j = 1
    <3>1. need \in G
      BY <1>1, <1>4, <2>1, <2>3
    <3>2. ASSUME NEW m \in 1 .. i - 1 PROVE f \notin DOMAIN Puts(t[m])
      <4>1. m + 1 \in j + 1 .. i /\ t[m] = s[m + 1]
        BY <1>6, <2>3
      <4>2. QED
        BY <2>2, <4>1
    <3>3. Unput(t, i, f)
      BY <3>2 DEF Unput
    <3>4. QED
      BY <3>1, <3>3 DEF Met
  <2>4. CASE j # 1
    <3>1. j - 1 \in 1 .. i - 1 /\ t[j - 1] = s[(j - 1) + 1] /\ (j - 1) + 1 = j
      BY <1>6, <2>2, <2>4
    <3>2. ASSUME NEW m \in (j - 1) + 1 .. i - 1 PROVE f \notin DOMAIN Puts(t[m])
      <4>1. m \in 1 .. i - 1 /\ m + 1 \in j + 1 .. i
        BY <2>2, <2>4, <3>2
      <4>2. t[m] = s[m + 1]
        BY <1>6, <4>1
      <4>3. QED
        BY <2>2, <4>1, <4>2
    <3>3. f \in DOMAIN Puts(t[j - 1]) /\ Puts(t[j - 1])[f] = v
      BY <2>1, <3>1
    <3>4. LastPut(t, i, f, v)
      BY <3>1, <3>2, <3>3 DEF LastPut
    <3>5. QED
      BY <3>4 DEF Met
  <2>5. QED
    BY <2>3, <2>4
<1>8. CASE Unput(s, i + 1, f) /\ need \in H
  <2>1. \A m \in 1 .. i : f \notin DOMAIN Puts(s[m])
    BY <1>2, <1>8 DEF Unput
  <2>2. ASSUME NEW m \in 1 .. i - 1 PROVE f \notin DOMAIN Puts(t[m])
    <3>1. m + 1 \in 1 .. i /\ t[m] = s[m + 1]
      BY <1>6
    <3>2. QED
      BY <2>1, <3>1
  <2>3. Unput(t, i, f)
    BY <2>2 DEF Unput
  <2>4. f \notin DOMAIN Puts(Head(s))
    <3>1. 1 \in 1 .. i
      BY <1>2
    <3>2. QED
      BY <1>1, <2>1, <3>1
  <2>5. need \in G
    BY <1>4, <1>8, <2>4
  <2>6. QED
    BY <2>3, <2>5 DEF Met
<1>9. QED
  BY <1>5, <1>7, <1>8 DEF Met

(* The operation at the head becomes another one that puts nothing.         *)
LEMMA MetHead ==
  ASSUME NEW p \in DOMAIN Programs, NEW s \in Seq(Ops(p)), s # <<>>, NEW H, NEW x \in Ops(p),
         Prepped(p, s, H), DOMAIN Puts(Head(s)) = {}, DOMAIN Puts(x) = {}, Needs(x) = {}
  PROVE  Prepped(p, <<x>> \o Tail(s), H)
<1> DEFINE t == <<x>> \o Tail(s)
<1>1. /\ Len(s) \in Nat /\ Len(s) >= 1 /\ Head(s) = s[1]
  BY HeadAndTail
<1>2. Len(t) = Len(s) /\ t[1] = x /\ \A i \in 2 .. Len(s) : t[i] = s[i]
  BY OtherHead
<1> HIDE DEF t
<1> SUFFICES ASSUME NEW i \in 1 .. Len(t) + 1, NEW need \in NeedsAt(p, t, i)
              PROVE  Met(t, i, need, H)
  BY DEF Prepped, t
<1> DEFINE f == need[1]
           v == need[2]
<1>3. i # 1
  <2>1. ASSUME i = 1 PROVE FALSE
    <3>1. ~(1 > Len(t))
      BY <1>1, <1>2
    <3>2. NeedsAt(p, t, 1) = {}
      BY <1>2, <3>1 DEF NeedsAt
    <3>3. QED
      BY <2>1, <3>2
  <2>2. QED
    BY <2>1
<1>4. i \in 2 .. Len(s) + 1
  BY <1>2, <1>3
<1>5. need \in NeedsAt(p, s, i)
  <2>1. CASE i > Len(t)
    BY <1>2, <2>1 DEF NeedsAt
  <2>2. CASE ~(i > Len(t))
    <3>1. t[i] = s[i]
      BY <1>1, <1>2, <1>4, <2>2
    <3>2. QED
      BY <1>2, <2>2, <3>1 DEF NeedsAt
  <2>3. QED
    BY <2>1, <2>2
<1>6. Met(s, i, need, H)
  BY <1>2, <1>5 DEF Prepped
<1>7. \A m \in 2 .. i - 1 : t[m] = s[m]
  BY <1>1, <1>2, <1>4
<1>8. DOMAIN Puts(t[1]) = {} /\ DOMAIN Puts(s[1]) = {}
  BY <1>1, <1>2
<1>9. CASE LastPut(s, i, f, v)
  <2>1. PICK j \in 1 .. i - 1 :
          /\ f \in DOMAIN Puts(s[j]) /\ Puts(s[j])[f] = v
          /\ \A m \in j + 1 .. i - 1 : f \notin DOMAIN Puts(s[m])
    BY <1>9 DEF LastPut
  <2>2. j # 1
    BY <1>8, <2>1
  <2>3. t[j] = s[j]
    BY <1>7, <2>2
  <2>4. ASSUME NEW m \in j + 1 .. i - 1 PROVE f \notin DOMAIN Puts(t[m])
    <3>1. m \in 2 .. i - 1
      BY <1>4
    <3>2. QED
      BY <1>7, <2>1, <3>1
  <2>5. LastPut(t, i, f, v)
    BY <2>1, <2>3, <2>4 DEF LastPut
  <2>6. QED
    BY <2>5 DEF Met
<1>10. CASE Unput(s, i, f) /\ need \in H
  <2>1. ASSUME NEW m \in 1 .. i - 1 PROVE f \notin DOMAIN Puts(t[m])
    <3>1. CASE m = 1
      BY <1>8, <3>1
    <3>2. CASE m # 1
      <4>1. m \in 2 .. i - 1
        BY <1>4, <3>2
      <4>2. QED
        BY <1>7, <1>10, <4>1 DEF Unput
    <3>3. QED
      BY <3>1, <3>2
  <2>2. QED
    BY <1>10, <2>1 DEF Met, Unput
<1>11. QED
  BY <1>6, <1>9, <1>10 DEF Met

(* A script that does no harm goes on doing none.                           *)
LEMMA HarmlessStep ==
  ASSUME NEW p \in DOMAIN Programs, NEW s \in Seq(Ops(p)), s # <<>>, Harmless(p, s),
         NEW x \in Ops(p), Needs(x) = {}, DOMAIN Puts(x) = {}
  PROVE  /\ Harmless(p, Tail(s)) /\ Harmless(p, <<x>> \o Tail(s))
         /\ Needs(Head(s)) = {} /\ DOMAIN Puts(Head(s)) \cap NeedFields(p) = {}
<1>1. /\ Len(s) \in Nat /\ Len(s) >= 1 /\ Head(s) = s[1] /\ Len(Tail(s)) = Len(s) - 1
      /\ \A i \in 1 .. Len(s) - 1 : Tail(s)[i] = s[i + 1]
  BY HeadAndTail
<1> DEFINE t == <<x>> \o Tail(s)
<1>2. Len(t) = Len(s) /\ t[1] = x /\ \A i \in 2 .. Len(s) : t[i] = s[i]
  BY OtherHead
<1> HIDE DEF t
<1>3. ASSUME NEW i \in 1 .. Len(Tail(s))
      PROVE  Needs(Tail(s)[i]) = {} /\ DOMAIN Puts(Tail(s)[i]) \cap NeedFields(p) = {}
  <2>1. i \in 1 .. Len(s) - 1 /\ i + 1 \in 1 .. Len(s)
    BY <1>1
  <2>2. QED
    BY <1>1, <2>1 DEF Harmless
<1>4. ASSUME NEW i \in 1 .. Len(t)
      PROVE  Needs(t[i]) = {} /\ DOMAIN Puts(t[i]) \cap NeedFields(p) = {}
  <2>1. CASE i = 1
    BY <1>2, <2>1
  <2>2. CASE i # 1
    <3>1. i \in 2 .. Len(s) /\ i \in 1 .. Len(s)
      BY <1>1, <1>2, <2>2
    <3>2. QED
      BY <1>2, <3>1 DEF Harmless
  <2>3. QED
    BY <2>1, <2>2
<1>5. 1 \in 1 .. Len(s)
  BY <1>1
<1>6. QED
  BY <1>1, <1>3, <1>4, <1>5 DEF Harmless, t

(* The scripts that are run: those of the program and the codec driver's.   *)
LEMMA CodecHarmless ==
  ASSUME NEW p \in DOMAIN Programs, NEW s \in Seq(CodecOps \cup PadOuts)
  PROVE  Harmless(p, s)
<1>1. ASSUME NEW i \in 1 .. Len(s)
      PROVE  Needs(s[i]) = {} /\ DOMAIN Puts(s[i]) \cap NeedFields(p) = {}
  <2>1. s[i] \in CodecOps \cup PadOuts
    OBVIOUS
  <2>2. QED
    BY <2>1, QuietOps
<1>2. QED
  BY <1>1 DEF Harmless

(* A script that does no harm needs that all is at rest, and leaves it so.  *)
LEMMA HarmlessPrepped ==
  ASSUME NEW p \in DOMAIN Programs, NEW s \in Seq(Ops(p)), Harmless(p, s), NEW H,
         AtRest(p) \subseteq H
  PROVE  Prepped(p, s, H)
<1>0. Len(s) \in Nat
  BY LenProperties
<1> SUFFICES ASSUME NEW i \in 1 .. Len(s) + 1, NEW need \in NeedsAt(p, s, i)
              PROVE  Met(s, i, need, H)
  BY DEF Prepped
<1>1. i > Len(s)
  <2>1. ASSUME ~(i > Len(s)) PROVE FALSE
    <3>1. i \in 1 .. Len(s) /\ need \in Needs(s[i])
      BY <1>0, <2>1 DEF NeedsAt
    <3>2. QED
      BY <3>1 DEF Harmless
  <2>2. QED
    BY <2>1
<1>2. need \in AtRest(p)
  BY <1>1 DEF NeedsAt
<1>3. need[1] \in NeedFields(p)
  BY <1>2, NeedsFacts
<1>4. ASSUME NEW j \in 1 .. i - 1 PROVE need[1] \notin DOMAIN Puts(s[j])
  <2>1. j \in 1 .. Len(s)
    BY <1>0, <1>1
  <2>2. QED
    BY <1>3, <2>1 DEF Harmless
<1>5. QED
  BY <1>2, <1>4 DEF Met, Unput

(* A prepared script needs no more than that either.                        *)
LEMMA PreparedPrepped ==
  ASSUME NEW p \in DOMAIN Programs, NEW s, Prepared(p, s), NEW H, AtRest(p) \subseteq H
  PROVE  Prepped(p, s, H)
BY DEF Prepared, Prepped, Met

-----------------------------------------------------------------------------
(* The fields, step by step.                                                *)

(* The needs that are met now; a word that was read and is still as good as *)
(* the register, but for the fields that are going to be put; pins that are *)
(* known to hold their level are outputs.                                   *)
HoldNow(p) == {need \in AllNeeds(p) : Extract(Content(need[1].reg), need[1]) = need[2]}
FreshWord(p, s, w) ==
  w # None =>
    LET held == AccessOf(Head(s))
    IN  \A f \in FieldsOf(p) :
          f.reg = held.field.reg /\ f \notin DOMAIN Puts(held)
            /\ (f.reg = GpioData => f \in DOMAIN set)
          => Extract(w, f) = Extract(Content(f.reg), f)
Driven == \A f \in DOMAIN set : f.reg = GpioData => f.lo \in Content(GpioDir)
FieldInv(p) ==
  /\ program.of = p
  /\ DOMAIN set \subseteq FieldsOf(p) /\ FieldsIntact /\ Driven
  /\ FreshWord(p, script, word)
  /\ interrupted = <<>> => Prepped(p, script, HoldNow(p))
  /\ interrupted # <<>> =>
       /\ FreshWord(p, interrupted[1].script, interrupted[1].word)
       /\ Prepped(p, interrupted[1].script, HoldNow(p)) /\ Harmless(p, script)

(* What the access at the head needs is there.                              *)
LEMMA NeedsMet ==
  ASSUME NEW p \in DOMAIN Programs, TypeInv, FieldInv(p), script # <<>>
  PROVE  Needs(Op) \subseteq HoldNow(p) /\ (interrupted # <<>> => Needs(Op) = {})
<1>1. script \in Seq(Ops(p))
  BY DEF TypeInv, FieldInv
<1>2. CASE interrupted = <<>>
  BY <1>1, <1>2, MetNow DEF FieldInv, Op
<1>3. CASE interrupted # <<>>
  <2>1. Len(script) \in Nat /\ Len(script) >= 1 /\ Op = script[1]
    BY <1>1, HeadAndTail DEF Op
  <2>2. 1 \in 1 .. Len(script)
    BY <2>1
  <2>3. Needs(Op) = {}
    BY <1>3, <2>1, <2>2 DEF FieldInv, Harmless
  <2>4. QED
    BY <2>3
<1>4. QED
  BY <1>2, <1>3

(* A register of a UART that is there twice: the latch says which is meant. *)
LEMMA BankedRight ==
  ASSUME NEW p \in DOMAIN Programs, TypeInv, FieldInv(p), script # <<>>, Op \in Accesses(p)
  PROVE  Addressed = Op.field.reg
<1>1. CASE Op.op # "banked"
  BY <1>1 DEF Addressed
<1>2. CASE Op.op = "banked"
  <2> DEFINE port == Op.field.reg[2]
             b == Op.latched
             f == Latch(port)
  <2>1. b \in BOOLEAN
    BY <1>2, AccessIsProper, ProperBanked
  <2>2. Needs(Op) = {<<f, Flag(0, b)>>}
    BY <1>2, NeedsLatch
  <2>3. <<f, Flag(0, b)>> \in HoldNow(p)
    BY <2>2, NeedsMet
  <2> HIDE DEF b, f
  <2>4. Extract(Content(f.reg), f) = Flag(0, b)
    BY <2>3 DEF HoldNow
  <2>5. f.reg = Lcr(port) /\ f.lo = LatchBit /\ f.width = 1
    BY DEF f, Latch, Field
  <2>6. LatchBit \in Nat
    BY DEF LatchBit
  <2> DEFINE w == Content(f.reg)
  <2>7. w \subseteq 0 .. 31
    BY ContentWord
  <2> HIDE DEF w
  <2>13. w \subseteq Nat
    BY <2>7
  <2>8. (f.lo \in w => Extract(w, f) = {0}) /\ (f.lo \notin w => Extract(w, f) = {})
    BY <2>5, <2>6, <2>13, OneBitReads
  <2>9. (b = TRUE => Flag(0, b) = {0}) /\ (b = FALSE => Flag(0, b) = {})
    BY Zenon DEF Flag
  <2>10. LatchBit \in Content(Lcr(port)) <=> b
    BY <2>1, <2>4, <2>5, <2>8, <2>9 DEF w
  <2>11. ~((LatchBit \in Content(Lcr(port))) # b)
    BY Zenon, <2>1, <2>10
  <2>12. QED
    BY Zenon, <2>11 DEF Addressed, b
<1>3. QED
  BY <1>1, <1>2

(* The effect of a write: what it puts is there, the rest is left alone.    *)
Stores(p, r, new) ==
  /\ Store(r, new) /\ Now.field.reg = r /\ Now \in Reaching(p) /\ script # <<>>
  /\ new \subseteq 0 .. 31
  /\ \A f \in DOMAIN Puts(Now) : Extract(new, f) = Puts(Now)[f]
  /\ \A g \in FieldsOf(p) :
       g.reg = r /\ g \notin DOMAIN Puts(Now) /\ (r = GpioData => g \in DOMAIN set) =>
         Extract(new, g) = Extract(Content(r), g)

(* A word written back has that effect, since it was read.                  *)
LEMMA WriteBackStores ==
  ASSUME NEW p \in DOMAIN Programs, TypeInv, FieldInv(p), WriteBack
  PROVE  \E r, new : Stores(p, r, new)
<1> DEFINE r == Now.field.reg
           new == Changed(Now, word)
<1>0. program.of = p /\ script \in Seq(Ops(p)) /\ word \in Words /\ Holding(script, word)
  BY DEF TypeInv, FieldInv
<1>1. word # None /\ Store(r, new)
  BY DEF WriteBack
<1>2. word \subseteq 0 .. 31 /\ script # <<>> /\ Now.op \in Modifying
  BY <1>0, <1>1 DEF Holding, Now, Op
<1>3. Op \in Ops(p)
  BY <1>0, <1>2, RestTyped
<1>4. Now \in Reaching(p)
  <2>1. Now \in Reaching(p) \/ (Op \in CodecOps /\ Now = Op)
    BY <1>0, <1>3, HeadFacts DEF Now
  <2>2. Op \in CodecOps => Op.op \notin Modifying
    BY <1>0, OpKinds DEF Modifying
  <2>3. QED
    BY <1>2, <2>1, <2>2
<1>5. new \subseteq 0 .. 31 /\ PutDone(Now, new) /\ RestKept(p, Now, word, new)
  BY <1>2, <1>4, ChangedFacts
<1>6. ASSUME NEW g \in FieldsOf(p), g.reg = r, g \notin DOMAIN Puts(Now),
             r = GpioData => g \in DOMAIN set
      PROVE  Extract(new, g) = Extract(Content(r), g)
  <2>1. Extract(new, g) = Extract(word, g)
    BY <1>5, <1>6 DEF RestKept
  <2>2. FreshWord(p, script, word)
    BY DEF FieldInv
  <2>3. Extract(word, g) = Extract(Content(g.reg), g)
    BY <1>1, <1>6, <2>2 DEF FreshWord, Now, Op
  <2>4. QED
    BY <1>6, <2>1, <2>3
<1> HIDE DEF new
<1>7. Stores(p, r, new)
  BY <1>1, <1>2, <1>4, <1>5, <1>6 DEF Stores, PutDone
<1>8. QED
  BY <1>7

(* So has a register written whole.                                         *)
LEMMA WriteStores ==
  ASSUME NEW p \in DOMAIN Programs, TypeInv, FieldInv(p), Write
  PROVE  \E r, new : Stores(p, r, new)
<1>0. program.of = p /\ script \in Seq(Ops(p))
  BY DEF TypeInv, FieldInv
<1>1. script # <<>> /\ Op.op \in {"load", "fill", "banked"} /\ Store(Addressed, Op.value)
  BY DEF Write
<1>2. Op \in Ops(p)
  BY <1>0, <1>1, RestTyped
<1>3. Op \in Reaching(p) /\ Now = Op
  BY <1>0, <1>1, <1>2, HeadFacts DEF Now
<1>4. Op \in Accesses(p)
  BY <1>1, <1>3, PadFacts DEF Reaching
<1>5. Addressed = Op.field.reg
  BY <1>1, <1>4, BankedRight
<1> DEFINE r == Op.field.reg
           new == Op.value
<1>6. new \subseteq 0 .. 31 /\ PutDone(Op, new) /\ RestKept(p, Op, Content(r), new)
  BY <1>1, <1>4, WholeFacts
<1>7. Store(r, new) /\ Now.field.reg = r
  BY <1>1, <1>3, <1>5
<1>8. Stores(p, r, new)
  BY <1>1, <1>3, <1>6, <1>7 DEF Stores, PutDone, RestKept
<1>9. QED
  BY <1>8

(* The contents after it.                                                   *)
LEMMA NextContent ==
  ASSUME NEW r
  PROVE  /\ r \in DOMAIN regs' => Content(r)' = regs'[r]
         /\ r \notin DOMAIN regs' => Content(r)' = Blank(r)'
<1>1. r \in DOMAIN regs' => Content(r)' = regs'[r]
  BY Zenon DEF Content
<1>2. ASSUME r \notin DOMAIN regs' PROVE Content(r)' = Blank(r)'
  <2>1. CASE r[1] = "i2s" /\ r[3] = "imr"
    BY Zenon, <1>2, <2>1 DEF Content, Blank
  <2>2. CASE ~(r[1] = "i2s" /\ r[3] = "imr") /\ r[1] = "uart" /\ r[3] = "lcr"
    BY Zenon, <1>2, <2>2 DEF Content, Blank
  <2>3. CASE ~(r[1] = "i2s" /\ r[3] = "imr") /\ ~(r[1] = "uart" /\ r[3] = "lcr")
    BY Zenon, <1>2, <2>3 DEF Content, Blank
  <2>4. QED
    BY <2>1, <2>2, <2>3
<1>3. QED
  BY <1>1, <1>2

(* The register that is stored holds the new word, the others what they     *)
(* held.                                                                    *)
LEMMA StoreContent ==
  ASSUME NEW r, NEW new, Store(r, new)
  PROVE  Content(r)' = new /\ \A q : q # r => Content(q)' = Content(q)
<1>1. regs' = [q \in DOMAIN regs \cup {r} |-> IF q = r THEN new ELSE regs[q]]
      /\ initial' = initial
  BY DEF Store, outside
<1>2. r \in DOMAIN regs' /\ regs'[r] = new
  BY <1>1
<1>3. Content(r)' = new
  BY <1>2, NextContent
<1>4. ASSUME NEW q, q # r PROVE Content(q)' = Content(q)
  <2>1. q \in DOMAIN regs' <=> q \in DOMAIN regs
    BY <1>1, <1>4
  <2>2. CASE q \in DOMAIN regs
    <3>1. regs'[q] = regs[q]
      BY <1>1, <1>4, <2>2
    <3>2. QED
      BY <2>1, <2>2, <3>1, ContentOf, NextContent
  <2>3. CASE q \notin DOMAIN regs
    BY <1>1, <2>1, <2>3, ContentOf, NextContent, BlankSame
  <2>4. QED
    BY <2>2, <2>3
<1>5. QED
  BY <1>3, <1>4

(* The same of an access that keeps the fields.                             *)
LEMMA StoredContent ==
  ASSUME NEW p, NEW r, NEW new, Stores(p, r, new)
  PROVE  Content(r)' = new /\ \A q : q # r => Content(q)' = Content(q)
BY StoreContent DEF Stores

(* What a write leaves in the fields of the program, and what it says was   *)
(* last put into them.                                                      *)
LEMMA SetAfter ==
  ASSUME NEW p \in DOMAIN Programs, FieldInv(p), NEW r, NEW new, Stores(p, r, new),
         NEW f \in DOMAIN set'
  PROVE  /\ f \in FieldsOf(p)
         /\ f \in DOMAIN Puts(Now) => f.reg = r /\ set'[f] = Puts(Now)[f]
         /\ f \notin DOMAIN Puts(Now) =>
              f \in DOMAIN set /\ ~Released(r, new, f) /\ set'[f] = set[f]
<1>1. set' = [g \in DOMAIN Puts(Now) \cup {g \in DOMAIN set : ~Released(r, new, g)} |->
                IF g \in DOMAIN Puts(Now) THEN Puts(Now)[g] ELSE set[g]]
  BY DEF Stores, Store
<1>2. Now \in Reaching(p) /\ Now.field.reg = r
  BY DEF Stores
<1>3. f \in DOMAIN Puts(Now) => f.reg = r /\ f \in FieldsOf(p)
  BY <1>2, PutsFacts
<1>4. f \in DOMAIN set => f \in FieldsOf(p)
  BY DEF FieldInv
<1>5. QED
  BY <1>1, <1>3, <1>4

(* What the fields of the program read after it.                            *)
LEMMA FieldAfter ==
  ASSUME NEW p \in DOMAIN Programs, NEW r, NEW new, Stores(p, r, new), NEW f \in FieldsOf(p)
  PROVE  /\ f \in DOMAIN Puts(Now) => Extract(Content(f.reg)', f) = Puts(Now)[f]
         /\ f \notin DOMAIN Puts(Now) /\ (f.reg = GpioData => f \in DOMAIN set) =>
              Extract(Content(f.reg)', f) = Extract(Content(f.reg), f)
<1>1. Now \in Reaching(p) /\ Now.field.reg = r
  BY DEF Stores
<1>2. f \in DOMAIN Puts(Now) => f.reg = r
  BY <1>1, PutsFacts
<1>3. CASE f.reg = r
  <2>1. Content(f.reg)' = new
    BY <1>3, StoredContent
  <2>2. QED
    BY <1>3, <2>1 DEF Stores
<1>4. CASE f.reg # r
  <2>1. Content(f.reg)' = Content(f.reg)
    BY <1>4, StoredContent
  <2>2. QED
    BY <1>2, <1>4, <2>1
<1>5. QED
  BY <1>3, <1>4

(* Every field reads as it was last set.                                    *)
LEMMA StoreIntact ==
  ASSUME NEW p \in DOMAIN Programs, FieldInv(p), NEW r, NEW new, Stores(p, r, new)
  PROVE  FieldsIntact'
<1>1. ASSUME NEW f \in DOMAIN set' PROVE Extract(Content(f.reg)', f) = set'[f]
  <2>1. f \in FieldsOf(p)
    BY SetAfter
  <2>2. CASE f \in DOMAIN Puts(Now)
    BY <2>1, <2>2, SetAfter, FieldAfter
  <2>3. CASE f \notin DOMAIN Puts(Now)
    <3>1. f \in DOMAIN set /\ set'[f] = set[f]
      BY <2>3, SetAfter
    <3>2. Extract(Content(f.reg)', f) = Extract(Content(f.reg), f)
      BY <2>1, <2>3, <3>1, FieldAfter
    <3>3. Extract(Content(f.reg), f) = set[f]
      BY <3>1 DEF FieldInv, FieldsIntact
    <3>4. QED
      BY <3>1, <3>2, <3>3
  <2>4. QED
    BY <2>2, <2>3
<1>2. QED
  BY <1>1 DEF FieldsIntact

(* A level is only put on a pin that is an output.                          *)
LEMMA PutOnOutput ==
  ASSUME NEW p \in DOMAIN Programs, TypeInv, FieldInv(p), NEW r, NEW new, Stores(p, r, new),
         NEW f \in DOMAIN Puts(Now), f.reg = GpioData
  PROVE  r = GpioData /\ f.lo \in Content(GpioDir)
<1>1. Now \in Reaching(p) /\ Now.field.reg = r /\ script # <<>> /\ script \in Seq(Ops(p))
  BY DEF Stores, FieldInv, TypeInv
<1>2. r = GpioData /\ Now.op = "modify"
  BY <1>1, PutsFacts
<1>3. Now = Op
  <2>1. Op \in Ops(p)
    BY <1>1, HeadAndTail DEF Op
  <2>2. Op.op # "frame"
    <3>1. ASSUME Op.op = "frame" PROVE FALSE
      <4>1. Now \in PadOuts
        BY <2>1, <3>1, HeadFacts, OpKinds DEF Now
      <4>2. QED
        BY <1>2, <4>1, PadFacts
    <3>2. QED
      BY <3>1
  <2>3. QED
    BY <2>1, <2>2, HeadFacts DEF Now
<1>4. f.lo \in Op.clear \cup Op.put
  <2>1. Puts(Op) = BitByBit(Op.field.reg, Op.clear \cup Op.put, Op.put)
    BY <1>2, <1>3, PutsModify
  <2>2. QED
    BY <1>3, <2>1, BitFields
<1>5. Needs(Op) = {<<Output(pin), {0}>> : pin \in Op.clear \cup Op.put}
  BY <1>1, <1>2, <1>3, NeedsOutput
<1> DEFINE b == f.lo
           g == Output(b)
           w == Content(GpioDir)
<1>6. <<g, {0}>> \in HoldNow(p)
  <2>1. <<g, {0}>> \in Needs(Op)
    BY <1>4, <1>5
  <2>2. QED
    BY <1>1, <2>1, NeedsMet
<1>7. g.reg = GpioDir /\ g.lo = b /\ g.width = 1
  BY DEF Output, Field
<1>8. w \subseteq 0 .. 31
  BY ContentWord
<1>9. b \in 0 .. 31
  BY <1>1, PutsFacts DEF IsProper
<1> HIDE DEF g, w, b
<1>10. Extract(w, g) = {0}
  BY <1>6, <1>7 DEF HoldNow, w
<1>11. w \subseteq Nat /\ g.lo \in Nat
  BY <1>7, <1>8, <1>9
<1>12. b \in w
  <2>1. b \notin w => Extract(w, g) = {}
    BY <1>7, <1>11, OneBitReads
  <2>2. QED
    BY <1>10, <2>1
<1>13. QED
  BY <1>2, <1>12 DEF b, w

(* The pins that hold their level are outputs.                              *)
LEMMA StoreDriven ==
  ASSUME NEW p \in DOMAIN Programs, TypeInv, FieldInv(p), NEW r, NEW new, Stores(p, r, new)
  PROVE  Driven'
<1>1. ASSUME NEW f \in DOMAIN set', f.reg = GpioData PROVE f.lo \in Content(GpioDir)'
  <2>1. CASE f \in DOMAIN Puts(Now)
    <3>1. r = GpioData /\ f.lo \in Content(GpioDir)
      BY <1>1, <2>1, PutOnOutput
    <3>2. GpioDir # GpioData
      BY DEF GpioDir, GpioData
    <3>3. QED
      BY <3>1, <3>2, StoredContent
  <2>2. CASE f \notin DOMAIN Puts(Now)
    <3>1. f \in DOMAIN set /\ ~Released(r, new, f)
      BY <2>2, SetAfter
    <3>2. CASE r = GpioDir
      BY <1>1, <3>1, <3>2, StoredContent DEF Released
    <3>3. CASE r # GpioDir
      BY <1>1, <3>1, <3>3, StoredContent DEF FieldInv, Driven
    <3>4. QED
      BY <3>2, <3>3
  <2>3. QED
    BY <2>1, <2>2
<1>2. QED
  BY <1>1 DEF Driven

(* The needs of the rest of the script are met after the write.             *)
LEMMA NeedAfter ==
  ASSUME NEW p \in DOMAIN Programs, TypeInv, FieldInv(p), NEW r, NEW new, Stores(p, r, new),
         NEW need \in AllNeeds(p),
         \/ need[1] \in DOMAIN Puts(Op) /\ Puts(Op)[need[1]] = need[2]
         \/ need[1] \notin DOMAIN Puts(Op) /\ need \in HoldNow(p)
  PROVE  need \in HoldNow(p)'
<1> DEFINE f == need[1]
<1>1. f \in NeedFields(p)
  BY NeedIsField
<1>2. f \in FieldsOf(p) /\ f.reg # GpioData
  BY <1>1, NeedsFacts
<1>3. script # <<>> /\ Op \in Ops(p)
  BY HeadAndTail DEF Stores, FieldInv, TypeInv, Op
<1>4. (f \in DOMAIN Puts(Op) <=> f \in DOMAIN Puts(Now))
      /\ (f \in DOMAIN Puts(Op) => Puts(Op)[f] = Puts(Now)[f])
  <2>1. CASE Op.op = "frame"
    <3>1. Op \in FrameOps /\ Now \in PadOuts
      BY <1>3, <2>1, HeadFacts, OpKinds DEF Now
    <3>2. f \notin DOMAIN Puts(Op) /\ f \notin DOMAIN Puts(Now)
      BY <1>1, <3>1, QuietOps
    <3>3. QED
      BY <3>2
  <2>2. CASE Op.op # "frame"
    BY <1>3, <2>2, HeadFacts DEF Now
  <2>3. QED
    BY <2>1, <2>2
<1>5. Extract(Content(f.reg)', f) = need[2]
  <2>1. CASE f \in DOMAIN Puts(Now)
    BY <1>2, <1>4, <2>1, FieldAfter
  <2>2. CASE f \notin DOMAIN Puts(Now)
    <3>1. need \in HoldNow(p)
      BY <1>4, <2>2
    <3>2. Extract(Content(f.reg), f) = need[2]
      BY <3>1 DEF HoldNow
    <3>3. QED
      BY <1>2, <2>2, <3>2, FieldAfter
  <2>3. QED
    BY <2>1, <2>2
<1>6. QED
  BY <1>5 DEF HoldNow

(* What is left of the script is prepared for what is met then.             *)
LEMMA RestPrepped ==
  ASSUME NEW p \in DOMAIN Programs, TypeInv, FieldInv(p), script # <<>>, interrupted = <<>>, NEW G,
         \A need \in AllNeeds(p) :
           \/ need[1] \in DOMAIN Puts(Op) /\ Puts(Op)[need[1]] = need[2]
           \/ need[1] \notin DOMAIN Puts(Op) /\ need \in HoldNow(p)
           => need \in G
  PROVE  Prepped(p, Rest, G) /\ Prepped(p, Tail(script), G)
<1>1. script \in Seq(Ops(p)) /\ Prepped(p, script, HoldNow(p)) /\ Op = Head(script)
  BY DEF FieldInv, TypeInv, Op
<1>2. Prepped(p, Tail(script), G)
  BY <1>1, MetStep
<1>3. CASE Op.op = "frame" /\ Op.at < FrameLength
  <2> DEFINE x == FrameAt(Op, Op.at + 1)
  <2>1. Op \in Ops(p)
    BY <1>1, HeadAndTail
  <2>2. Op \in FrameOps
    BY <1>3, <2>1, HeadFacts
  <2>3. x \in FrameOps
    BY <1>3, <2>2, NextFrame
  <2>4. DOMAIN Puts(Op) = {} /\ DOMAIN Puts(x) = {} /\ Needs(x) = {}
    BY <2>2, <2>3, QuietOps
  <2>5. Rest = <<x>> \o Tail(script)
    BY <1>3 DEF Rest
  <2>6. x \in Ops(p)
    BY <2>3 DEF Ops
  <2> HIDE DEF x
  <2>7. Prepped(p, Rest, HoldNow(p))
    BY <1>1, <2>4, <2>5, <2>6, MetHead
  <2>8. Rest \in Seq(Ops(p))
    BY <1>1, <2>5, <2>6, OtherHead
  <2>9. \A need \in AllNeeds(p) : need \in HoldNow(p) => need \in G
    BY <2>4
  <2>10. Prepped(p, Rest, G)
    BY <2>7, <2>8, <2>9, MetMore
  <2>11. QED
    BY <1>2, <2>10
<1>4. CASE ~(Op.op = "frame" /\ Op.at < FrameLength)
  BY <1>2, <1>4 DEF Rest
<1>5. QED
  BY <1>3, <1>4

(* What is left of a handler's script does no harm.                         *)
LEMMA RestHarmless ==
  ASSUME NEW p \in DOMAIN Programs, TypeInv, FieldInv(p), script # <<>>, interrupted # <<>>
  PROVE  Harmless(p, Rest) /\ Harmless(p, Tail(script))
<1>1. script \in Seq(Ops(p)) /\ Harmless(p, script) /\ Op = Head(script)
  BY DEF FieldInv, TypeInv, Op
<1>2. Op \in Ops(p)
  BY <1>1, HeadAndTail
<1>3. CASE Op.op = "frame" /\ Op.at < FrameLength
  <2> DEFINE x == FrameAt(Op, Op.at + 1)
  <2>1. Op \in FrameOps
    BY <1>2, <1>3, HeadFacts
  <2>2. x \in FrameOps
    BY <1>3, <2>1, NextFrame
  <2>3. x \in Ops(p) /\ Needs(x) = {} /\ DOMAIN Puts(x) = {}
    BY <2>2, QuietOps DEF Ops
  <2>4. Rest = <<x>> \o Tail(script)
    BY <1>3 DEF Rest
  <2> HIDE DEF x
  <2>5. QED
    BY <1>1, <2>3, <2>4, HarmlessStep
<1>4. CASE ~(Op.op = "frame" /\ Op.at < FrameLength)
  <2>1. \E x \in Ops(p) : Needs(x) = {} /\ DOMAIN Puts(x) = {}
    <3> DEFINE x == CodecOp(1, 0, {})
    <3>1. x \in CodecOps
      BY DEF CodecOps, Codecs, WriteAddrs, CodecRegs, RegData
    <3>2. x \in Ops(p) /\ Needs(x) = {} /\ DOMAIN Puts(x) = {}
      BY <3>1, QuietOps DEF Ops
    <3>3. QED
      BY <3>2
  <2>2. Harmless(p, Tail(script))
    BY <1>1, <2>1, HarmlessStep
  <2>3. QED
    BY <1>4, <2>2 DEF Rest
<1>5. QED
  BY <1>3, <1>4

(* The word of an access that was interrupted is still as good as the       *)
(* register: the handler put nothing there that the write back would undo.  *)
LEMMA StoreFresh ==
  ASSUME NEW p \in DOMAIN Programs, FieldInv(p), WordsKept, NEW r, NEW new,
         Stores(p, r, new), interrupted # <<>>, interrupted' = interrupted,
         NEW x, interrupted = <<x>>
  PROVE  FreshWord(p, x.script, x.word)'
<1> DEFINE held == AccessOf(Head(x.script))
           w == x.word
<1>1. interrupted[1] = x /\ 1 \in DOMAIN interrupted
  OBVIOUS
<1>2. FreshWord(p, x.script, w)
  BY <1>1 DEF FieldInv
<1>3. ASSUME w # None, NEW f \in FieldsOf(p), f.reg = held.field.reg, f \notin DOMAIN Puts(held),
             f.reg = GpioData => f \in DOMAIN set'
      PROVE  Extract(w, f) = Extract(Content(f.reg)', f)
  <2>1. CASE f \in DOMAIN Puts(Now)
    <3>1. script # <<>>
      BY DEF Stores
    <3>2. Extract(w, f) = Puts(Now)[f]
      BY <1>1, <1>3, <2>1, <3>1 DEF WordsKept
    <3>3. QED
      BY <2>1, <3>2, FieldAfter
  <2>2. CASE f \notin DOMAIN Puts(Now)
    <3>1. f.reg = GpioData => f \in DOMAIN set
      BY <1>3, <2>2, SetAfter
    <3>2. Extract(w, f) = Extract(Content(f.reg), f)
      BY <1>2, <1>3, <3>1 DEF FreshWord
    <3>3. QED
      BY <2>2, <3>1, <3>2, FieldAfter
  <2>3. QED
    BY <2>1, <2>2
<1>4. QED
  BY <1>3 DEF FreshWord

(* A word stored keeps the invariant.                                       *)
LEMMA StoreKeepsFields ==
  ASSUME NEW p \in DOMAIN Programs, TypeInv, FieldInv(p), WordsKept, WriteBack \/ Write
  PROVE  FieldInv(p)'
<1>1. PICK r, new : Stores(p, r, new)
  BY WriteBackStores, WriteStores
<1>2. /\ script' = Rest /\ word' = None /\ program' = program /\ interrupted' = interrupted
      /\ script # <<>>
  BY <1>1 DEF Stores, Store, inside
<1>3. DOMAIN set' \subseteq FieldsOf(p)
  BY <1>1, SetAfter
<1>4. FieldsIntact'
  BY <1>1, StoreIntact
<1>5. Driven'
  BY <1>1, StoreDriven
<1>6. FreshWord(p, script, word)'
  BY <1>2 DEF FreshWord
<1>7. program'.of = p
  BY <1>2 DEF FieldInv
<1>8. \A need \in AllNeeds(p) :
        \/ need[1] \in DOMAIN Puts(Op) /\ Puts(Op)[need[1]] = need[2]
        \/ need[1] \notin DOMAIN Puts(Op) /\ need \in HoldNow(p)
        => need \in HoldNow(p)'
  BY <1>1, NeedAfter
<1>9. CASE interrupted = <<>>
  <2>1. Prepped(p, Rest, HoldNow(p)')
    BY <1>2, <1>8, <1>9, RestPrepped
  <2>2. QED
    BY <1>2, <1>3, <1>4, <1>5, <1>6, <1>7, <1>9, <2>1 DEF FieldInv
<1>10. CASE interrupted # <<>>
  <2>1. PICK x \in Contexts(p) : interrupted = <<x>>
    BY <1>10 DEF TypeInv, FieldInv
  <2>2. interrupted[1] = x
    BY <2>1
  <2>3. FreshWord(p, x.script, x.word)'
    BY <1>1, <1>2, <1>10, <2>1, StoreFresh
  <2>4. Harmless(p, Rest)
    BY <1>2, <1>10, RestHarmless
  <2>5. Prepped(p, x.script, HoldNow(p)')
    <3>1. Prepped(p, x.script, HoldNow(p)) /\ x.script \in Seq(Ops(p))
      BY <1>10, <2>1, <2>2 DEF FieldInv, Contexts
    <3>2. ASSUME NEW need \in AllNeeds(p), need \in HoldNow(p) PROVE need \in HoldNow(p)'
      <4>1. need[1] \in NeedFields(p)
        BY NeedIsField
      <4>2. need[1] \notin DOMAIN Puts(Op)
        <5>1. Len(script) \in Nat /\ Len(script) >= 1 /\ Op = script[1]
          BY <1>2, HeadAndTail DEF TypeInv, FieldInv, Op
        <5>2. 1 \in 1 .. Len(script)
          BY <5>1
        <5>3. DOMAIN Puts(Op) \cap NeedFields(p) = {}
          BY <1>10, <5>1, <5>2 DEF FieldInv, Harmless
        <5>4. QED
          BY <4>1, <5>3
      <4>3. QED
        BY <1>8, <3>2, <4>2
    <3>3. QED
      BY <3>1, <3>2, MetMore
  <2>6. interrupted'[1] = x /\ interrupted' # <<>>
    BY <1>2, <1>10, <2>2
  <2>7. FreshWord(p, interrupted[1].script, interrupted[1].word)'
    BY <2>3, <2>6 DEF FreshWord
  <2>8. Prepped(p, interrupted[1].script, HoldNow(p))' /\ Harmless(p, script)'
    BY <1>2, <2>4, <2>5, <2>6
  <2>9. QED
    BY <1>3, <1>4, <1>5, <1>6, <1>7, <2>6, <2>7, <2>8 DEF FieldInv
<1>11. QED
  BY <1>9, <1>10

(* The steps that write no register.                                        *)
LEMMA HoldSame ==
  ASSUME NEW p, initial' = initial, regs' = regs PROVE HoldNow(p)' = HoldNow(p)
BY ContentSame DEF HoldNow

(* A word stays fresh.                                                      *)
LEMMA FreshSame ==
  ASSUME NEW p, NEW s, NEW w, initial' = initial, regs' = regs, set' = set, FreshWord(p, s, w)
  PROVE  FreshWord(p, s, w)'
BY ContentSame DEF FreshWord

(* The fields stay intact.                                                  *)
LEMMA RestSame ==
  ASSUME NEW p, initial' = initial, regs' = regs, set' = set, program'.of = program.of, FieldInv(p)
  PROVE  program'.of = p /\ (DOMAIN set \subseteq FieldsOf(p))' /\ FieldsIntact' /\ Driven'
<1>1. FieldsIntact'
  BY ContentSame DEF FieldInv, FieldsIntact
<1>2. Driven'
  BY ContentSame DEF FieldInv, Driven
<1>3. QED
  BY <1>1, <1>2 DEF FieldInv

(* One that goes on with a script, the interrupted one or that of a handler *)
LEMMA GoOn ==
  ASSUME NEW p \in DOMAIN Programs, TypeInv, FieldInv(p),
         initial' = initial, regs' = regs, set' = set, program'.of = program.of,
         interrupted' = interrupted, FreshWord(p, script, word)',
         interrupted = <<>> => Prepped(p, script', HoldNow(p)),
         interrupted # <<>> => Harmless(p, script')
  PROVE  FieldInv(p)'
<1>1. program'.of = p /\ (DOMAIN set \subseteq FieldsOf(p))' /\ FieldsIntact' /\ Driven'
  BY RestSame
<1>2. HoldNow(p)' = HoldNow(p)
  BY HoldSame
<1>3. CASE interrupted = <<>>
  BY <1>1, <1>2, <1>3 DEF FieldInv
<1>4. CASE interrupted # <<>>
  <2> DEFINE x == interrupted[1]
  <2>1. FreshWord(p, x.script, x.word) /\ Prepped(p, x.script, HoldNow(p))
    BY <1>4 DEF FieldInv
  <2>2. interrupted'[1] = x
    OBVIOUS
  <2>3. FreshWord(p, interrupted[1].script, interrupted[1].word)'
    BY <2>1, <2>2, ContentSame DEF FreshWord
  <2>4. QED
    BY <1>1, <1>2, <1>4, <2>1, <2>2, <2>3 DEF FieldInv
<1>5. QED
  BY <1>3, <1>4

(* A read keeps the invariant: the word is fresh, and the level of an       *)
(* output is the one put out.                                               *)
LEMMA ReadKeepsFields ==
  ASSUME NEW p \in DOMAIN Programs, TypeInv, FieldInv(p), Read PROVE FieldInv(p)'
<1> DEFINE r == Now.field.reg
<1>1. /\ script # <<>> /\ word' \in Sampled(r) /\ script' = script /\ regs' = regs /\ set' = set
      /\ initial' = initial /\ program' = program /\ interrupted' = interrupted
  BY DEF Read, inside, outside
<1>2. ASSUME NEW f \in FieldsOf(p), f.reg = r, f.reg = GpioData => f \in DOMAIN set
      PROVE  Extract(word', f) = Extract(Content(f.reg), f)
  <2>1. CASE r # GpioData
    BY <1>1, <1>2, <2>1 DEF Sampled
  <2>2. CASE r = GpioData
    <3>1. PICK level \in {{}, 0 .. 7} :
            word' = (Content(r) \cap Content(GpioDir)) \cup (level \ Content(GpioDir))
      BY <1>1, <2>2 DEF Sampled
    <3>2. f.width = 1 /\ f.lo \in 0 .. 31
      BY <1>2, <2>2, FieldFacts DEF IsProper
    <3>3. f.lo \in Content(GpioDir)
      BY <1>2, <2>2 DEF FieldInv, Driven
    <3>4. FieldBits(f) = {f.lo}
      BY <3>2 DEF FieldBits
    <3>5. word' \cap FieldBits(f) = Content(r) \cap FieldBits(f)
      BY <3>1, <3>3, <3>4
    <3>6. QED
      BY <1>2, <3>5, SameBits
  <2>3. QED
    BY <2>1, <2>2
<1>3. FreshWord(p, script, word)'
  <2>1. \A q : Content(q)' = Content(q)
    BY <1>1, ContentSame
  <2>2. AccessOf(Head(script')) = Now
    BY <1>1 DEF Now, Op
  <2>3. QED
    BY <1>1, <1>2, <2>1, <2>2 DEF FreshWord
<1>4. (interrupted = <<>> => Prepped(p, script', HoldNow(p)))
      /\ (interrupted # <<>> => Harmless(p, script'))
  BY <1>1 DEF FieldInv
<1>5. QED
  BY <1>1, <1>3, <1>4, GoOn

(* An operation without a word leaves a prepared, or a harmless, script.    *)
LEMMA QuietStep ==
  ASSUME NEW p \in DOMAIN Programs, TypeInv, FieldInv(p), script # <<>>,
         Op.op \in {"wait", "lock", "until", "strobe", "codec", "forget", "connect"}
  PROVE  /\ word = None
         /\ interrupted = <<>> => Prepped(p, Tail(script), HoldNow(p))
         /\ interrupted # <<>> => Harmless(p, Tail(script))
<1>1. AccessOf(Op) = Op
  BY DEF AccessOf
<1>2. word = None
  BY <1>1 DEF TypeInv, Holding, Op, Modifying
<1>3. DOMAIN Puts(Op) = {}
  BY PutsNothing
<1>4. QED
  BY <1>2, <1>3, RestPrepped, RestHarmless

(* Waiting, clearing the driver's structure and connecting keep it.         *)
LEMMA QuietKeepsFields ==
  ASSUME NEW p \in DOMAIN Programs, TypeInv, FieldInv(p), Await \/ Forget \/ Connect
  PROVE  FieldInv(p)'
<1>1. /\ script # <<>> /\ script' = Tail(script) /\ word' = word
      /\ Op.op \in {"wait", "lock", "until", "strobe", "codec", "forget", "connect"}
      /\ initial' = initial /\ regs' = regs /\ set' = set /\ program'.of = program.of
      /\ interrupted' = interrupted
  BY DEF Await, Forget, Connect, inside, outside
<1>2. word = None /\ (interrupted = <<>> => Prepped(p, Tail(script), HoldNow(p)))
      /\ (interrupted # <<>> => Harmless(p, Tail(script)))
  BY <1>1, QuietStep
<1>3. FreshWord(p, script, word)'
  BY <1>1, <1>2 DEF FreshWord
<1>4. QED
  BY <1>1, <1>2, <1>3, GoOn

(* A register write that becomes a frame keeps it.                          *)
LEMMA WriteCodecKeepsFields ==
  ASSUME NEW p \in DOMAIN Programs, TypeInv, FieldInv(p), WriteCodec PROVE FieldInv(p)'
<1>1. /\ script # <<>> /\ script' = <<FrameAt(Op, 1)>> \o Tail(script) /\ word' = word
      /\ Op.op = "codec" /\ initial' = initial /\ regs' = regs /\ set' = set
      /\ program' = program /\ interrupted' = interrupted
  BY DEF WriteCodec, inside, outside
<1>2. script \in Seq(Ops(p)) /\ Op = Head(script)
  BY DEF FieldInv, TypeInv, Op
<1>3. Op \in CodecOps
  BY <1>1, <1>2, HeadAndTail, HeadFacts
<1>4. PICK k \in Codecs, a \in WriteAddrs, d \in RegData : Op = CodecOp(k, a, d)
  BY <1>3 DEF CodecOps
<1> DEFINE x == FrameAt(Op, 1)
<1>5. x \in FrameOps
  <2>1. 1 \in Ats
    BY DEF Ats, FrameLength
  <2>2. QED
    BY <1>4, <2>1, FrameOpIs
<1>6. x \in Ops(p) /\ Needs(x) = {} /\ DOMAIN Puts(x) = {} /\ DOMAIN Puts(Op) = {}
  BY <1>3, <1>5, QuietOps DEF Ops
<1> HIDE DEF x
<1>7. script' = <<x>> \o Tail(script)
  BY <1>1 DEF x
<1>8. interrupted = <<>> => Prepped(p, script', HoldNow(p))
  <2>1. interrupted = <<>> => Prepped(p, script, HoldNow(p))
    BY DEF FieldInv
  <2>2. QED
    BY <1>1, <1>2, <1>6, <1>7, <2>1, MetHead
<1>9. interrupted # <<>> => Harmless(p, script')
  <2>1. interrupted # <<>> => Harmless(p, script)
    BY DEF FieldInv
  <2>2. QED
    BY <1>1, <1>2, <1>6, <1>7, <2>1, HarmlessStep
<1>10. word = None
  BY <1>1, QuietStep
<1>11. FreshWord(p, script, word)'
  BY <1>1, <1>10 DEF FreshWord
<1>12. QED
  BY <1>1, <1>8, <1>9, <1>11, GoOn

(* A call begins when all is at rest; the handlers' calls are harmless.     *)
LEMMA StartPrepped ==
  ASSUME NEW p \in DOMAIN Programs, TypeInv, program.of = p, NEW c \in Calls(p), NEW H,
         AtRest(p) \subseteq H
  PROVE  Prepped(p, Script(c), H)
<1>1. ProperCall(c)
  BY ProgramAssumption
<1>2. CASE c.fun = "access"
  <2>1. Prepared(p, c.script) /\ Script(c) = c.script
    BY <1>2, ScriptedAccess, ScriptAccess
  <2>2. QED
    BY <2>1, PreparedPrepped
<1>3. CASE c.fun # "access"
  <2>1. Script(c) \in Seq(CodecOps \cup PadOuts)
    BY <1>1, <1>3, CodecScript DEF TypeInv
  <2>2. Harmless(p, Script(c))
    BY <2>1, CodecHarmless
  <2>3. Script(c) \in Seq(Ops(p))
    BY CallTyped
  <2>4. QED
    BY <2>2, <2>3, HarmlessPrepped
<1>4. QED
  BY <1>2, <1>3

(* What a handler calls does no harm.                                       *)
LEMMA HandlerHarmless ==
  ASSUME NEW p \in DOMAIN Programs, TypeInv, program.of = p, NEW c \in HandlerCalls[p]
  PROVE  Harmless(p, Script(c))
<1>1. c \in Calls(p) /\ ProperCall(c)
  BY ProgramAssumption DEF Calls
<1>2. CASE c.fun = "access"
  <2>1. Script(c) = c.script /\ c.script \in Seq(Range(c.script))
    <3>1. c.script \in Seq(Range(c.script))
      BY Zenon, <1>1, <1>2 DEF ProperCall
    <3>2. QED
      BY <1>2, <3>1, ScriptAccess
  <2>2. Range(c.script) \subseteq AccessesOf(HandlerCalls[p])
    BY <1>2 DEF AccessesOf, Scripted
  <2>3. ASSUME NEW i \in 1 .. Len(c.script)
        PROVE  Needs(c.script[i]) = {} /\ DOMAIN Puts(c.script[i]) \cap NeedFields(p) = {}
    <3>1. c.script[i] \in AccessesOf(HandlerCalls[p])
      BY <2>1, <2>2
    <3>2. QED
      BY <3>1, ProgramAssumption
  <2>4. QED
    BY <2>1, <2>3 DEF Harmless
<1>3. CASE c.fun # "access"
  <2>1. Script(c) \in Seq(CodecOps \cup PadOuts)
    BY <1>1, <1>3, CodecScript DEF TypeInv
  <2>2. QED
    BY <2>1, CodecHarmless
<1>4. QED
  BY <1>2, <1>3

(* A call keeps the invariant.                                              *)
LEMMA CallKeepsFields ==
  ASSUME NEW p \in DOMAIN Programs, TypeInv, FieldInv(p), Call PROVE FieldInv(p)'
<1> DEFINE c == Programs[p][program.started + 1]
<1>1. /\ Idle /\ program.of = p /\ program.started < Len(Programs[p]) /\ program.started \in Nat
      /\ program' = [program EXCEPT !.started = @ + 1] /\ script' = Script(c) /\ word' = None
      /\ interrupted' = interrupted /\ regs' = regs /\ initial' = initial /\ set' = set
  BY DEF Call, Run, outside, FieldInv, TypeInv
<1>2. c \in Calls(p)
  <2>1. Programs[p] \in Seq(Range(Programs[p]))
    BY ProgramAssumption
  <2>2. program.started + 1 \in DOMAIN Programs[p]
    <3>1. Len(Programs[p]) \in Nat
      BY <2>1, LenProperties
    <3>2. QED
      BY <1>1, <2>1, <3>1
  <2>3. QED
    BY <2>2 DEF Calls, Range
<1> HIDE DEF c
<1>3. program'.of = p
  BY <1>1 DEF TypeInv
<1>4. AtRest(p) \subseteq HoldNow(p)
  <2>1. script \in Seq(Ops(p)) /\ script = <<>> /\ Prepped(p, script, HoldNow(p))
    BY <1>1 DEF Idle, FieldInv, TypeInv
  <2>2. QED
    BY <2>1, MetNow
<1>5. Prepped(p, script', HoldNow(p))
  BY <1>1, <1>2, <1>4, StartPrepped
<1>6. FreshWord(p, script, word)'
  BY <1>1 DEF FreshWord
<1>7. interrupted = <<>>
  BY <1>1 DEF Idle
<1>8. QED
  BY <1>1, <1>3, <1>5, <1>6, <1>7, GoOn

(* An interrupt keeps it: the word it comes upon is fresh.                  *)
LEMMA InterruptKeepsFields ==
  ASSUME NEW p \in DOMAIN Programs, TypeInv, FieldInv(p), Interrupt PROVE FieldInv(p)'
<1> DEFINE x == [script |-> script, word |-> word]
<1>0. program.of = p
  BY DEF FieldInv
<1>1. PICK c \in HandlerCalls[p] : Run(c)
  BY <1>0 DEF Interrupt
<1>2. /\ interrupted' = <<x>> /\ interrupted = <<>> /\ program' = program /\ regs' = regs
      /\ initial' = initial /\ set' = set /\ script' = Script(c) /\ word' = None
  BY <1>1 DEF Interrupt, Run, outside
<1>3. Harmless(p, script')
  BY <1>0, <1>2, HandlerHarmless
<1>4. program'.of = p /\ (DOMAIN set \subseteq FieldsOf(p))' /\ FieldsIntact' /\ Driven'
  BY <1>2, RestSame
<1>5. HoldNow(p)' = HoldNow(p)
  BY <1>2, HoldSame
<1>6. FreshWord(p, script, word)'
  BY <1>2 DEF FreshWord
<1>7. interrupted' # <<>> /\ interrupted'[1].script = script /\ interrupted'[1].word = word
  BY <1>2
<1>8. FreshWord(p, interrupted[1].script, interrupted[1].word)'
  <2>1. FreshWord(p, script, word)
    BY DEF FieldInv
  <2>2. QED
    BY <1>2, <1>7, <2>1, ContentSame DEF FreshWord
<1>9. Prepped(p, interrupted[1].script, HoldNow(p))'
  BY <1>2, <1>5, <1>7 DEF FieldInv
<1>10. QED
  BY <1>3, <1>4, <1>6, <1>7, <1>8, <1>9 DEF FieldInv

(* The return keeps it: the word is still fresh.                            *)
LEMMA ReturnKeepsFields ==
  ASSUME NEW p \in DOMAIN Programs, TypeInv, FieldInv(p), Return PROVE FieldInv(p)'
<1>1. /\ interrupted # <<>> /\ interrupted' = <<>> /\ script' = interrupted[1].script
      /\ word' = interrupted[1].word /\ program' = program /\ regs' = regs
      /\ initial' = initial /\ set' = set
  BY DEF Return, outside
<1>2. program'.of = p /\ (DOMAIN set \subseteq FieldsOf(p))' /\ FieldsIntact' /\ Driven'
  BY <1>1, RestSame
<1>3. HoldNow(p)' = HoldNow(p)
  BY <1>1, HoldSame
<1>4. FreshWord(p, script, word)'
  <2>1. FreshWord(p, interrupted[1].script, interrupted[1].word)
    BY <1>1 DEF FieldInv
  <2>2. QED
    BY <1>1, <2>1, ContentSame DEF FreshWord
<1>5. Prepped(p, script, HoldNow(p))'
  BY <1>1, <1>3 DEF FieldInv
<1>6. QED
  BY <1>1, <1>2, <1>4, <1>5 DEF FieldInv

(* The reset lines, the PLL and a stutter keep it.                          *)
LEMMA OutsideKeepsFields ==
  ASSUME NEW p \in DOMAIN Programs, TypeInv, FieldInv(p), Settle \/ Lock \/ UNCHANGED vars
  PROVE  FieldInv(p)'
<1>1. /\ script' = script /\ word' = word /\ program' = program /\ interrupted' = interrupted
      /\ regs' = regs /\ initial' = initial /\ set' = set
  BY DEF Settle, Lock, vars, inside
<1>2. FreshWord(p, script, word)'
  BY <1>1, ContentSame DEF FreshWord, FieldInv
<1>3. (interrupted = <<>> => Prepped(p, script', HoldNow(p)))
      /\ (interrupted # <<>> => Harmless(p, script'))
  BY <1>1 DEF FieldInv
<1>4. QED
  BY <1>1, <1>2, <1>3, GoOn

(* So does every step, as long as the callers are considerate.              *)
LEMMA FieldStep ==
  ASSUME NEW p \in DOMAIN Programs, TypeInv, FieldInv(p), WordsKept, [Next]_vars
  PROVE  FieldInv(p)'
BY CallKeepsFields, InterruptKeepsFields, ReturnKeepsFields, ReadKeepsFields, StoreKeepsFields,
   QuietKeepsFields, WriteCodecKeepsFields, OutsideKeepsFields DEF Next, Access

SomeFieldInv == \E p \in DOMAIN Programs : FieldInv(p)

(* The invariant holds at first: the latches of the UARTs are closed.       *)
LEMMA FieldInit == Init => SomeFieldInv
<1> SUFFICES ASSUME Init PROVE SomeFieldInv
  OBVIOUS
<1>1. PICK p \in DOMAIN Programs : program = [of |-> p, started |-> 0]
  BY DEF Init
<1>2. /\ script = <<>> /\ word = None /\ interrupted = <<>> /\ set = <<>>
      /\ regs = [r \in {<<"rst", 0>>, <<"rst", 1>>} |-> {}]
  BY DEF Init
<1>3. program.of = p /\ DOMAIN set = {}
  BY <1>1, <1>2
<1>4. FieldsIntact /\ Driven /\ DOMAIN set \subseteq FieldsOf(p)
  BY <1>3 DEF FieldsIntact, Driven
<1>5. FreshWord(p, script, word)
  BY <1>2 DEF FreshWord
<1>6. AtRest(p) \subseteq HoldNow(p)
  <2>1. ASSUME NEW op \in Accesses(p), op.op = "banked"
        PROVE  <<Latch(op.field.reg[2]), {}>> \in HoldNow(p)
    <3> DEFINE r == Lcr(op.field.reg[2])
               f == Latch(op.field.reg[2])
    <3>1. f.reg = r /\ r[1] = "uart" /\ r[3] = "lcr"
      BY DEF Latch, Field, Lcr, UartReg
    <3>2. r \notin {<<"rst", 0>>, <<"rst", 1>>}
      BY <3>1
    <3>3. Content(r) = Blank(r)
      BY <1>2, <3>2, ContentOf
    <3>4. Blank(r) = {}
      <4>1. ~(r[1] = "i2s" /\ r[3] = "imr")
        BY <3>1
      <4>2. QED
        BY Zenon, <3>1, <4>1 DEF Blank
    <3>5. Extract({}, f) = {}
      BY DEF Extract, Shifted
    <3>6. <<f, {}>> \in AllNeeds(p)
      BY <2>1 DEF AllNeeds, AtRest
    <3> HIDE DEF f, r
    <3>7. Extract(Content(f.reg), f) = {}
      BY <3>1, <3>3, <3>4, <3>5
    <3>8. <<f, {}>> \in HoldNow(p)
      BY <3>6, <3>7 DEF HoldNow
    <3>9. QED
      BY <3>8 DEF f
  <2>2. QED
    BY <2>1 DEF AtRest
<1>7. Prepped(p, script, HoldNow(p))
  <2>1. Harmless(p, script)
    BY <1>2 DEF Harmless
  <2>2. script \in Seq(Ops(p))
    BY <1>2
  <2>3. QED
    BY <1>6, <2>1, <2>2, HarmlessPrepped
<1>8. FieldInv(p)
  BY <1>2, <1>3, <1>4, <1>5, <1>7 DEF FieldInv
<1>9. QED
  BY <1>8 DEF SomeFieldInv

(* It is inductive, for the program that runs.                              *)
LEMMA SomeFieldStep == TypeInv /\ SomeFieldInv /\ WordsKept /\ [Next]_vars => SomeFieldInv'
<1> SUFFICES ASSUME TypeInv, SomeFieldInv, WordsKept, [Next]_vars PROVE SomeFieldInv'
  OBVIOUS
<1>1. PICK p \in DOMAIN Programs : FieldInv(p)
  BY DEF SomeFieldInv
<1>2. FieldInv(p)'
  BY <1>1, FieldStep
<1>3. QED
  BY <1>2 DEF SomeFieldInv

(* Every field of every register reads as it was last set, whatever the     *)
(* programs and wherever the interrupts come, as long as no handler puts    *)
(* into a register what the write back it interrupted would undo.           *)
THEOREM FieldsStayIntact == Spec /\ []CallersConsiderate => []FieldsIntact
<1>1. CallersConsiderate => WordsKept
  BY DEF CallersConsiderate
<1>2. SomeFieldInv => FieldsIntact
  BY DEF SomeFieldInv, FieldInv
<1>3. QED
  BY <1>1, <1>2, TypeHolds, FieldInit, SomeFieldStep, PTL DEF Spec

-----------------------------------------------------------------------------
(* What the codecs are told.  Of a script only its register writes matter,  *)
(* which are frames once they have begun.                                   *)

WritesTo(op, k) == op.op \in {"codec", "frame"} /\ op.codec = k
Writes(op, k, a) == WritesTo(op, k) /\ op.addr = a
Unwritten(s, k) == \A i \in DOMAIN s : ~WritesTo(s[i], k)
Pending(s, k, a) == \E i \in DOMAIN s : Writes(s[i], k, a)
LeftOf(ch) == VolumeRegs[ch][1]
RightOf(ch) == VolumeRegs[ch][2]

(* The rules of the scripts, for the volumes q that were asked: the left    *)
(* volume of a channel is written without its update bit, and then the      *)
(* right one with it; after a reset every register is written.              *)
LeftRule(s, k, q) ==
  \A i \in DOMAIN s, ch \in Channels : Writes(s[i], k, LeftOf(ch)) =>
    /\ s[i].data = q[ch][1] /\ Update \notin s[i].data
    /\ i + 1 \in DOMAIN s /\ Writes(s[i + 1], k, RightOf(ch))
RightRule(s, k, q) ==
  \A i \in DOMAIN s, ch \in Channels : Writes(s[i], k, RightOf(ch)) =>
    /\ s[i].data \ {Update} = q[ch][2] /\ Update \in s[i].data
    /\ \A j \in DOMAIN s : j > i => ~Writes(s[j], k, LeftOf(ch))
ResetRule(s, k) ==
  \A i \in DOMAIN s : Writes(s[i], k, CodecReset) =>
    \A a \in 0 .. 10 : \E j \in DOMAIN s : j > i /\ Writes(s[j], k, a)

(* What the codec and the cache m are, but for what the script still        *)
(* writes: the registers agree, the volumes are those that were asked.      *)
RegsAgree(s, k, m, chip) == \A a \in 0 .. 10 : Pending(s, k, a) \/ chip.regs[a] = m[a]
LeftAgrees(s, k, m, chip, q) ==
  \A ch \in Channels : Pending(s, k, LeftOf(ch))
    \/ (m[LeftOf(ch)] = q[ch][1] /\ Update \notin q[ch][1] /\ chip.held[ch][1] = q[ch][1])
RightAgrees(s, k, m, chip, q) ==
  \A ch \in Channels : Pending(s, k, RightOf(ch))
    \/ (/\ m[RightOf(ch)] \ {Update} = q[ch][2] /\ Update \in m[RightOf(ch)]
        /\ chip.held[ch][2] = q[ch][2] /\ chip.applied[ch] = q[ch])
Balanced(chip, q, ch) == chip.held[ch] \in {q[ch], chip.applied[ch], PowerOn.applied[ch]}
HeldTogether(s, k, chip, q) ==
  \A ch \in Channels : Balanced(chip, q, ch) \/ (s # <<>> /\ Writes(s[1], k, RightOf(ch)))
Told(s, k, m, chip, q) ==
  /\ LeftRule(s, k, q) /\ RightRule(s, k, q) /\ ResetRule(s, k)
  /\ RegsAgree(s, k, m, chip) /\ LeftAgrees(s, k, m, chip, q) /\ RightAgrees(s, k, m, chip, q)
  /\ HeldTogether(s, k, chip, q)

(* A codec that was not initialised holds back nothing of its own.          *)
Untold(chip) == \A ch \in Channels : chip.held[ch] \in {chip.applied[ch], PowerOn.applied[ch]}

(* The registers of the volumes.                                            *)
LEMMA VolumeAddrs ==
  /\ Channels = {1, 2, 3}
  /\ LeftOf(1) = 0 /\ LeftOf(2) = 4 /\ LeftOf(3) = 6
  /\ RightOf(1) = 1 /\ RightOf(2) = 5 /\ RightOf(3) = 7
BY DEF Channels, LeftOf, RightOf, VolumeRegs

(* A write of one register is a write of no other.                          *)
LEMMA OneAddress ==
  ASSUME NEW op, NEW k, NEW a, NEW b, Writes(op, k, a), Writes(op, k, b) PROVE a = b
BY DEF Writes

(* Two operations that write the same.                                      *)
Alike(x, y) ==
  x = y \/ (/\ x.op \in {"codec", "frame"} /\ y.op \in {"codec", "frame"}
            /\ x.codec = y.codec /\ x.addr = y.addr /\ x.data = y.data)
AllAlike(s, t) == DOMAIN s = DOMAIN t /\ \A i \in DOMAIN s : Alike(s[i], t[i])

(* They do.                                                                 *)
LEMMA AlikeWrites ==
  ASSUME NEW x, NEW y, Alike(x, y)
  PROVE  /\ \A k, a : Writes(x, k, a) <=> Writes(y, k, a)
         /\ \A k, a : Writes(x, k, a) => x.data = y.data
BY DEF Alike, Writes, WritesTo

(* Scripts that write the same keep to the rules together.                  *)
LEMMA AlikePending ==
  ASSUME NEW s, NEW t, AllAlike(s, t), NEW k, NEW a
  PROVE  Pending(s, k, a) <=> Pending(t, k, a)
BY AlikeWrites DEF AllAlike, Pending

(* The rule of the left volumes.                                            *)
LEMMA AlikeLeft ==
  ASSUME NEW s, NEW t, AllAlike(s, t), NEW k, NEW q, LeftRule(s, k, q) PROVE LeftRule(t, k, q)
<1> SUFFICES ASSUME NEW i \in DOMAIN t, NEW ch \in Channels, Writes(t[i], k, LeftOf(ch))
    PROVE  /\ t[i].data = q[ch][1] /\ Update \notin t[i].data
           /\ i + 1 \in DOMAIN t /\ Writes(t[i + 1], k, RightOf(ch))
  BY DEF LeftRule
<1>1. i \in DOMAIN s /\ Writes(s[i], k, LeftOf(ch)) /\ s[i].data = t[i].data
  BY AlikeWrites DEF AllAlike
<1>2. s[i].data = q[ch][1] /\ Update \notin s[i].data
      /\ i + 1 \in DOMAIN s /\ Writes(s[i + 1], k, RightOf(ch))
  BY <1>1 DEF LeftRule
<1>3. QED
  BY <1>1, <1>2, AlikeWrites DEF AllAlike

(* The rule of the right ones.                                              *)
LEMMA AlikeRight ==
  ASSUME NEW s, NEW t, AllAlike(s, t), NEW k, NEW q, RightRule(s, k, q) PROVE RightRule(t, k, q)
<1> SUFFICES ASSUME NEW i \in DOMAIN t, NEW ch \in Channels, Writes(t[i], k, RightOf(ch))
    PROVE  /\ t[i].data \ {Update} = q[ch][2] /\ Update \in t[i].data
           /\ \A j \in DOMAIN t : j > i => ~Writes(t[j], k, LeftOf(ch))
  BY DEF RightRule
<1>1. i \in DOMAIN s /\ Writes(s[i], k, RightOf(ch)) /\ s[i].data = t[i].data
  BY AlikeWrites DEF AllAlike
<1>2. s[i].data \ {Update} = q[ch][2] /\ Update \in s[i].data
      /\ \A j \in DOMAIN s : j > i => ~Writes(s[j], k, LeftOf(ch))
  BY <1>1 DEF RightRule
<1>3. QED
  BY <1>1, <1>2, AlikeWrites DEF AllAlike

(* The rule of the reset.                                                   *)
LEMMA AlikeReset ==
  ASSUME NEW s, NEW t, AllAlike(s, t), NEW k, ResetRule(s, k) PROVE ResetRule(t, k)
<1> SUFFICES ASSUME NEW i \in DOMAIN t, Writes(t[i], k, CodecReset), NEW a \in 0 .. 10
    PROVE  \E j \in DOMAIN t : j > i /\ Writes(t[j], k, a)
  BY DEF ResetRule
<1>1. i \in DOMAIN s /\ Writes(s[i], k, CodecReset)
  BY AlikeWrites DEF AllAlike
<1>2. PICK j \in DOMAIN s : j > i /\ Writes(s[j], k, a)
  BY <1>1 DEF ResetRule
<1>3. QED
  BY <1>2, AlikeWrites DEF AllAlike

(* A script without its head keeps to the rules.                            *)
LEMMA TailOf ==
  ASSUME NEW S, NEW s \in Seq(S), s # <<>>
  PROVE  /\ DOMAIN Tail(s) = 1 .. Len(s) - 1 /\ DOMAIN s = 1 .. Len(s) /\ Len(s) \in Nat
         /\ 1 \in DOMAIN s /\ Len(s) >= 1
         /\ \A i \in DOMAIN Tail(s) : i + 1 \in DOMAIN s /\ i \in Nat /\ Tail(s)[i] = s[i + 1]
         /\ \A i \in DOMAIN s : i # 1 => i - 1 \in DOMAIN Tail(s) /\ Tail(s)[i - 1] = s[i]
BY HeadAndTail, LenProperties

(* The writes that are left.                                                *)
LEMMA TailPending ==
  ASSUME NEW S, NEW s \in Seq(S), s # <<>>, NEW k, NEW a
  PROVE  /\ Pending(Tail(s), k, a) => Pending(s, k, a)
         /\ Pending(s, k, a) => Pending(Tail(s), k, a) \/ Writes(s[1], k, a)
BY TailOf DEF Pending

(* The rule of the left volumes.                                            *)
LEMMA TailLeft ==
  ASSUME NEW S, NEW s \in Seq(S), s # <<>>, NEW k, NEW q, LeftRule(s, k, q)
  PROVE  LeftRule(Tail(s), k, q)
<1> DEFINE t == Tail(s)
<1> SUFFICES ASSUME NEW i \in DOMAIN t, NEW ch \in Channels, Writes(t[i], k, LeftOf(ch))
    PROVE  /\ t[i].data = q[ch][1] /\ Update \notin t[i].data
           /\ i + 1 \in DOMAIN t /\ Writes(t[i + 1], k, RightOf(ch))
  BY DEF LeftRule
<1>1. i + 1 \in DOMAIN s /\ t[i] = s[i + 1] /\ i \in Nat
  BY TailOf
<1>2. t[i].data = q[ch][1] /\ Update \notin t[i].data
      /\ (i + 1) + 1 \in DOMAIN s /\ Writes(s[(i + 1) + 1], k, RightOf(ch))
  BY <1>1 DEF LeftRule
<1>3. i + 1 \in DOMAIN t /\ t[i + 1] = s[(i + 1) + 1]
  BY <1>1, <1>2, TailOf
<1>4. QED
  BY <1>2, <1>3

(* The rule of the right ones.                                              *)
LEMMA TailRight ==
  ASSUME NEW S, NEW s \in Seq(S), s # <<>>, NEW k, NEW q, RightRule(s, k, q)
  PROVE  RightRule(Tail(s), k, q)
<1> DEFINE t == Tail(s)
<1> SUFFICES ASSUME NEW i \in DOMAIN t, NEW ch \in Channels, Writes(t[i], k, RightOf(ch))
    PROVE  /\ t[i].data \ {Update} = q[ch][2] /\ Update \in t[i].data
           /\ \A j \in DOMAIN t : j > i => ~Writes(t[j], k, LeftOf(ch))
  BY DEF RightRule
<1>1. i + 1 \in DOMAIN s /\ t[i] = s[i + 1] /\ i \in Nat
  BY TailOf
<1>2. t[i].data \ {Update} = q[ch][2] /\ Update \in t[i].data
      /\ \A j \in DOMAIN s : j > i + 1 => ~Writes(s[j], k, LeftOf(ch))
  BY <1>1 DEF RightRule
<1>3. ASSUME NEW j \in DOMAIN t, j > i PROVE ~Writes(t[j], k, LeftOf(ch))
  <2>1. j + 1 \in DOMAIN s /\ t[j] = s[j + 1] /\ j \in Nat
    BY TailOf
  <2>2. j + 1 > i + 1
    BY <1>1, <1>3, <2>1
  <2>3. QED
    BY <1>2, <2>1, <2>2
<1>4. QED
  BY <1>2, <1>3

(* The rule of the reset.                                                   *)
LEMMA TailReset ==
  ASSUME NEW S, NEW s \in Seq(S), s # <<>>, NEW k, ResetRule(s, k) PROVE ResetRule(Tail(s), k)
<1> DEFINE t == Tail(s)
<1> SUFFICES ASSUME NEW i \in DOMAIN t, Writes(t[i], k, CodecReset), NEW a \in 0 .. 10
    PROVE  \E j \in DOMAIN t : j > i /\ Writes(t[j], k, a)
  BY DEF ResetRule
<1>1. i + 1 \in DOMAIN s /\ t[i] = s[i + 1] /\ i \in Nat
  BY TailOf
<1>2. PICK j \in DOMAIN s : j > i + 1 /\ Writes(s[j], k, a)
  BY <1>1 DEF ResetRule
<1>3. j \in Nat /\ j # 1 /\ j - 1 > i
  BY <1>1, <1>2, TailOf
<1>4. j - 1 \in DOMAIN t /\ t[j - 1] = s[j]
  BY <1>3, TailOf
<1>5. QED
  BY <1>2, <1>3, <1>4

(* A script without writes to a codec keeps to all of them.                 *)
LEMMA UnwrittenRules ==
  ASSUME NEW s, NEW k, Unwritten(s, k), NEW q
  PROVE  /\ LeftRule(s, k, q) /\ RightRule(s, k, q) /\ ResetRule(s, k)
         /\ \A a : ~Pending(s, k, a)
<1>1. \A i \in DOMAIN s : \A a : ~Writes(s[i], k, a)
  BY DEF Unwritten, Writes
<1>2. QED
  BY <1>1 DEF LeftRule, RightRule, ResetRule, Pending

(* A pair is known by its two sides.                                        *)
LEMMA PairEqual ==
  ASSUME NEW x \in SidePairs, NEW y \in SidePairs, x[1] = y[1], x[2] = y[2] PROVE x = y
<1>1. x \in [1 .. 2 -> RegData] /\ y \in [1 .. 2 -> RegData]
  BY DEF SidePairs
<1>2. \A i \in 1 .. 2 : x[i] = y[i]
  OBVIOUS
<1>3. QED
  BY <1>1, <1>2

(* The two of a channel.                                                    *)
LEMMA ChannelPair ==
  ASSUME NEW v \in Volumes3, NEW ch \in Channels PROVE v[ch] \in SidePairs
BY DEF Volumes3

(* A codec and its parts.                                                   *)
LEMMA ChipParts ==
  ASSUME NEW chip \in Chips
  PROVE  chip.regs \in Caches /\ chip.applied \in Volumes3 /\ chip.held \in Volumes3
BY DEF Chips

(* The volume that is held back for a side after a write.                   *)
LEMMA HeldSide ==
  ASSUME NEW h, NEW a, NEW v, NEW ch \in Channels
  PROVE  /\ LeftOf(ch) = a => Held(h, a, v)[ch][1] = v \ {Update}
         /\ LeftOf(ch) # a => Held(h, a, v)[ch][1] = h[ch][1]
         /\ RightOf(ch) = a => Held(h, a, v)[ch][2] = v \ {Update}
         /\ RightOf(ch) # a => Held(h, a, v)[ch][2] = h[ch][2]
BY DEF Held, LeftOf, RightOf

(* The codec after the write of a register.                                 *)
LEMMA WrittenParts ==
  ASSUME NEW chip \in Chips, NEW a \in CodecRegs, NEW v \in RegData, NEW after,
         after = Written(chip, a, v)
  PROVE  /\ after \in Chips
         /\ after.regs = [chip.regs EXCEPT ![a] = v] /\ after.held = Held(chip.held, a, v)
         /\ Update \notin v => after.applied = chip.applied
         /\ (\A ch \in Channels : LeftOf(ch) # a /\ RightOf(ch) # a) => after.applied = chip.applied
         /\ Update \in v /\ (\E ch \in Channels : RightOf(ch) = a) => after.applied = after.held
<1> DEFINE held == Held(chip.held, a, v)
           volume == \E ch \in Channels, side \in 1 .. 2 : VolumeRegs[ch][side] = a
           applied == IF volume /\ Update \in v THEN held ELSE chip.applied
           rs == [chip.regs EXCEPT ![a] = v]
<1>1. after = [regs |-> rs, held |-> held, applied |-> applied]
  BY WrittenReg
<1>2. v \subseteq 0 .. 8
  BY DEF RegData
<1>3. after \in Chips
  BY <1>2, WrittenChip
<1>4. volume => \E ch \in Channels : LeftOf(ch) = a \/ RightOf(ch) = a
  <2>1. \A side \in 1 .. 2 : side = 1 \/ side = 2
    OBVIOUS
  <2>2. QED
    BY <2>1 DEF LeftOf, RightOf
<1>5. ASSUME NEW ch \in Channels, RightOf(ch) = a PROVE volume
  <2>1. 2 \in 1 .. 2
    OBVIOUS
  <2>2. QED
    BY <1>5, <2>1 DEF RightOf
<1> HIDE DEF held, volume, rs
<1>6. /\ Update \notin v => applied = chip.applied
      /\ ~volume => applied = chip.applied
      /\ Update \in v /\ volume => applied = held
  OBVIOUS
<1>7. after.regs = rs /\ after.held = held /\ after.applied = applied
  BY <1>1
<1>8. QED
  BY <1>3, <1>4, <1>5, <1>6, <1>7 DEF rs, held

(* What a side, a register is after it.                                     *)
LEMMA WrittenSides ==
  ASSUME NEW chip \in Chips, NEW a \in CodecRegs, NEW v \in RegData, NEW after,
         after = Written(chip, a, v)
  PROVE  /\ \A b \in CodecRegs : after.regs[b] = IF b = a THEN v ELSE chip.regs[b]
         /\ \A ch \in Channels :
              /\ LeftOf(ch) = a => after.held[ch][1] = v \ {Update}
              /\ LeftOf(ch) # a => after.held[ch][1] = chip.held[ch][1]
              /\ RightOf(ch) = a => after.held[ch][2] = v \ {Update}
              /\ RightOf(ch) # a => after.held[ch][2] = chip.held[ch][2]
<1>1. after.regs = [chip.regs EXCEPT ![a] = v] /\ after.held = Held(chip.held, a, v)
  BY WrittenParts
<1>2. chip.regs \in [CodecRegs -> RegData]
  BY ChipParts DEF Caches
<1>3. \A b \in CodecRegs : after.regs[b] = IF b = a THEN v ELSE chip.regs[b]
  BY <1>1, <1>2
<1>4. QED
  BY <1>1, <1>3, HeldSide

(* A channel that is not written to keeps what is held back for it.         *)
LEMMA HeldKept ==
  ASSUME NEW chip \in Chips, NEW a \in CodecRegs, NEW v \in RegData, NEW after,
         after = Written(chip, a, v), NEW ch \in Channels, LeftOf(ch) # a, RightOf(ch) # a
  PROVE  after.held[ch] = chip.held[ch]
<1>1. after \in Chips
  BY WrittenParts
<1>2. after.held[ch] \in SidePairs /\ chip.held[ch] \in SidePairs
  BY <1>1, ChipParts, ChannelPair
<1>3. after.held[ch][1] = chip.held[ch][1] /\ after.held[ch][2] = chip.held[ch][2]
  BY WrittenSides
<1>4. QED
  BY <1>2, <1>3, PairEqual

(* Scripts that write the same, the cache of which has taken what is to be  *)
(* written.                                                                 *)
LEMMA ToldAlike ==
  ASSUME NEW s, NEW t, AllAlike(s, t), NEW k, NEW m, NEW n, NEW chip, NEW q,
         \A b \in CodecRegs : n[b] = m[b] \/ Pending(s, k, b), Told(s, k, m, chip, q),
         s # <<>>, t # <<>>, 1 \in DOMAIN s
  PROVE  Told(t, k, n, chip, q)
<1>1. \A a : Pending(s, k, a) <=> Pending(t, k, a)
  BY AlikePending
<1>2. LeftRule(t, k, q) /\ RightRule(t, k, q) /\ ResetRule(t, k)
  BY AlikeLeft, AlikeRight, AlikeReset DEF Told
<1>3. RegsAgree(t, k, n, chip)
  <2>1. ASSUME NEW a \in 0 .. 10 PROVE a \in CodecRegs
    BY DEF CodecRegs
  <2>2. QED
    BY <1>1, <2>1 DEF Told, RegsAgree
<1>4. \A ch \in Channels : LeftOf(ch) \in CodecRegs /\ RightOf(ch) \in CodecRegs
  BY VolumeAddrs DEF CodecRegs
<1>5. LeftAgrees(t, k, n, chip, q)
  BY <1>1, <1>4 DEF Told, LeftAgrees
<1>6. RightAgrees(t, k, n, chip, q)
  BY <1>1, <1>4 DEF Told, RightAgrees
<1>7. HeldTogether(t, k, chip, q)
  BY AlikeWrites DEF Told, HeldTogether, AllAlike
<1>8. QED
  BY <1>2, <1>3, <1>5, <1>6, <1>7 DEF Told

(* The head does not write to the codec.                                    *)
LEMMA ToldTail ==
  ASSUME NEW S, NEW s \in Seq(S), s # <<>>, NEW k, ~WritesTo(s[1], k), NEW m, NEW chip, NEW q,
         Told(s, k, m, chip, q)
  PROVE  Told(Tail(s), k, m, chip, q)
<1> DEFINE t == Tail(s)
<1>1. \A a : ~Writes(s[1], k, a)
  BY DEF Writes
<1>2. \A a : Pending(s, k, a) <=> Pending(t, k, a)
  BY <1>1, TailPending
<1>3. LeftRule(t, k, q) /\ RightRule(t, k, q) /\ ResetRule(t, k)
  BY TailLeft, TailRight, TailReset DEF Told
<1> HIDE DEF t
<1>4. RegsAgree(t, k, m, chip) /\ LeftAgrees(t, k, m, chip, q) /\ RightAgrees(t, k, m, chip, q)
  BY <1>2 DEF Told, RegsAgree, LeftAgrees, RightAgrees
<1>5. HeldTogether(t, k, chip, q)
  BY <1>1 DEF Told, HeldTogether
<1>6. QED
  BY <1>3, <1>4, <1>5 DEF Told, t

(* Neither of two scripts writes to it.                                     *)
LEMMA ToldUnwritten ==
  ASSUME NEW s, NEW t, NEW k, Unwritten(s, k), Unwritten(t, k), s = <<>> \/ 1 \in DOMAIN s,
         NEW m, NEW chip, NEW q, Told(s, k, m, chip, q)
  PROVE  Told(t, k, m, chip, q)
<1>1. \A a : ~Pending(s, k, a) /\ ~Pending(t, k, a)
  BY UnwrittenRules
<1>2. LeftRule(t, k, q) /\ RightRule(t, k, q) /\ ResetRule(t, k)
  BY UnwrittenRules
<1>3. RegsAgree(t, k, m, chip) /\ LeftAgrees(t, k, m, chip, q) /\ RightAgrees(t, k, m, chip, q)
  BY <1>1 DEF Told, RegsAgree, LeftAgrees, RightAgrees
<1>4. HeldTogether(t, k, chip, q)
  BY DEF Told, HeldTogether, Unwritten, Writes
<1>5. QED
  BY <1>2, <1>3, <1>4 DEF Told

(* What a write does to the volumes that are heard.                         *)
Heard(chip, after, q) ==
  \A ch \in Channels : after.applied[ch] \in {chip.applied[ch], PowerOn.applied[ch], q[ch]}

(* A write that comes to its end is no longer pending; the others are.      *)
LEMMA PendingOn ==
  ASSUME NEW S, NEW s \in Seq(S), s # <<>>, NEW k, NEW a, Writes(s[1], k, a), NEW t, t = Tail(s),
         NEW b, b # a, Pending(s, k, b)
  PROVE  Pending(t, k, b)
<1>1. ~Writes(s[1], k, b)
  BY OneAddress
<1>2. QED
  BY <1>1, TailPending

(* What is heard after a write without the update bit.                      *)
LEMMA HeardSame ==
  ASSUME NEW chip \in Chips, NEW a \in CodecRegs, NEW v \in RegData, Update \notin v, NEW after,
         after = Written(chip, a, v)
  PROVE  after.applied = chip.applied
<1> DEFINE held == Held(chip.held, a, v)
           rs == [chip.regs EXCEPT ![a] = v]
           volume == \E ch \in Channels, side \in 1 .. 2 : VolumeRegs[ch][side] = a
<1>1. after = [regs |-> rs, held |-> held,
               applied |-> IF volume /\ Update \in v THEN held ELSE chip.applied]
  BY WrittenReg
<1> HIDE DEF held, rs, volume
<1>2. QED
  BY <1>1

(* Of a register that is no volume.                                         *)
LEMMA HeardPlain ==
  ASSUME NEW chip \in Chips, NEW a \in CodecRegs, NEW v \in RegData, NEW after,
         after = Written(chip, a, v), \A ch \in Channels : LeftOf(ch) # a /\ RightOf(ch) # a
  PROVE  after.applied = chip.applied
<1> DEFINE held == Held(chip.held, a, v)
           rs == [chip.regs EXCEPT ![a] = v]
           volume == \E ch \in Channels, side \in 1 .. 2 : VolumeRegs[ch][side] = a
<1>1. after = [regs |-> rs, held |-> held,
               applied |-> IF volume /\ Update \in v THEN held ELSE chip.applied]
  BY WrittenReg
<1>2. ~volume
  <2>1. \A side \in 1 .. 2 : side = 1 \/ side = 2
    OBVIOUS
  <2>2. QED
    BY <2>1 DEF LeftOf, RightOf
<1> HIDE DEF held, rs, volume
<1>3. QED
  BY <1>1, <1>2

(* Of the right volume of a channel.                                        *)
LEMMA HeardNow ==
  ASSUME NEW chip \in Chips, NEW a \in CodecRegs, NEW v \in RegData, NEW after, Update \in v,
         after = Written(chip, a, v), NEW c \in Channels, RightOf(c) = a
  PROVE  after.applied = after.held
<1> DEFINE held == Held(chip.held, a, v)
           rs == [chip.regs EXCEPT ![a] = v]
           volume == \E ch \in Channels, side \in 1 .. 2 : VolumeRegs[ch][side] = a
<1>1. after = [regs |-> rs, held |-> held,
               applied |-> IF volume /\ Update \in v THEN held ELSE chip.applied]
  BY WrittenReg
<1>2. volume
  <2>1. 2 \in 1 .. 2
    OBVIOUS
  <2>2. QED
    BY <2>1 DEF RightOf
<1> HIDE DEF held, rs, volume
<1>3. QED
  BY <1>1, <1>2

(* The registers agree after it.                                            *)
LEMMA RegsAfter ==
  ASSUME NEW S, NEW s \in Seq(S), s # <<>>, NEW k, NEW a \in CodecRegs, Writes(s[1], k, a),
         NEW m, NEW chip \in Chips, NEW d \in RegData, m[a] = d, NEW after,
         after = Written(chip, a, d), RegsAgree(s, k, m, chip)
  PROVE  RegsAgree(Tail(s), k, m, after)
<1> SUFFICES ASSUME NEW b \in 0 .. 10, ~Pending(Tail(s), k, b) PROVE after.regs[b] = m[b]
  BY DEF RegsAgree
<1>1. b \in CodecRegs
  BY DEF CodecRegs
<1>2. CASE b = a
  BY <1>1, <1>2, WrittenSides
<1>3. CASE b # a
  <2>1. ~Pending(s, k, b)
    <3>1. ASSUME Pending(s, k, b) PROVE FALSE
      BY <1>3, <3>1, PendingOn
    <3>2. QED
      BY <3>1
  <2>2. chip.regs[b] = m[b]
    BY <2>1 DEF RegsAgree
  <2>3. QED
    BY <1>1, <1>3, <2>2, WrittenSides
<1>4. QED
  BY <1>2, <1>3

(* A reset: all is still to be written.                                     *)
LEMMA ToldReset ==
  ASSUME NEW S, NEW s \in Seq(S), s # <<>>, NEW k, Writes(s[1], k, CodecReset), NEW m,
         NEW chip, NEW q, Told(s, k, m, chip, q)
  PROVE  Told(Tail(s), k, m, PowerOn, q)
<1> DEFINE t == Tail(s)
<1>1. LeftRule(t, k, q) /\ RightRule(t, k, q) /\ ResetRule(t, k)
  BY TailLeft, TailRight, TailReset DEF Told
<1>2. ASSUME NEW a \in 0 .. 10 PROVE Pending(t, k, a)
  <2>1. \E j \in DOMAIN s : j > 1 /\ Writes(s[j], k, a)
    BY TailOf DEF Told, ResetRule
  <2>2. QED
    BY <2>1, TailOf DEF Pending
<1>3. \A ch \in Channels : LeftOf(ch) \in 0 .. 10 /\ RightOf(ch) \in 0 .. 10
  BY VolumeAddrs
<1>4. RegsAgree(t, k, m, PowerOn) /\ LeftAgrees(t, k, m, PowerOn, q)
      /\ RightAgrees(t, k, m, PowerOn, q)
  BY <1>2, <1>3 DEF RegsAgree, LeftAgrees, RightAgrees
<1>5. HeldTogether(t, k, PowerOn, q)
  BY DEF HeldTogether, Balanced, PowerOn
<1>6. QED
  BY <1>1, <1>4, <1>5 DEF Told

(* A register that is no volume.                                            *)
LEMMA ToldPlain ==
  ASSUME NEW S, NEW s \in Seq(S), s # <<>>, NEW k, NEW a \in CodecRegs, Writes(s[1], k, a),
         NEW m, NEW chip \in Chips, NEW q, NEW d \in RegData, m[a] = d, NEW after,
         after = Written(chip, a, d), \A ch \in Channels : LeftOf(ch) # a /\ RightOf(ch) # a,
         Told(s, k, m, chip, q)
  PROVE  Told(Tail(s), k, m, after, q) /\ Heard(chip, after, q)
<1> DEFINE t == Tail(s)
<1>1. LeftRule(t, k, q) /\ RightRule(t, k, q) /\ ResetRule(t, k)
  BY TailLeft, TailRight, TailReset DEF Told
<1>2. RegsAgree(t, k, m, after)
  BY RegsAfter DEF Told
<1>3. after.applied = chip.applied /\ \A ch \in Channels : after.held[ch] = chip.held[ch]
  BY HeardPlain, HeldKept
<1>10. ASSUME NEW b, b # a, Pending(s, k, b) PROVE Pending(t, k, b)
  BY <1>10, PendingOn
<1>4. \A ch \in Channels : /\ Pending(s, k, LeftOf(ch)) => Pending(t, k, LeftOf(ch))
                           /\ Pending(s, k, RightOf(ch)) => Pending(t, k, RightOf(ch))
  BY <1>10
<1> HIDE DEF t
<1>5. LeftAgrees(t, k, m, after, q)
  BY <1>3, <1>4 DEF Told, LeftAgrees
<1>6. RightAgrees(t, k, m, after, q)
  BY <1>3, <1>4 DEF Told, RightAgrees
<1>7. HeldTogether(t, k, after, q)
  BY <1>3, OneAddress DEF Told, HeldTogether, Balanced
<1>8. Heard(chip, after, q)
  BY <1>3 DEF Heard
<1>9. QED
  BY <1>1, <1>2, <1>5, <1>6, <1>7, <1>8 DEF Told, t

(* The left volume of a channel: held back until the right one comes.       *)
LEMMA ToldLeft ==
  ASSUME NEW S, NEW s \in Seq(S), s # <<>>, NEW k, NEW c \in Channels, Writes(s[1], k, LeftOf(c)),
         NEW m, NEW chip \in Chips, NEW q, NEW d \in RegData, m[LeftOf(c)] = d, d = s[1].data,
         NEW after, after = Written(chip, LeftOf(c), d), Told(s, k, m, chip, q)
  PROVE  Told(Tail(s), k, m, after, q) /\ Heard(chip, after, q)
<1> DEFINE t == Tail(s)
           a == LeftOf(c)
<1>0. a \in CodecRegs /\ \A ch \in Channels : RightOf(ch) # a /\ (ch # c => LeftOf(ch) # a)
  BY VolumeAddrs DEF CodecRegs
<1>1. LeftRule(t, k, q) /\ RightRule(t, k, q) /\ ResetRule(t, k)
  BY TailLeft, TailRight, TailReset DEF Told
<1>2. RegsAgree(t, k, m, after)
  BY <1>0, RegsAfter DEF Told
<1>3. d = q[c][1] /\ Update \notin d /\ 2 \in DOMAIN s /\ Writes(s[2], k, RightOf(c))
  <2>1. 1 \in DOMAIN s
    BY TailOf
  <2>2. QED
    BY <2>1 DEF Told, LeftRule
<1>4. t # <<>> /\ Writes(t[1], k, RightOf(c)) /\ Pending(t, k, RightOf(c))
  <2>1. 1 \in DOMAIN t /\ t[1] = s[2]
    BY <1>3, TailOf
  <2>2. DOMAIN << >> = {}
    OBVIOUS
  <2> HIDE DEF t
  <2>4. t # <<>>
    BY <2>1, <2>2
  <2>3. QED
    BY <1>3, <2>1, <2>4 DEF Pending
<1>5. after.applied = chip.applied
  BY <1>0, <1>3, HeardSame
<1>6. \A ch \in Channels : ch # c => after.held[ch] = chip.held[ch]
  BY <1>0, HeldKept
<1>7. after.held[c][1] = q[c][1]
  <2>1. after.held[c][1] = d \ {Update}
    BY <1>0, WrittenSides
  <2>2. QED
    BY <1>3, <2>1
<1>8. \A ch \in Channels : ch # c =>
        /\ Pending(s, k, LeftOf(ch)) => Pending(t, k, LeftOf(ch))
        /\ Pending(s, k, RightOf(ch)) => Pending(t, k, RightOf(ch))
  <2>1. ASSUME NEW b, b # a, Pending(s, k, b) PROVE Pending(t, k, b)
    BY <2>1, PendingOn
  <2> HIDE DEF a, t
  <2>2. QED
    BY <1>0, <2>1
<1> HIDE DEF t, a
<1>9. LeftAgrees(t, k, m, after, q)
  BY <1>3, <1>6, <1>7, <1>8 DEF Told, LeftAgrees
<1>10. RightAgrees(t, k, m, after, q)
  BY <1>4, <1>5, <1>6, <1>8 DEF Told, RightAgrees
<1>11. HeldTogether(t, k, after, q)
  <2>1. \A ch \in Channels : ~Writes(s[1], k, RightOf(ch))
    BY <1>0, OneAddress DEF a
  <2>2. QED
    BY <1>4, <1>5, <1>6, <2>1 DEF Told, HeldTogether, Balanced
<1>12. Heard(chip, after, q)
  BY <1>5 DEF Heard
<1>13. QED
  BY <1>1, <1>2, <1>9, <1>10, <1>11, <1>12 DEF Told, t

(* The right volume: what is held back is heard, on all channels.           *)
LEMMA ToldRight ==
  ASSUME NEW S, NEW s \in Seq(S), s # <<>>, NEW k, NEW c \in Channels, Writes(s[1], k, RightOf(c)),
         NEW m, NEW chip \in Chips, NEW q \in Volumes3, NEW d \in RegData, m[RightOf(c)] = d,
         d = s[1].data, NEW after, after = Written(chip, RightOf(c), d), Told(s, k, m, chip, q)
  PROVE  Told(Tail(s), k, m, after, q) /\ Heard(chip, after, q)
<1> DEFINE t == Tail(s)
           a == RightOf(c)
<1>0. a \in CodecRegs /\ \A ch \in Channels : LeftOf(ch) # a /\ (ch # c => RightOf(ch) # a)
  BY VolumeAddrs DEF CodecRegs
<1>1. LeftRule(t, k, q) /\ RightRule(t, k, q) /\ ResetRule(t, k)
  BY TailLeft, TailRight, TailReset DEF Told
<1>2. RegsAgree(t, k, m, after)
  BY <1>0, RegsAfter DEF Told
<1>14. 1 \in DOMAIN s
  BY TailOf
<1>3. /\ d \ {Update} = q[c][2] /\ Update \in d
      /\ \A j \in DOMAIN s : j > 1 => ~Writes(s[j], k, LeftOf(c))
  BY <1>14 DEF Told, RightRule
<1>4. ~Pending(s, k, LeftOf(c))
  <2>1. \A j \in DOMAIN s : j = 1 \/ j > 1
    BY TailOf
  <2>2. ~Writes(s[1], k, LeftOf(c))
    BY <1>0, OneAddress
  <2>3. QED
    BY <1>3, <2>1, <2>2 DEF Pending
<1>5. after.applied = after.held /\ after \in Chips
  <2>1. after.applied = after.held
    BY <1>0, <1>3, HeardNow
  <2>2. d \subseteq 0 .. 8
    BY DEF RegData
  <2>3. QED
    BY <2>1, <2>2, WrittenChip
<1>6. \A ch \in Channels : ch # c => after.held[ch] = chip.held[ch]
  BY <1>0, HeldKept
<1>7. after.held[c] = q[c]
  <2>1. after.held[c][1] = chip.held[c][1] /\ after.held[c][2] = d \ {Update}
    BY <1>0, WrittenSides
  <2>2. chip.held[c][1] = q[c][1]
    BY <1>4 DEF Told, LeftAgrees
  <2>3. after.held[c] \in SidePairs /\ q[c] \in SidePairs
    BY <1>5, ChipParts, ChannelPair
  <2>4. QED
    BY <1>3, <2>1, <2>2, <2>3, PairEqual
<1>8. \A ch \in Channels : ch # c =>
        /\ Pending(s, k, LeftOf(ch)) => Pending(t, k, LeftOf(ch))
        /\ Pending(s, k, RightOf(ch)) => Pending(t, k, RightOf(ch))
  <2>1. ASSUME NEW b, b # a, Pending(s, k, b) PROVE Pending(t, k, b)
    BY <2>1, PendingOn
  <2> HIDE DEF a, t
  <2>2. QED
    BY <1>0, <2>1
<1>9. ASSUME NEW ch \in Channels, ~Pending(s, k, RightOf(ch)) PROVE chip.held[ch] = q[ch]
  <2>1. chip.held[ch][2] = q[ch][2]
    BY <1>9 DEF Told, RightAgrees
  <2>2. ~Pending(s, k, LeftOf(ch))
    BY <1>9 DEF Told, LeftRule, Pending
  <2>3. chip.held[ch][1] = q[ch][1]
    BY <2>2 DEF Told, LeftAgrees
  <2>4. chip.held[ch] \in SidePairs /\ q[ch] \in SidePairs
    BY ChipParts, ChannelPair
  <2>5. QED
    BY <2>1, <2>3, <2>4, PairEqual
<1>10. ASSUME NEW ch \in Channels, ch # c
       PROVE  chip.held[ch] \in {q[ch], chip.applied[ch], PowerOn.applied[ch]}
  <2>1. ~Writes(s[1], k, RightOf(ch))
    BY <1>0, <1>10, OneAddress
  <2>2. QED
    BY <2>1 DEF Told, HeldTogether, Balanced
<1> HIDE DEF t, a
<1>11. LeftAgrees(t, k, m, after, q)
  <2>1. ASSUME NEW ch \in Channels, ~Pending(t, k, LeftOf(ch))
        PROVE  m[LeftOf(ch)] = q[ch][1] /\ Update \notin q[ch][1] /\ after.held[ch][1] = q[ch][1]
    <3>1. ~Pending(s, k, LeftOf(ch))
      BY <1>4, <1>8, <2>1
    <3>2. m[LeftOf(ch)] = q[ch][1] /\ Update \notin q[ch][1] /\ chip.held[ch][1] = q[ch][1]
      BY <3>1 DEF Told, LeftAgrees
    <3>3. QED
      BY <1>6, <1>7, <3>2
  <2>2. QED
    BY <2>1 DEF LeftAgrees
<1>12. RightAgrees(t, k, m, after, q)
  <2>1. ASSUME NEW ch \in Channels, ~Pending(t, k, RightOf(ch))
        PROVE  /\ m[RightOf(ch)] \ {Update} = q[ch][2] /\ Update \in m[RightOf(ch)]
               /\ after.held[ch] = q[ch]
    <3>1. CASE ch = c
      BY <1>3, <1>7, <3>1
    <3>2. CASE ch # c
      <4>1. ~Pending(s, k, RightOf(ch))
        BY <1>8, <2>1, <3>2
      <4>2. m[RightOf(ch)] \ {Update} = q[ch][2] /\ Update \in m[RightOf(ch)]
        BY <4>1 DEF Told, RightAgrees
      <4>3. QED
        BY <1>6, <1>9, <3>2, <4>1, <4>2
    <3>3. QED
      BY <3>1, <3>2
  <2>2. QED
    BY <1>5, <2>1 DEF RightAgrees
<1>13. HeldTogether(t, k, after, q)
  BY <1>5 DEF HeldTogether, Balanced
<1>15. Heard(chip, after, q)
  BY <1>5, <1>6, <1>7, <1>10 DEF Heard
<1>16. QED
  BY <1>1, <1>2, <1>11, <1>12, <1>13, <1>15 DEF Told, t

(* The write of any register.                                               *)
LEMMA ToldWritten ==
  ASSUME NEW S, NEW s \in Seq(S), s # <<>>, NEW k, NEW a \in WriteAddrs, Writes(s[1], k, a),
         NEW m, NEW chip \in Chips, NEW q \in Volumes3, NEW d \in RegData,
         a \in CodecRegs => m[a] = d, d = s[1].data, Told(s, k, m, chip, q)
  PROVE  Told(Tail(s), k, m, Written(chip, a, d), q) /\ Heard(chip, Written(chip, a, d), q)
<1>1. CASE a = CodecReset
  <2>1. Written(chip, a, d) = PowerOn
    BY <1>1, WrittenReset
  <2>2. Told(Tail(s), k, m, PowerOn, q)
    BY <1>1, ToldReset
  <2>3. QED
    BY <2>1, <2>2 DEF Heard
<1>2. CASE a \in CodecRegs
  <2> DEFINE after == Written(chip, a, d)
  <2>0. after = Written(chip, a, d) /\ m[a] = d
    BY <1>2
  <2> HIDE DEF after
  <2>1. CASE \E c \in Channels : a = LeftOf(c)
    <3>1. PICK c \in Channels : a = LeftOf(c)
      BY <2>1
    <3>2. Told(Tail(s), k, m, after, q) /\ Heard(chip, after, q)
      BY <2>0, <3>1, ToldLeft
    <3>3. QED
      BY <2>0, <3>2
  <2>2. CASE \E c \in Channels : a = RightOf(c)
    <3>1. PICK c \in Channels : a = RightOf(c)
      BY <2>2
    <3>2. Told(Tail(s), k, m, after, q) /\ Heard(chip, after, q)
      BY <2>0, <3>1, ToldRight
    <3>3. QED
      BY <2>0, <3>2
  <2>3. CASE \A c \in Channels : LeftOf(c) # a /\ RightOf(c) # a
    <3>1. Told(Tail(s), k, m, after, q) /\ Heard(chip, after, q)
      BY <1>2, <2>0, <2>3, ToldPlain
    <3>2. QED
      BY <2>0, <3>1
  <2>4. QED
    BY <2>1, <2>2, <2>3
<1>3. QED
  BY <1>1, <1>2 DEF WriteAddrs

-----------------------------------------------------------------------------
(* The frames.                                                              *)

(* A pad after an access to one of them.                                    *)
LEMMA PadPut ==
  ASSUME NEW pin \in 0 .. 15, NEW v \in {{}, {0}}, NEW w, NEW b \in 0 .. 15
  PROVE  /\ b # pin => (b \in Changed(PadOut(pin, v), w) <=> b \in w)
         /\ b = pin => (b \in Changed(PadOut(pin, v), w) <=> v = {0})
<1> DEFINE op == PadOut(pin, v)
<1>1. op.op = "out" /\ op.field.lo = pin /\ op.field.width = 1 /\ op.value = v
  BY DEF PadOut, Field
<1> HIDE DEF op
<1>2. Changed(op, w) = InsertAll(w, op.field, op.value) \cup 16 .. 31
  BY <1>1, ChangedOut
<1>3. FieldBits(op.field) = {pin}
  BY <1>1 DEF FieldBits
<1>4. Shifted(v, pin) = IF v = {0} THEN {pin} ELSE {}
  BY DEF Shifted
<1>5. Changed(op, w) = (w \ {pin}) \cup Shifted(v, pin) \cup 16 .. 31
  BY <1>1, <1>2, <1>3 DEF InsertAll
<1>6. b \notin 16 .. 31
  OBVIOUS
<1>7. QED
  BY <1>4, <1>5, <1>6 DEF op

(* The pads of the codecs are different ones.                               *)
LEMMA PinsDiffer ==
  ASSUME NEW k \in Codecs
  PROVE  /\ Pins(k).cs \in 0 .. 15 /\ Pins(k).clk \in 0 .. 15 /\ Pins(k).dat \in 0 .. 15
         /\ Pins(k).mode \in 0 .. 15
         /\ Pins(k).cs # Pins(k).clk /\ Pins(k).cs # Pins(k).dat /\ Pins(k).clk # Pins(k).dat
         /\ \A j \in Codecs : Pins(k).mode \notin {Pins(j).cs, Pins(j).clk}
         /\ \A j \in Codecs : j # k =>
              {Pins(k).cs, Pins(k).clk, Pins(k).dat} \cap {Pins(j).cs, Pins(j).clk} = {}
BY PinFacts DEF Codecs

(* The bits that were sent when j of them were, and where the pads and the  *)
(* codec are before the n-th access.                                        *)
Clocked(n) == IF n = 1 THEN 0 ELSE (n - 2) \div 3
Sent(a, d, j) == [i \in 1 .. j |-> 16 - i \in FrameWord(a, d)]
InFrame(k, a, d, n, bits, pads) ==
  /\ n >= 2 => Pins(k).cs \notin pads
  /\ n >= 3 /\ n % 3 # 2 => Pins(k).clk \notin pads
  /\ n >= 4 /\ n % 3 = 1 => (Pins(k).dat \in pads <=> 16 - (n \div 3) \in FrameWord(a, d))
  /\ bits = Sent(a, d, Clocked(n))

(* They are a sequence.                                                     *)
LEMMA SentBits ==
  ASSUME NEW a, NEW d, NEW j \in Nat
  PROVE  /\ Sent(a, d, j) \in Seq(BOOLEAN) /\ Len(Sent(a, d, j)) = j
         /\ \A i \in 1 .. j : Sent(a, d, j)[i] = (16 - i \in FrameWord(a, d))
<1>1. \A i : (16 - i \in FrameWord(a, d)) \in BOOLEAN
  OBVIOUS
<1>2. Sent(a, d, j) \in [1 .. j -> BOOLEAN]
  BY Zenon, <1>1 DEF Sent
<1>3. Sent(a, d, j) \in Seq(BOOLEAN) /\ Len(Sent(a, d, j)) = j
  BY <1>2, FunctionSeq
<1>4. \A i \in 1 .. j : Sent(a, d, j)[i] = (16 - i \in FrameWord(a, d))
  BY Zenon DEF Sent
<1>5. QED
  BY <1>3, <1>4

(* One more bit.                                                            *)
LEMMA SentMore ==
  ASSUME NEW a, NEW d, NEW j \in 1 .. 16, NEW b \in BOOLEAN, b <=> (16 - j \in FrameWord(a, d))
  PROVE  LastSixteen(Append(Sent(a, d, j - 1), b)) = Sent(a, d, j)
<1> DEFINE s == Sent(a, d, j - 1)
           t == Append(s, b)
           u == Sent(a, d, j)
<1>0. j - 1 \in Nat /\ j \in Nat
  OBVIOUS
<1>1. /\ s \in Seq(BOOLEAN) /\ Len(s) = j - 1
      /\ \A i \in 1 .. j - 1 : s[i] = (16 - i \in FrameWord(a, d))
  BY Zenon, <1>0, SentBits
<1>2. /\ u \in Seq(BOOLEAN) /\ Len(u) = j
      /\ \A i \in 1 .. j : u[i] = (16 - i \in FrameWord(a, d))
  BY Zenon, <1>0, SentBits
<1> HIDE DEF s, u
<1>3. t \in Seq(BOOLEAN) /\ Len(t) = j /\ t[j] = b /\ \A i \in 1 .. j - 1 : t[i] = s[i]
  BY <1>1, AppendProperties
<1> HIDE DEF t
<1>4. ASSUME NEW i \in 1 .. j PROVE t[i] = u[i]
  <2>1. CASE i = j
    BY <1>2, <1>3, <2>1
  <2>2. CASE i # j
    <3>1. i \in 1 .. j - 1
      BY <2>2
    <3>2. QED
      BY Zenon, <3>1, <1>1, <1>2, <1>3
  <2>3. QED
    BY <2>1, <2>2
<1>5. t = u
  BY <1>2, <1>3, <1>4, SeqEqual
<1>6. LastSixteen(t) = t
  BY <1>3 DEF LastSixteen
<1>7. QED
  BY <1>5, <1>6 DEF t, u, s

(* The select falls.                                                        *)
LEMMA FrameSelects ==
  ASSUME NEW k \in Codecs, NEW a, NEW d, NEW c, NEW old, NEW new,
         InFrame(k, a, d, 1, c.bits, old), new = Changed(Frame(k, a, d, 1), old)
  PROVE  /\ Watch(c, Pins(k), old, new) = c
         /\ InFrame(k, a, d, 2, c.bits, new)
<1>1. new = Changed(PadOut(Pins(k).cs, {}), old)
  BY FrameFirst
<1>2. Pins(k).cs \notin new /\ (Pins(k).clk \in new <=> Pins(k).clk \in old)
  BY <1>1, PinsDiffer, PadPut
<1>3. Watch(c, Pins(k), old, new) = c
  BY <1>2, WatchElse DEF Rises
<1>4. Clocked(1) = 0 /\ Clocked(2) = 0
  BY DEF Clocked
<1>5. QED
  BY <1>2, <1>3, <1>4 DEF InFrame

(* The clock falls.                                                         *)
LEMMA FrameFalls ==
  ASSUME NEW k \in Codecs, NEW a, NEW d, NEW n \in 2 .. 50, n % 3 = 2, NEW c, NEW old, NEW new,
         InFrame(k, a, d, n, c.bits, old), new = Changed(Frame(k, a, d, n), old)
  PROVE  /\ Watch(c, Pins(k), old, new) = c
         /\ InFrame(k, a, d, n + 1, c.bits, new)
<1>1. new = Changed(PadOut(Pins(k).clk, {}), old)
  BY FrameFall
<1>2. Pins(k).clk \notin new /\ (Pins(k).cs \in new <=> Pins(k).cs \in old)
  BY <1>1, PinsDiffer, PadPut
<1>3. Watch(c, Pins(k), old, new) = c
  BY <1>2, WatchElse DEF Rises
<1>4. Clocked(n) = Clocked(n + 1) /\ (n + 1) % 3 = 0 /\ n + 1 >= 2 /\ n >= 2
  BY DEF Clocked
<1>5. QED
  BY <1>2, <1>3, <1>4 DEF InFrame

(* The data pin follows the bit.                                            *)
LEMMA FrameFollows ==
  ASSUME NEW k \in Codecs, NEW a, NEW d, NEW n \in 2 .. 50, n % 3 = 0, NEW c, NEW old, NEW new,
         InFrame(k, a, d, n, c.bits, old), new = Changed(Frame(k, a, d, n), old)
  PROVE  /\ Watch(c, Pins(k), old, new) = c
         /\ InFrame(k, a, d, n + 1, c.bits, new)
<1> DEFINE fw == FrameWord(a, d)
           v == IF 16 - (n \div 3) \in fw THEN {0} ELSE {}
<1>1. new = Changed(PadOut(Pins(k).dat, v), old)
  BY FrameBit DEF BitOut
<1>2. /\ Pins(k).dat \in new <=> 16 - (n \div 3) \in fw
      /\ Pins(k).cs \in new <=> Pins(k).cs \in old
      /\ Pins(k).clk \in new <=> Pins(k).clk \in old
  <2>1. v \in {{}, {0}} /\ (v = {0} <=> 16 - (n \div 3) \in fw)
    OBVIOUS
  <2> HIDE DEF v, fw
  <2>2. Pins(k).dat \in 0 .. 15 /\ Pins(k).cs \in 0 .. 15 /\ Pins(k).clk \in 0 .. 15
        /\ Pins(k).cs # Pins(k).dat /\ Pins(k).clk # Pins(k).dat
    BY PinsDiffer
  <2>3. Pins(k).dat \in new <=> v = {0}
    BY <1>1, <2>1, <2>2, PadPut
  <2>4. Pins(k).cs \in new <=> Pins(k).cs \in old
    BY <1>1, <2>1, <2>2, PadPut
  <2>5. Pins(k).clk \in new <=> Pins(k).clk \in old
    BY <1>1, <2>1, <2>2, PadPut
  <2>6. QED
    BY <2>1, <2>3, <2>4, <2>5
<1>3. Watch(c, Pins(k), old, new) = c
  BY <1>2, WatchElse DEF Rises
<1>4. /\ Clocked(n) = Clocked(n + 1) /\ (n + 1) % 3 = 1 /\ n + 1 >= 2 /\ n >= 3
      /\ (n + 1) \div 3 = n \div 3
  BY DEF Clocked
<1>5. QED
  BY <1>2, <1>3, <1>4 DEF InFrame

(* The clock rises: a bit is shifted in.                                    *)
LEMMA FrameRises ==
  ASSUME NEW k \in Codecs, NEW a, NEW d, NEW n \in 2 .. 50, n % 3 = 1, NEW c, NEW old, NEW new,
         InFrame(k, a, d, n, c.bits, old), new = Changed(Frame(k, a, d, n), old),
         NEW after, after = Watch(c, Pins(k), old, new)
  PROVE  after.chip = c.chip /\ InFrame(k, a, d, n + 1, after.bits, new)
<1> DEFINE b == Pins(k).dat \in new
           j == n \div 3
<1>1. new = Changed(PadOut(Pins(k).clk, {0}), old)
  BY FrameRise
<1>2. /\ Pins(k).clk \in new
      /\ Pins(k).cs \in new <=> Pins(k).cs \in old
      /\ Pins(k).dat \in new <=> Pins(k).dat \in old
  BY <1>1, PinsDiffer, PadPut
<1>3. n >= 4 /\ j \in 1 .. 16 /\ Clocked(n) = j - 1 /\ Clocked(n + 1) = j /\ (n + 1) % 3 = 2
  BY DEF Clocked
<1>4. Pins(k).cs \notin old /\ Pins(k).clk \notin old
      /\ (Pins(k).dat \in old <=> 16 - j \in FrameWord(a, d)) /\ c.bits = Sent(a, d, j - 1)
  BY <1>3 DEF InFrame
<1>5. after = [bits |-> LastSixteen(Append(c.bits, b)), chip |-> c.chip]
  BY <1>2, <1>4, WatchClock DEF Rises
<1>6. b \in BOOLEAN /\ (b <=> (16 - j \in FrameWord(a, d)))
  BY <1>2, <1>4
<1> HIDE DEF b, j
<1>7. LastSixteen(Append(c.bits, b)) = Sent(a, d, j)
  BY <1>3, <1>4, <1>6, SentMore
<1>8. after.bits = Sent(a, d, Clocked(n + 1)) /\ after.chip = c.chip
  BY <1>3, <1>5, <1>7
<1>9. QED
  BY <1>2, <1>3, <1>4, <1>8 DEF InFrame

(* An access to one pad leaves the others alone.                            *)
PadValues == {{}, {0}}

(* The same, for the pads that are not put.                                 *)
LEMMA PadKept ==
  ASSUME NEW pin \in 0 .. 15, NEW v \in PadValues, NEW w, NEW new, new = Changed(PadOut(pin, v), w),
         NEW b \in 0 .. 15, b # pin
  PROVE  b \in new <=> b \in w
<1>1. b # pin => (b \in Changed(PadOut(pin, v), w) <=> b \in w)
  BY Zenon, PadPut DEF PadValues
<1>2. QED
  BY <1>1

(* What the codec makes of the sixteen bits: the register and its value.    *)
LEMMA FrameWordBits ==
  ASSUME NEW a \in WriteAddrs, NEW d \in RegData, NEW i \in 0 .. 8
  PROVE  /\ i \in FrameWord(a, d) <=> i \in d
         /\ i <= 6 => (9 + i \in FrameWord(a, d) <=> i \in Bits(a))
<1>1. a \in 0 .. 127 /\ d \subseteq 0 .. 8
  BY DEF WriteAddrs, CodecRegs, CodecReset, RegData
<1>2. Bits(a) \subseteq 0 .. 6
  BY <1>1, BitsBelow
<1>3. \A x : x \in Shifted(Bits(a), 9) <=> \E b \in Bits(a) : x = b + 9
  BY DEF Shifted
<1>4. FrameWord(a, d) = Shifted(Bits(a), 9) \cup d
  BY <1>1 DEF FrameWord
<1>5. QED
  BY <1>1, <1>2, <1>3, <1>4

(* What the codec makes of the sixteen bits: the address and the data sent. *)
LEMMA Decoded ==
  ASSUME NEW a \in WriteAddrs, NEW d \in RegData, NEW bits, bits = Sent(a, d, 16)
  PROVE  ShiftedIn(bits).addr = a /\ ShiftedIn(bits).data = d /\ Len(bits) = 16
<1> DEFINE A == {i \in 0 .. 6 : bits[7 - i]}
           D == {i \in 0 .. 8 : bits[16 - i]}
           x == CHOOSE n \in 0 .. 127 : Bits(n) = A
<1>1. Len(bits) = 16 /\ \A i \in 1 .. 16 : bits[i] = (16 - i \in FrameWord(a, d))
  <2> DEFINE j == 16
  <2>1. j \in Nat
    OBVIOUS
  <2> HIDE DEF j
  <2>2. /\ Len(Sent(a, d, j)) = j
        /\ \A i \in 1 .. j : Sent(a, d, j)[i] = (16 - i \in FrameWord(a, d))
    BY Zenon, <2>1, SentBits
  <2>3. QED
    BY Zenon, <2>2 DEF j
<1>2. D = d
  <2>1. ASSUME NEW i \in 0 .. 8 PROVE bits[16 - i] <=> i \in d
    <3>1. 16 - i \in 1 .. 16 /\ 16 - (16 - i) = i
      OBVIOUS
    <3>2. bits[16 - i] = (i \in FrameWord(a, d))
      BY Zenon, <1>1, <3>1
    <3>3. i \in FrameWord(a, d) <=> i \in d
      BY FrameWordBits
    <3>4. QED
      BY Zenon, <3>2, <3>3
  <2>2. d \subseteq 0 .. 8
    BY DEF RegData
  <2>3. QED
    BY Zenon, <2>1, <2>2
<1>3. a \in 0 .. 127 /\ Bits(a) \subseteq 0 .. 6
  <2>1. a \in 0 .. 127
    BY DEF WriteAddrs, CodecRegs, CodecReset
  <2>2. QED
    BY <2>1, BitsBelow
<1>4. A = Bits(a)
  <2>1. ASSUME NEW i \in 0 .. 6 PROVE bits[7 - i] <=> i \in Bits(a)
    <3>1. 7 - i \in 1 .. 16 /\ 16 - (7 - i) = 9 + i /\ i \in 0 .. 8 /\ i <= 6
      OBVIOUS
    <3>2. bits[7 - i] = (9 + i \in FrameWord(a, d))
      BY Zenon, <1>1, <3>1
    <3>3. 9 + i \in FrameWord(a, d) <=> i \in Bits(a)
      BY <3>1, FrameWordBits
    <3>4. QED
      BY Zenon, <3>2, <3>3
  <2>2. QED
    BY Zenon, <1>3, <2>1
<1>6. ShiftedIn(bits) = [addr |-> x, data |-> D]
  BY Zenon DEF ShiftedIn
<1> HIDE DEF A, D
<1>5. x = a
  BY <1>3, <1>4, BitsTell
<1> HIDE DEF x
<1>8. ShiftedIn(bits).data = D /\ ShiftedIn(bits).addr = x
  BY <1>6
<1>7. QED
  BY Zenon, <1>1, <1>2, <1>5, <1>8

(* The select rises: the register is written.                               *)
LEMMA FrameEnds ==
  ASSUME NEW k \in Codecs, NEW a \in WriteAddrs, NEW d \in RegData, NEW c, NEW old, NEW new,
         NEW n, n = FrameLength, InFrame(k, a, d, n, c.bits, old),
         new = Changed(Frame(k, a, d, n), old), NEW after, after = Watch(c, Pins(k), old, new)
  PROVE  after.bits = <<>> /\ after.chip = Written(c.chip, a, d)
<1>1. new = Changed(PadOut(Pins(k).cs, {0}), old)
  BY FrameLast
<1>2. Pins(k).cs \in new
  BY <1>1, PinsDiffer, PadPut
<1>3. n >= 2 /\ Clocked(n) = 16
  BY DEF Clocked, FrameLength
<1>4. Pins(k).cs \notin old /\ c.bits = Sent(a, d, 16)
  BY <1>3 DEF InFrame
<1>5. after = [bits |-> <<>>,
               chip |-> IF Len(c.bits) < 16 THEN c.chip
                        ELSE Written(c.chip, ShiftedIn(c.bits).addr, ShiftedIn(c.bits).data)]
  BY <1>2, <1>4, WatchSelect DEF Rises
<1>6. ShiftedIn(c.bits).addr = a /\ ShiftedIn(c.bits).data = d /\ Len(c.bits) = 16
  BY <1>4, Decoded
<1>7. QED
  BY <1>5, <1>6

(* An access of a frame is one to a pad of its codec; the other codec sees  *)
(* nothing of it.                                                           *)
LEMMA FramePad ==
  ASSUME NEW k \in Codecs, NEW a, NEW d, NEW n \in Ats
  PROVE  \E pin \in {Pins(k).cs, Pins(k).clk, Pins(k).dat}, v \in PadValues :
           Frame(k, a, d, n) = PadOut(pin, v)
<1>1. n = 1 \/ n = FrameLength \/ (n \in 2 .. 50 /\ (n % 3 = 0 \/ n % 3 = 1 \/ n % 3 = 2))
  BY DEF Ats, FrameLength
<1>2. CASE n = 1
  BY <1>2, FrameFirst DEF PadValues
<1>3. CASE n = FrameLength
  BY <1>3, FrameLast DEF PadValues
<1>4. CASE n \in 2 .. 50 /\ n % 3 = 0
  BY <1>4, FrameBit DEF BitOut, PadValues
<1>5. CASE n \in 2 .. 50 /\ n % 3 = 1
  BY <1>5, FrameRise DEF PadValues
<1>6. CASE n \in 2 .. 50 /\ n % 3 = 2
  BY <1>6, FrameFall DEF PadValues
<1>7. QED
  BY <1>1, <1>2, <1>3, <1>4, <1>5, <1>6

(* The other codec does not notice a frame.                                 *)
LEMMA OtherCodec ==
  ASSUME NEW k \in Codecs, NEW j \in Codecs, j # k, NEW a, NEW d, NEW n \in Ats, NEW c,
         NEW old, NEW new, new = Changed(Frame(j, a, d, n), old)
  PROVE  Watch(c, Pins(k), old, new) = c
<1>1. PICK pin \in {Pins(j).cs, Pins(j).clk, Pins(j).dat}, v \in PadValues :
        Frame(j, a, d, n) = PadOut(pin, v)
  BY FramePad
<1>2. pin \in 0 .. 15 /\ Pins(k).cs \in 0 .. 15 /\ Pins(k).clk \in 0 .. 15
      /\ pin # Pins(k).cs /\ pin # Pins(k).clk
  BY <1>1, PinsDiffer
<1>6. new = Changed(PadOut(pin, v), old)
  BY <1>1
<1>3. Pins(k).cs \in new <=> Pins(k).cs \in old
  BY Zenon, <1>2, <1>6, PadKept
<1>4. Pins(k).clk \in new <=> Pins(k).clk \in old
  BY Zenon, <1>2, <1>6, PadKept
<1>5. QED
  BY <1>3, <1>4, WatchElse DEF Rises

(* An access to a pad that neither clocks nor selects a codec is none that  *)
(* a codec takes for a bit.                                                 *)
Tame(op) ==
  op \in PadOuts /\ \A k \in Codecs : op # PadOut(Pins(k).clk, {0}) /\ op # PadOut(Pins(k).cs, {})

(* Nor does a codec that is between frames notice another driver's pads.    *)
LEMMA TameUnseen ==
  ASSUME NEW op, Tame(op), NEW k \in Codecs, NEW c, c.bits = <<>>, NEW old, NEW new,
         new = Changed(op, old), NEW after, after = Watch(c, Pins(k), old, new)
  PROVE  after.bits = <<>> /\ after.chip = c.chip
<1>1. PICK pin \in 0 .. 15, v \in PadValues : op = PadOut(pin, v)
  BY DEF Tame, PadOuts, PadValues
<1>2. Pins(k).clk \in new => Pins(k).clk \in old
  <2>1. CASE pin = Pins(k).clk
    <3>1. v = {}
      BY <1>1, <2>1 DEF Tame, PadValues
    <3>2. QED
      BY <1>1, <2>1, <3>1, PinsDiffer, PadPut
  <2>2. CASE pin # Pins(k).clk
    <3>1. new = Changed(PadOut(pin, v), old) /\ Pins(k).clk \in 0 .. 15
      BY <1>1, PinsDiffer
    <3>2. QED
      BY Zenon, <2>2, <3>1, PadKept
  <2>3. QED
    BY <2>1, <2>2
<1>3. CASE Rises(Pins(k).cs, old, new)
  <2>1. after = [bits |-> <<>>,
                 chip |-> IF Len(c.bits) < 16 THEN c.chip
                          ELSE Written(c.chip, ShiftedIn(c.bits).addr, ShiftedIn(c.bits).data)]
    BY <1>3, WatchSelect
  <2>2. Len(c.bits) < 16
    OBVIOUS
  <2>3. QED
    BY <2>1, <2>2
<1>4. CASE ~Rises(Pins(k).cs, old, new)
  <2>1. ~Rises(Pins(k).clk, old, new)
    BY <1>2 DEF Rises
  <2>2. QED
    BY <1>4, <2>1, WatchElse
<1>5. QED
  BY <1>3, <1>4

-----------------------------------------------------------------------------
(* The codecs and the script that talks to them: s with the word w, where   *)
(* the caches are m, the codecs c, the pads are pads and what was asked q.  *)

IsFrame(s, k) == s # <<>> /\ s[1].op = "frame" /\ s[1].codec = k
Framing(s, k, m, bits, pads) ==
  IF IsFrame(s, k)
  THEN InFrame(k, s[1].addr, s[1].data, s[1].at, bits, pads)
       /\ (s[1].addr \in CodecRegs => m[s[1].addr] = s[1].data)
  ELSE bits = <<>>
FramesFirst(s) == \A i \in DOMAIN s : s[i].op = "frame" => i = 1
TameOuts(s) == \A i \in DOMAIN s : s[i].op = "out" => Tame(s[i])
WordOfPads(s, w, pads) == w # None /\ s # <<>> /\ AccessOf(Head(s)).op = "out" => w = pads
Informed(s, k, m, chip, q) == IF q = None THEN Untold(chip) ELSE Told(s, k, m, chip, q)
Speaking(s, w, m, c, pads, q) ==
  /\ FramesFirst(s) /\ TameOuts(s) /\ WordOfPads(s, w, pads)
  /\ \A k \in Codecs : Framing(s, k, m[k], c[k].bits, pads)
  /\ \A k \in Codecs : Informed(s, k, m[k], c[k].chip, q[k])

(* After the head there are no frames.                                      *)
Frameless(s) == \A i \in DOMAIN s : s[i].op # "frame"

(* A frame can only be at the head.                                         *)
LEMMA TailFrameless ==
  ASSUME NEW S, NEW s \in Seq(S), s # <<>>, FramesFirst(s) PROVE Frameless(Tail(s))
<1> SUFFICES ASSUME NEW i \in DOMAIN Tail(s), Tail(s)[i].op = "frame" PROVE FALSE
  BY DEF Frameless
<1>1. i + 1 \in DOMAIN s /\ i \in Nat /\ Tail(s)[i] = s[i + 1] /\ i # 0
  BY TailOf
<1>2. i + 1 = 1
  BY <1>1 DEF FramesFirst
<1>3. QED
  BY <1>1, <1>2

(* The pads of what is left are tame as well.                               *)
LEMMA TailTame ==
  ASSUME NEW S, NEW s \in Seq(S), s # <<>>, TameOuts(s) PROVE TameOuts(Tail(s))
<1> SUFFICES ASSUME NEW i \in DOMAIN Tail(s), Tail(s)[i].op = "out" PROVE Tame(Tail(s)[i])
  BY DEF TameOuts
<1>1. i + 1 \in DOMAIN s /\ Tail(s)[i] = s[i + 1]
  BY TailOf
<1>2. QED
  BY <1>1 DEF TameOuts

(* A script without frames finds the codecs without bits.                   *)
LEMMA FramelessFacts ==
  ASSUME NEW S, NEW s \in Seq(S), Frameless(s)
  PROVE  /\ FramesFirst(s) /\ \A k : ~IsFrame(s, k)
         /\ \A k, m, bits, pads : Framing(s, k, m, bits, pads) <=> bits = <<>>
<1>1. FramesFirst(s)
  BY DEF Frameless, FramesFirst
<1>2. s # <<>> => 1 \in DOMAIN s
  BY TailOf
<1>3. \A k : ~IsFrame(s, k)
  BY <1>2 DEF IsFrame, Frameless
<1>4. \A k, m, bits, pads : Framing(s, k, m, bits, pads) <=> bits = <<>>
  BY <1>3 DEF Framing
<1>5. QED
  BY <1>1, <1>3, <1>4

(* A step that writes nothing to a codec leaves it as well informed.        *)
LEMMA InformedTail ==
  ASSUME NEW S, NEW s \in Seq(S), s # <<>>, NEW k, ~WritesTo(s[1], k), NEW m, NEW chip, NEW q,
         Informed(s, k, m, chip, q)
  PROVE  Informed(Tail(s), k, m, chip, q)
<1>1. CASE q = None
  BY <1>1 DEF Informed
<1>2. CASE q # None
  BY <1>2, ToldTail DEF Informed
<1>3. QED
  BY <1>1, <1>2

(* The head is neither a codec write, nor a frame, nor an access to a pad.  *)
LEMMA SpeakOn ==
  ASSUME NEW S, NEW s \in Seq(S), s # <<>>, s[1].op \notin {"codec", "frame"},
         NEW w, NEW m, NEW c, NEW pads, NEW q, Speaking(s, w, m, c, pads, q)
  PROVE  Speaking(Tail(s), None, m, c, pads, q)
<1> DEFINE t == Tail(s)
<1>1. t \in Seq(S) /\ Frameless(t) /\ TameOuts(t)
  BY HeadAndTail, TailFrameless, TailTame DEF Speaking
<1>2. WordOfPads(t, None, pads)
  BY DEF WordOfPads
<1>3. ASSUME NEW k \in Codecs PROVE Informed(t, k, m[k], c[k].chip, q[k])
  BY InformedTail DEF Speaking, WritesTo
<1>4. ASSUME NEW k \in Codecs PROVE Framing(t, k, m[k], c[k].bits, pads)
  <2>1. ~IsFrame(s, k)
    BY DEF IsFrame
  <2>2. c[k].bits = <<>>
    BY <2>1 DEF Speaking, Framing
  <2> HIDE DEF t
  <2>3. QED
    BY <1>1, <2>2, FramelessFacts
<1> HIDE DEF t
<1>5. FramesFirst(t)
  BY <1>1, FramelessFacts
<1>6. QED
  BY <1>1, <1>2, <1>3, <1>4, <1>5 DEF Speaking, t

(* It is an access to a pad, by another driver than that of the codecs, or  *)
(* theirs outside a frame.                                                  *)
LEMMA SpeakPad ==
  ASSUME NEW S, NEW s \in Seq(S), s # <<>>, s[1].op = "out",
         NEW w, NEW m, NEW c, NEW pads, NEW q, Speaking(s, w, m, c, pads, q),
         NEW new, new = Changed(s[1], pads),
         NEW z, z = [k \in Codecs |-> Watch(c[k], Pins(k), pads, new)]
  PROVE  /\ Speaking(Tail(s), None, m, z, new, q)
         /\ \A k \in Codecs : z[k].chip = c[k].chip
<1> DEFINE t == Tail(s)
<1>1. t \in Seq(S) /\ Frameless(t) /\ TameOuts(t)
  BY HeadAndTail, TailFrameless, TailTame DEF Speaking
<1>2. WordOfPads(t, None, new)
  BY DEF WordOfPads
<1>3. Tame(s[1])
  <2>1. 1 \in DOMAIN s
    BY TailOf
  <2>2. QED
    BY <2>1 DEF Speaking, TameOuts
<1>4. ASSUME NEW k \in Codecs PROVE z[k].bits = <<>> /\ z[k].chip = c[k].chip
  <2>1. ~IsFrame(s, k)
    BY DEF IsFrame
  <2>2. c[k].bits = <<>>
    BY <2>1 DEF Speaking, Framing
  <2>3. z[k] = Watch(c[k], Pins(k), pads, new)
    OBVIOUS
  <2>4. QED
    BY <1>3, <2>2, <2>3, TameUnseen
<1>5. ASSUME NEW k \in Codecs PROVE Informed(t, k, m[k], z[k].chip, q[k])
  <2>1. Informed(t, k, m[k], c[k].chip, q[k])
    BY InformedTail DEF Speaking, WritesTo
  <2>2. QED
    BY <1>4, <2>1
<1> HIDE DEF t
<1>6. ASSUME NEW k \in Codecs PROVE Framing(t, k, m[k], z[k].bits, new)
  BY <1>1, <1>4, FramelessFacts
<1>7. FramesFirst(t)
  BY <1>1, FramelessFacts
<1>8. QED
  BY <1>1, <1>2, <1>4, <1>5, <1>6, <1>7 DEF Speaking, t

(* Neither of two scripts talks to a codec.                                 *)
LEMMA QuietScript ==
  ASSUME NEW S, NEW s \in Seq(S), ~Talks(s)
  PROVE  Frameless(s) /\ TameOuts(s) /\ \A k : Unwritten(s, k)
BY DEF Talks, Frameless, TameOuts, Unwritten, WritesTo

(* One script that does not talk to the codecs is as good as another.       *)
LEMMA HandOver ==
  ASSUME NEW S, NEW s \in Seq(S), NEW t \in Seq(S), ~Talks(s), ~Talks(t),
         NEW w, NEW v, NEW m, NEW c, NEW pads, NEW q, Speaking(s, w, m, c, pads, q)
  PROVE  Speaking(t, v, m, c, pads, q)
<1>1. /\ Frameless(s) /\ Frameless(t) /\ TameOuts(t)
      /\ \A k : Unwritten(s, k) /\ Unwritten(t, k)
  BY QuietScript
<1>2. FramesFirst(t)
  BY <1>1, FramelessFacts
<1>3. WordOfPads(t, v, pads)
  <2>1. ASSUME t # <<>> PROVE AccessOf(Head(t)).op # "out"
    <3>1. 1 \in DOMAIN t /\ Head(t) = t[1]
      BY <2>1, TailOf, HeadAndTail
    <3>2. Head(t).op \notin {"frame", "out"}
      BY <3>1 DEF Talks
    <3>3. QED
      BY <3>2 DEF AccessOf
  <2>2. QED
    BY <2>1 DEF WordOfPads
<1>4. ASSUME NEW k \in Codecs PROVE Framing(t, k, m[k], c[k].bits, pads)
  <2>1. Framing(s, k, m[k], c[k].bits, pads)
    BY DEF Speaking
  <2>2. c[k].bits = <<>>
    BY <1>1, <2>1, FramelessFacts
  <2>3. QED
    BY <1>1, <2>2, FramelessFacts
<1>5. ASSUME NEW k \in Codecs PROVE Informed(t, k, m[k], c[k].chip, q[k])
  <2>1. Informed(s, k, m[k], c[k].chip, q[k])
    BY DEF Speaking
  <2>2. CASE q[k] = None
    BY <2>1, <2>2 DEF Informed
  <2>3. CASE q[k] # None
    <3>1. s = <<>> \/ 1 \in DOMAIN s
      BY TailOf
    <3>2. Unwritten(s, k) /\ Unwritten(t, k)
      BY <1>1
    <3>3. Told(t, k, m[k], c[k].chip, q[k])
      BY <2>1, <2>3, <3>1, <3>2, ToldUnwritten DEF Informed
    <3>4. QED
      BY <2>3, <3>3 DEF Informed
  <2>4. QED
    BY <2>2, <2>3
<1>6. QED
  BY <1>1, <1>2, <1>3, <1>4, <1>5 DEF Speaking

(* The head is exchanged for one that writes the same.                      *)
LEMMA InformedAlike ==
  ASSUME NEW s, NEW t, AllAlike(s, t), s # <<>>, t # <<>>, 1 \in DOMAIN s, NEW k, NEW m, NEW n,
         \A b \in CodecRegs : n[b] = m[b] \/ Pending(s, k, b), NEW chip, NEW q,
         Informed(s, k, m, chip, q)
  PROVE  Informed(t, k, n, chip, q)
<1>1. CASE q = None
  BY <1>1 DEF Informed
<1>2. CASE q # None
  <2>1. Told(s, k, m, chip, q)
    BY <1>2 DEF Informed
  <2>2. Told(t, k, n, chip, q)
    BY <2>1, ToldAlike
  <2>3. QED
    BY <1>2, <2>2 DEF Informed
<1>3. QED
  BY <1>1, <1>2

(* The same where the cache does not change.                                *)
LEMMA InformedSame ==
  ASSUME NEW s, NEW t, AllAlike(s, t), s # <<>>, t # <<>>, 1 \in DOMAIN s, NEW k, NEW m,
         NEW chip, NEW q, Informed(s, k, m, chip, q)
  PROVE  Informed(t, k, m, chip, q)
<1>1. \A b \in CodecRegs : m[b] = m[b] \/ Pending(s, k, b)
  OBVIOUS
<1>2. QED
  BY Zenon, <1>1, InformedAlike

(* The parts of a frame and of a register write.                            *)
LEMMA FrameHead ==
  ASSUME NEW k, NEW a, NEW d, NEW n
  PROVE  /\ FrameOf(k, a, d, n).op = "frame" /\ FrameOf(k, a, d, n).codec = k
         /\ FrameOf(k, a, d, n).addr = a /\ FrameOf(k, a, d, n).data = d
         /\ FrameOf(k, a, d, n).at = n
         /\ CodecOp(k, a, d).op = "codec" /\ CodecOp(k, a, d).codec = k
         /\ CodecOp(k, a, d).addr = a /\ CodecOp(k, a, d).data = d
BY DEF FrameOf, CodecOp

(* A frame in place of what it came from leaves the script as it was.       *)
LEMMA FrameAlike ==
  ASSUME NEW S, NEW s \in Seq(S), s # <<>>, NEW f \in S, f.op = "frame", Alike(s[1], f),
         NEW t, t = <<f>> \o Tail(s), FramesFirst(s), TameOuts(s)
  PROVE  AllAlike(s, t) /\ t # <<>> /\ t[1] = f /\ 1 \in DOMAIN s /\ FramesFirst(t) /\ TameOuts(t)
<1>1. t \in Seq(S) /\ t # <<>> /\ t[1] = f /\ Len(t) = Len(s) /\ \A j \in 2 .. Len(s) : t[j] = s[j]
  BY OtherHead
<1>2. DOMAIN s = 1 .. Len(s) /\ DOMAIN t = 1 .. Len(s) /\ Len(s) \in Nat /\ 1 \in DOMAIN s
  BY <1>1, TailOf, LenProperties
<1>3. ASSUME NEW j \in DOMAIN s, j # 1 PROVE j \in 2 .. Len(s) /\ t[j] = s[j]
  <2>1. j \in 2 .. Len(s)
    BY <1>2, <1>3
  <2>2. QED
    BY <1>1, <2>1
<1>4. AllAlike(s, t)
  BY <1>1, <1>2, <1>3 DEF AllAlike, Alike
<1>5. FramesFirst(t)
  BY <1>2, <1>3 DEF FramesFirst
<1>6. TameOuts(t)
  BY <1>1, <1>2, <1>3 DEF TameOuts
<1>7. QED
  BY <1>1, <1>2, <1>4, <1>5, <1>6

(* A codec write goes into the cache and becomes a frame.                   *)
FrameBegins(S, s, t, k, a, d, m, n) ==
  /\ s[1] = CodecOp(k, a, d)
  /\ FrameOf(k, a, d, 1) \in S /\ t = <<FrameOf(k, a, d, 1)>> \o Tail(s)
  /\ n = IF a \in CodecRegs THEN [m EXCEPT ![k][a] = d] ELSE m

(* The write is said as well by the frame.                                  *)
LEMMA SpeakBegin ==
  ASSUME NEW S, NEW s \in Seq(S), s # <<>>, NEW k \in Codecs, NEW a \in WriteAddrs,
         NEW d \in RegData, NEW t, NEW m \in [Codecs -> Caches], NEW n,
         FrameBegins(S, s, t, k, a, d, m, n),
         NEW w, NEW c, NEW pads, NEW q, Speaking(s, w, m, c, pads, q)
  PROVE  Speaking(t, None, n, c, pads, q)
<1> DEFINE f == FrameOf(k, a, d, 1)
<1>10. s[1] = CodecOp(k, a, d) /\ f \in S /\ t = <<f>> \o Tail(s)
       /\ n = IF a \in CodecRegs THEN [m EXCEPT ![k][a] = d] ELSE m
  BY DEF FrameBegins
<1>2. f.op = "frame" /\ f.codec = k /\ f.addr = a /\ f.data = d /\ f.at = 1
      /\ s[1].op = "codec" /\ s[1].codec = k /\ s[1].addr = a
  BY <1>10, FrameHead
<1>0. Alike(s[1], f)
  BY <1>2, <1>10, FrameHead DEF Alike
<1>20. f \in S /\ t = <<f>> \o Tail(s)
  BY <1>10
<1> HIDE DEF f
<1>1. AllAlike(s, t) /\ t # <<>> /\ t[1] = f /\ 1 \in DOMAIN s /\ FramesFirst(t) /\ TameOuts(t)
  <2>1. FramesFirst(s) /\ TameOuts(s)
    BY DEF Speaking
  <2>2. QED
    BY <1>0, <1>2, <1>20, <2>1, FrameAlike
<1>3. WordOfPads(t, None, pads)
  BY DEF WordOfPads
<1>4. Pending(s, k, a)
  BY <1>1, <1>2 DEF Pending, Writes, WritesTo
<1>5. /\ \A j \in Codecs : j # k => n[j] = m[j]
      /\ \A b \in CodecRegs : b # a => n[k][b] = m[k][b]
      /\ a \in CodecRegs => n[k][a] = d
  BY <1>10 DEF Caches
<1>6. ASSUME NEW j \in Codecs PROVE Informed(t, j, n[j], c[j].chip, q[j])
  <2>1. \A b \in CodecRegs : n[j][b] = m[j][b] \/ Pending(s, j, b)
    BY <1>4, <1>5
  <2>2. Informed(s, j, m[j], c[j].chip, q[j])
    BY DEF Speaking
  <2> DEFINE mj == m[j]
             nj == n[j]
             chip == c[j].chip
             qj == q[j]
  <2> HIDE DEF mj, nj, chip, qj
  <2>3. (\A b \in CodecRegs : nj[b] = mj[b] \/ Pending(s, j, b)) /\ Informed(s, j, mj, chip, qj)
    BY <2>1, <2>2 DEF mj, nj, chip, qj
  <2>4. Informed(t, j, nj, chip, qj)
    BY Zenon, <1>1, <2>3, InformedAlike
  <2>5. QED
    BY <2>4 DEF nj, chip, qj
<1>7. ASSUME NEW j \in Codecs PROVE c[j].bits = <<>>
  <2>1. ~IsFrame(s, j)
    BY <1>2 DEF IsFrame
  <2>2. QED
    BY <2>1 DEF Speaking, Framing
<1>8. ASSUME NEW j \in Codecs PROVE Framing(t, j, n[j], c[j].bits, pads)
  <2>1. CASE j # k
    <3>1. ~IsFrame(t, j)
      BY <1>1, <1>2, <2>1 DEF IsFrame
    <3>2. QED
      BY <1>7, <3>1 DEF Framing
  <2>2. CASE j = k
    <3>1. InFrame(k, a, d, 1, <<>>, pads)
      <4>1. Sent(a, d, 0) \in Seq(BOOLEAN) /\ Len(Sent(a, d, 0)) = 0
        BY SentBits
      <4>2. Sent(a, d, 0) = <<>>
        BY <4>1, EmptySeq
      <4>3. Clocked(1) = 0
        BY DEF Clocked
      <4>4. QED
        BY <4>2, <4>3 DEF InFrame
    <3>2. IsFrame(t, k)
      BY <1>1, <1>2 DEF IsFrame
    <3>3. QED
      BY <1>1, <1>2, <1>5, <1>7, <2>2, <3>1, <3>2 DEF Framing
  <2>3. QED
    BY <2>1, <2>2
<1>9. QED
  BY <1>1, <1>3, <1>6, <1>8 DEF Speaking

(* An access of a frame but the last: on to the next.                       *)
LEMMA FrameStep ==
  ASSUME NEW k \in Codecs, NEW a, NEW d, NEW n \in 1 .. 50, NEW c, NEW old, NEW new,
         InFrame(k, a, d, n, c.bits, old), new = Changed(Frame(k, a, d, n), old),
         NEW after, after = Watch(c, Pins(k), old, new)
  PROVE  after.chip = c.chip /\ InFrame(k, a, d, n + 1, after.bits, new)
<1>1. n = 1 \/ (n \in 2 .. 50 /\ (n % 3 = 0 \/ n % 3 = 1 \/ n % 3 = 2))
  OBVIOUS
<1>2. CASE n = 1
  BY <1>2, FrameSelects
<1>3. CASE n \in 2 .. 50 /\ n % 3 = 0
  BY <1>3, FrameFollows
<1>4. CASE n \in 2 .. 50 /\ n % 3 = 1
  BY <1>4, FrameRises
<1>5. CASE n \in 2 .. 50 /\ n % 3 = 2
  BY <1>5, FrameFalls
<1>6. QED
  BY <1>1, <1>2, <1>3, <1>4, <1>5

FrameMoves(S, s, t, k, a, d, i, pads, new) ==
  /\ s[1] = FrameOf(k, a, d, i)
  /\ FrameOf(k, a, d, i + 1) \in S /\ t = <<FrameOf(k, a, d, i + 1)>> \o Tail(s)
  /\ new = Changed(Frame(k, a, d, i), pads)

(* Any access of a frame but the last.                                      *)
LEMMA SpeakFrame ==
  ASSUME NEW S, NEW s \in Seq(S), s # <<>>, NEW k \in Codecs, NEW a \in WriteAddrs,
         NEW d \in RegData, NEW i \in 1 .. 50, NEW t, NEW pads, NEW new,
         FrameMoves(S, s, t, k, a, d, i, pads, new),
         NEW w, NEW m, NEW c, NEW q, Speaking(s, w, m, c, pads, q),
         NEW z, \A j \in Codecs : z[j] = Watch(c[j], Pins(j), pads, new)
  PROVE  /\ Speaking(t, None, m, z, new, q)
         /\ \A j \in Codecs : z[j].chip = c[j].chip
<1> DEFINE f == FrameOf(k, a, d, i + 1)
<1>30. s[1] = FrameOf(k, a, d, i) /\ new = Changed(Frame(k, a, d, i), pads)
  BY DEF FrameMoves
<1>2. f.op = "frame" /\ f.codec = k /\ f.addr = a /\ f.data = d /\ f.at = i + 1
      /\ s[1].op = "frame" /\ s[1].codec = k /\ s[1].addr = a /\ s[1].data = d /\ s[1].at = i
  BY <1>30, FrameHead
<1>0. Alike(s[1], f)
  BY <1>2, FrameHead DEF Alike
<1>20. f \in S /\ t = <<f>> \o Tail(s)
  BY DEF FrameMoves
<1> HIDE DEF f
<1>1. AllAlike(s, t) /\ t # <<>> /\ t[1] = f /\ 1 \in DOMAIN s /\ FramesFirst(t) /\ TameOuts(t)
  <2>1. FramesFirst(s) /\ TameOuts(s)
    BY DEF Speaking
  <2>2. QED
    BY <1>0, <1>2, <1>20, <2>1, FrameAlike
<1>3. WordOfPads(t, None, new)
  BY DEF WordOfPads
<1>4. InFrame(k, a, d, i, c[k].bits, pads) /\ (a \in CodecRegs => m[k][a] = d)
  <2>1. IsFrame(s, k)
    BY <1>2 DEF IsFrame
  <2>2. QED
    BY <1>2, <2>1 DEF Speaking, Framing
<1>5. z[k].chip = c[k].chip /\ InFrame(k, a, d, i + 1, z[k].bits, new)
  <2> DEFINE x == c[k]
             y == z[k]
  <2>1. y = Watch(x, Pins(k), pads, new)
    OBVIOUS
  <2>2. InFrame(k, a, d, i, x.bits, pads)
    BY <1>4
  <2> HIDE DEF x, y
  <2>3. y.chip = x.chip /\ InFrame(k, a, d, i + 1, y.bits, new)
    BY <1>30, <2>1, <2>2, FrameStep
  <2>4. QED
    BY <2>3 DEF x, y
<1>6. ASSUME NEW j \in Codecs, j # k PROVE z[j] = c[j] /\ c[j].bits = <<>>
  <2>1. z[j] = Watch(c[j], Pins(j), pads, new)
    OBVIOUS
  <2>2. i \in Ats
    BY DEF Ats, FrameLength
  <2>3. z[j] = c[j]
    BY <1>6, <1>30, <2>1, <2>2, OtherCodec
  <2>4. ~IsFrame(s, j)
    BY <1>2, <1>6 DEF IsFrame
  <2>5. QED
    BY <2>3, <2>4 DEF Speaking, Framing
<1>7. ASSUME NEW j \in Codecs PROVE z[j].chip = c[j].chip
  BY <1>5, <1>6
<1>8. ASSUME NEW j \in Codecs PROVE Informed(t, j, m[j], z[j].chip, q[j])
  <2>1. Informed(s, j, m[j], c[j].chip, q[j])
    BY DEF Speaking
  <2> DEFINE mj == m[j]
             chip == c[j].chip
             qj == q[j]
  <2>4. Informed(s, j, mj, chip, qj)
    BY <2>1
  <2> HIDE DEF mj, chip, qj
  <2>5. Informed(t, j, mj, chip, qj)
    BY <1>1, <2>4, InformedSame
  <2>2. Informed(t, j, m[j], c[j].chip, q[j])
    BY <2>5 DEF mj, chip, qj
  <2>3. QED
    BY <1>7, <2>2
<1>9. ASSUME NEW j \in Codecs PROVE Framing(t, j, m[j], z[j].bits, new)
  <2>1. CASE j # k
    <3>1. ~IsFrame(t, j)
      BY <1>1, <1>2, <2>1 DEF IsFrame
    <3>2. QED
      BY <1>6, <2>1, <3>1 DEF Framing
  <2>2. CASE j = k
    <3>1. IsFrame(t, k)
      BY <1>1, <1>2 DEF IsFrame
    <3>2. QED
      BY <1>1, <1>2, <1>4, <1>5, <2>2, <3>1 DEF Framing
  <2>3. QED
    BY <2>1, <2>2
<1>10. QED
  BY <1>1, <1>3, <1>7, <1>8, <1>9 DEF Speaking

(* The last access of a frame: the register is written.  What is heard then *)
(* is what was heard before, the codec's own volumes, or what was asked.    *)
Sounds(chip, after, q) ==
  \A ch \in Channels :
    \/ after.applied[ch] = chip.applied[ch] \/ after.applied[ch] = PowerOn.applied[ch]
    \/ q # None /\ after.applied[ch] = q[ch]

(* The last access of a frame: the codec has taken the write.               *)
LEMMA SpeakEnd ==
  ASSUME NEW S, NEW s \in Seq(S), s # <<>>, NEW k \in Codecs, NEW a \in WriteAddrs,
         NEW d \in RegData, s[1] = FrameOf(k, a, d, FrameLength),
         NEW w, NEW m, NEW c \in [Codecs -> Watchers], NEW pads, NEW q,
         q[k] # None, q[k] \in Volumes3, Speaking(s, w, m, c, pads, q),
         NEW new, new = Changed(Frame(k, a, d, FrameLength), pads),
         NEW z, \A j \in Codecs : z[j] = Watch(c[j], Pins(j), pads, new)
  PROVE  /\ Speaking(Tail(s), None, m, z, new, q)
         /\ \A j \in Codecs : Sounds(c[j].chip, z[j].chip, q[j])
<1> DEFINE t == Tail(s)
<1>1. t \in Seq(S) /\ Frameless(t) /\ TameOuts(t)
  BY HeadAndTail, TailFrameless, TailTame DEF Speaking
<1>2. s[1].op = "frame" /\ s[1].codec = k /\ s[1].addr = a /\ s[1].data = d
      /\ s[1].at = FrameLength
  BY FrameHead
<1>3. WordOfPads(t, None, new)
  BY DEF WordOfPads
<1>4. InFrame(k, a, d, FrameLength, c[k].bits, pads) /\ (a \in CodecRegs => m[k][a] = d)
  <2>1. IsFrame(s, k)
    BY <1>2 DEF IsFrame
  <2>2. QED
    BY <1>2, <2>1 DEF Speaking, Framing
<1>5. z[k].bits = <<>> /\ z[k].chip = Written(c[k].chip, a, d)
  <2>1. z[k] = Watch(c[k], Pins(k), pads, new)
    OBVIOUS
  <2>2. QED
    BY <1>4, <2>1, FrameEnds
<1>6. ASSUME NEW j \in Codecs, j # k PROVE z[j] = c[j] /\ c[j].bits = <<>>
  <2>1. z[j] = Watch(c[j], Pins(j), pads, new)
    OBVIOUS
  <2>2. FrameLength \in Ats
    BY DEF Ats, FrameLength
  <2>3. z[j] = c[j]
    BY <1>6, <2>1, <2>2, OtherCodec
  <2>4. ~IsFrame(s, j)
    BY <1>2, <1>6 DEF IsFrame
  <2>5. QED
    BY <2>3, <2>4 DEF Speaking, Framing
<1>7. Told(t, k, m[k], z[k].chip, q[k]) /\ Heard(c[k].chip, z[k].chip, q[k])
  <2>1. Writes(s[1], k, a)
    BY <1>2 DEF Writes, WritesTo
  <2>2. c[k].chip \in Chips
    BY DEF Watchers
  <2>3. Told(s, k, m[k], c[k].chip, q[k])
    BY DEF Speaking, Informed
  <2>4. Told(t, k, m[k], Written(c[k].chip, a, d), q[k])
        /\ Heard(c[k].chip, Written(c[k].chip, a, d), q[k])
    BY Zenon, <1>2, <1>4, <2>1, <2>2, <2>3, ToldWritten
  <2>5. QED
    BY Zenon, <1>5, <2>4
<1>8. ASSUME NEW j \in Codecs PROVE Informed(t, j, m[j], z[j].chip, q[j])
  <2>1. CASE j = k
    BY <1>7, <2>1 DEF Informed
  <2>2. CASE j # k
    <3>1. Informed(s, j, m[j], c[j].chip, q[j])
      BY DEF Speaking
    <3>2. ~WritesTo(s[1], j)
      BY <1>2, <2>2 DEF WritesTo
    <3>3. Informed(t, j, m[j], c[j].chip, q[j])
      BY <3>1, <3>2, InformedTail
    <3>4. QED
      BY <1>6, <2>2, <3>3
  <2>3. QED
    BY <2>1, <2>2
<1> HIDE DEF t
<1>9. ASSUME NEW j \in Codecs PROVE Framing(t, j, m[j], z[j].bits, new)
  BY <1>1, <1>5, <1>6, FramelessFacts
<1>10. FramesFirst(t)
  BY <1>1, FramelessFacts
<1>11. ASSUME NEW j \in Codecs PROVE Sounds(c[j].chip, z[j].chip, q[j])
  <2>1. CASE j = k
    BY <1>7, <2>1 DEF Heard, Sounds
  <2>2. CASE j # k
    BY <1>6, <2>2 DEF Sounds
  <2>3. QED
    BY <2>1, <2>2
<1>12. QED
  BY <1>1, <1>3, <1>8, <1>9, <1>10, <1>11 DEF Speaking, t

-----------------------------------------------------------------------------
(* The calls.                                                               *)

(* A codec to which nothing is to be written, and what was asked of it.     *)
Steady(m, chip, q) ==
  /\ \A a \in 0 .. 10 : chip.regs[a] = m[a]
  /\ \A ch \in Channels : m[LeftOf(ch)] = q[ch][1] /\ Update \notin q[ch][1]
  /\ \A ch \in Channels : m[RightOf(ch)] \ {Update} = q[ch][2] /\ Update \in m[RightOf(ch)]
  /\ \A ch \in Channels : chip.held[ch] = q[ch] /\ chip.applied[ch] = q[ch]

(* When nothing is left to be written, a codec is steady.                   *)
LEMMA ToldSteady ==
  ASSUME NEW s, NEW k, Unwritten(s, k), NEW m, NEW chip \in Chips, NEW q \in Volumes3,
         Told(s, k, m, chip, q)
  PROVE  Steady(m, chip, q)
<1>1. \A a : ~Pending(s, k, a)
  BY UnwrittenRules
<1>2. \A a \in 0 .. 10 : chip.regs[a] = m[a]
  BY <1>1 DEF Told, RegsAgree
<1>3. \A ch \in Channels : /\ m[LeftOf(ch)] = q[ch][1] /\ Update \notin q[ch][1]
                           /\ chip.held[ch][1] = q[ch][1]
  BY <1>1 DEF Told, LeftAgrees
<1>4. \A ch \in Channels : /\ m[RightOf(ch)] \ {Update} = q[ch][2] /\ Update \in m[RightOf(ch)]
                           /\ chip.held[ch][2] = q[ch][2] /\ chip.applied[ch] = q[ch]
  BY <1>1 DEF Told, RightAgrees
<1>5. ASSUME NEW ch \in Channels PROVE chip.held[ch] = q[ch]
  <2>1. chip.held[ch] \in SidePairs /\ q[ch] \in SidePairs
    BY ChipParts, ChannelPair
  <2>2. QED
    BY <1>3, <1>4, <2>1, PairEqual
<1>6. QED
  BY <1>2, <1>3, <1>4, <1>5 DEF Steady

(* A steady codec holds nothing back.                                       *)
LEMMA SteadyUntold ==
  ASSUME NEW m, NEW chip, NEW q, Steady(m, chip, q) PROVE Untold(chip)
BY DEF Steady, Untold

(* The rules are all that a new script has to keep to.                      *)
LEMMA SteadyTold ==
  ASSUME NEW m, NEW chip, NEW q, Steady(m, chip, q), NEW t, NEW k, NEW r,
         LeftRule(t, k, r), RightRule(t, k, r), ResetRule(t, k),
         \A ch \in Channels :
           r[ch] = q[ch] \/ (Pending(t, k, LeftOf(ch)) /\ Pending(t, k, RightOf(ch)))
  PROVE  Told(t, k, m, chip, r)
<1>1. RegsAgree(t, k, m, chip)
  BY DEF Steady, RegsAgree
<1>2. LeftAgrees(t, k, m, chip, r)
  BY DEF Steady, LeftAgrees
<1>3. RightAgrees(t, k, m, chip, r)
  BY DEF Steady, RightAgrees
<1>4. HeldTogether(t, k, chip, r)
  BY DEF Steady, HeldTogether, Balanced
<1>5. QED
  BY <1>1, <1>2, <1>3, <1>4 DEF Told

(* A script of the driver of one codec: no frames, and nothing to the other.*)
FromCodec(t, k) ==
  \A i \in DOMAIN t : (t[i].op = "codec" /\ t[i].codec = k) \/ (t[i].op = "out" /\ Tame(t[i]))

(* It is without frames and tame, and says nothing to the other codec.      *)
LEMMA FromCodecFacts ==
  ASSUME NEW t, NEW k, FromCodec(t, k)
  PROVE  Frameless(t) /\ TameOuts(t) /\ \A j : j # k => Unwritten(t, j)
BY DEF FromCodec, Frameless, TameOuts, Unwritten, WritesTo

(* One write, or none.                                                      *)
LEMMA NoWrite ==
  ASSUME NEW k, NEW q
  PROVE  /\ FromCodec(<<>>, k) /\ LeftRule(<<>>, k, q) /\ RightRule(<<>>, k, q)
         /\ ResetRule(<<>>, k)
BY DEF FromCodec, LeftRule, RightRule, ResetRule

Sole(op, k, a, d) == op.data = d /\ \A b : Writes(op, k, b) <=> b = a

(* A register write is one.                                                 *)
LEMMA SoleWrite ==
  ASSUME NEW k, NEW a, NEW d, NEW op, op = CodecOp(k, a, d)
  PROVE  Sole(op, k, a, d) /\ op.op = "codec" /\ op.codec = k
<1>1. op.op = "codec" /\ op.codec = k /\ op.addr = a /\ op.data = d
  BY FrameHead
<1>2. QED
  BY <1>1 DEF Sole, Writes, WritesTo

(* A script of one write.                                                   *)
LEMMA OneWrite ==
  ASSUME NEW k, NEW a, NEW d, NEW t, t = <<CodecOp(k, a, d)>>
  PROVE  DOMAIN t = {1} /\ Sole(t[1], k, a, d) /\ FromCodec(t, k)
<1> DEFINE op == CodecOp(k, a, d)
<1>1. t = <<op>>
  OBVIOUS
<1>2. Sole(op, k, a, d) /\ op.op = "codec" /\ op.codec = k
  BY SoleWrite
<1> HIDE DEF op
<1>3. DOMAIN t = {1} /\ t[1] = op
  BY <1>1
<1>4. QED
  BY <1>2, <1>3 DEF FromCodec

(* Of a register that is no volume.                                         *)
LEMMA PlainWrite ==
  ASSUME NEW k, NEW a \in CodecRegs, NEW d, \A ch \in Channels : a # LeftOf(ch) /\ a # RightOf(ch),
         NEW q, NEW t, t = <<CodecOp(k, a, d)>>
  PROVE  LeftRule(t, k, q) /\ RightRule(t, k, q) /\ ResetRule(t, k)
<1>1. DOMAIN t = {1} /\ \A b : Writes(t[1], k, b) <=> b = a
  <2>1. DOMAIN t = {1} /\ Sole(t[1], k, a, d)
    BY OneWrite
  <2>2. QED
    BY Zenon, <2>1 DEF Sole
<1>2. a # CodecReset
  BY DEF CodecRegs, CodecReset
<1> HIDE DEF CodecRegs
<1>3. LeftRule(t, k, q)
  BY <1>1 DEF LeftRule
<1>4. RightRule(t, k, q)
  BY <1>1 DEF RightRule
<1>5. ResetRule(t, k)
  BY <1>1, <1>2 DEF ResetRule
<1>6. QED
  BY <1>3, <1>4, <1>5

(* The write that restores the volume is the right one of the first channel.*)
LEMMA RestoreWrite ==
  ASSUME NEW k, NEW d, Update \in d, NEW q, d \ {Update} = q[1][2],
         NEW t, t = <<CodecOp(k, 1, d)>>
  PROVE  LeftRule(t, k, q) /\ RightRule(t, k, q) /\ ResetRule(t, k)
<1>1. DOMAIN t = {1} /\ t[1].data = d /\ \A b : Writes(t[1], k, b) <=> b = 1
  <2>1. DOMAIN t = {1} /\ Sole(t[1], k, 1, d)
    BY OneWrite
  <2>2. QED
    BY Zenon, <2>1 DEF Sole
<1>2. /\ \A ch \in Channels : LeftOf(ch) # 1 /\ (RightOf(ch) = 1 => ch = 1)
      /\ 1 # CodecReset
  BY VolumeAddrs DEF CodecReset
<1>3. LeftRule(t, k, q)
  BY <1>1, <1>2 DEF LeftRule
<1>4. RightRule(t, k, q)
  BY <1>1, <1>2 DEF RightRule
<1>5. ResetRule(t, k)
  BY <1>1, <1>2 DEF ResetRule
<1>6. QED
  BY <1>3, <1>4, <1>5

(* Two steps and the rest of a script.                                      *)
LEMMA FirstTwo ==
  ASSUME NEW S, NEW x \in S, NEW y \in S, NEW w \in Seq(S), NEW t, t = <<x>> \o <<y>> \o w
  PROVE  /\ DOMAIN t = 1 .. Len(w) + 2 /\ t[1] = x /\ t[2] = y /\ Len(w) \in Nat
         /\ \A i \in 1 .. Len(w) : t[i + 2] = w[i]
<1> DEFINE a == <<x>>
           b == <<y>>
           u == a \o b
<1>1. a \in Seq(S) /\ Len(a) = 1 /\ a[1] = x /\ b \in Seq(S) /\ Len(b) = 1 /\ b[1] = y
  OBVIOUS
<1>0. t = u \o w
  OBVIOUS
<1> HIDE DEF a, b
<1>2. u \in Seq(S) /\ Len(u) = Len(a) + Len(b)
      /\ \A i \in 1 .. Len(a) + Len(b) : u[i] = IF i <= Len(a) THEN a[i] ELSE b[i - Len(a)]
  BY <1>1, ConcatProperties
<1> HIDE DEF u
<1>3. Len(u) = 2 /\ u[1] = x /\ u[2] = y
  BY <1>1, <1>2
<1>4. t \in Seq(S) /\ Len(t) = Len(u) + Len(w)
      /\ \A i \in 1 .. Len(u) + Len(w) : t[i] = IF i <= Len(u) THEN u[i] ELSE w[i - Len(u)]
  <2>1. u \o w \in Seq(S) /\ Len(u \o w) = Len(u) + Len(w)
        /\ \A i \in 1 .. Len(u) + Len(w) :
             (u \o w)[i] = IF i <= Len(u) THEN u[i] ELSE w[i - Len(u)]
    BY <1>2, ConcatProperties
  <2>2. QED
    BY Zenon, <1>0, <2>1
<1>5. Len(w) \in Nat /\ DOMAIN t = 1 .. Len(t)
  BY <1>4, LenProperties
<1>6. t[1] = x /\ t[2] = y
  BY <1>3, <1>4, <1>5
<1>7. ASSUME NEW i \in 1 .. Len(w) PROVE t[i + 2] = w[i]
  <2>1. i + 2 \in 1 .. Len(u) + Len(w) /\ ~(i + 2 <= Len(u)) /\ i + 2 - Len(u) = i
    BY <1>3, <1>5
  <2>2. QED
    BY <1>4, <2>1
<1>8. QED
  BY <1>3, <1>4, <1>5, <1>6, <1>7

(* A volume is written to both sides of its channel.                        *)
LEMMA VolumeWrites ==
  ASSUME NEW k, NEW c \in Channels, NEW x, NEW y, Update \notin x, Update \notin y,
         NEW q, q[c][1] = x, q[c][2] = y, NEW t,
         t = <<CodecOp(k, LeftOf(c), x)>> \o <<CodecOp(k, RightOf(c), y \cup {Update})>>
  PROVE  /\ LeftRule(t, k, q) /\ RightRule(t, k, q) /\ ResetRule(t, k) /\ FromCodec(t, k)
         /\ Pending(t, k, LeftOf(c)) /\ Pending(t, k, RightOf(c))
<1> DEFINE u == CodecOp(k, LeftOf(c), x)
           v == CodecOp(k, RightOf(c), y \cup {Update})
<1>20. t = <<u>> \o <<v>>
  OBVIOUS
<1>2. /\ u.op = "codec" /\ u.codec = k /\ u.addr = LeftOf(c) /\ u.data = x
      /\ v.op = "codec" /\ v.codec = k /\ v.addr = RightOf(c) /\ v.data = y \cup {Update}
  BY FrameHead
<1> HIDE DEF u, v
<1>1. DOMAIN t = {1, 2} /\ t[1] = u /\ t[2] = v
  <2> DEFINE U == {u, v}
             e == <<>>
  <2>1. u \in U /\ v \in U /\ e \in Seq(U) /\ Len(e) = 0
    OBVIOUS
  <2>2. t = <<u>> \o <<v>> \o e
    <3>1. <<u>> \o <<v>> \in Seq(U)
      BY <2>1
    <3>2. QED
      BY <1>20, <3>1, ConcatEmptySeq
  <2> HIDE DEF U, e
  <2>3. DOMAIN t = 1 .. Len(e) + 2 /\ t[1] = u /\ t[2] = v
    BY <2>1, <2>2, FirstTwo
  <2>4. QED
    BY <2>1, <2>3
<1>3. /\ \A a : Writes(t[1], k, a) <=> a = LeftOf(c)
      /\ \A a : Writes(t[2], k, a) <=> a = RightOf(c)
      /\ t[1].data = x /\ t[2].data = y \cup {Update} /\ FromCodec(t, k)
  BY <1>1, <1>2 DEF Writes, WritesTo, FromCodec
<1>4. /\ \A ch \in Channels : LeftOf(ch) # RightOf(c) /\ RightOf(ch) # LeftOf(c)
      /\ \A ch \in Channels : (LeftOf(ch) = LeftOf(c) \/ RightOf(ch) = RightOf(c)) => ch = c
      /\ CodecReset # LeftOf(c) /\ CodecReset # RightOf(c)
  BY VolumeAddrs DEF CodecReset
<1>5. LeftRule(t, k, q)
  <2> SUFFICES ASSUME NEW i \in DOMAIN t, NEW ch \in Channels, Writes(t[i], k, LeftOf(ch))
      PROVE  /\ t[i].data = q[ch][1] /\ Update \notin t[i].data
             /\ i + 1 \in DOMAIN t /\ Writes(t[i + 1], k, RightOf(ch))
    BY DEF LeftRule
  <2>1. i = 1 /\ ch = c
    BY <1>1, <1>3, <1>4
  <2>2. QED
    BY <1>1, <1>3, <2>1
<1>6. RightRule(t, k, q)
  <2> SUFFICES ASSUME NEW i \in DOMAIN t, NEW ch \in Channels, Writes(t[i], k, RightOf(ch))
      PROVE  /\ t[i].data \ {Update} = q[ch][2] /\ Update \in t[i].data
             /\ \A j \in DOMAIN t : j > i => ~Writes(t[j], k, LeftOf(ch))
    BY DEF RightRule
  <2>1. i = 2 /\ ch = c
    BY <1>1, <1>3, <1>4
  <2>2. (y \cup {Update}) \ {Update} = y
    OBVIOUS
  <2>3. QED
    BY <1>1, <1>3, <2>1, <2>2
<1>7. ResetRule(t, k)
  BY <1>1, <1>3, <1>4 DEF ResetRule
<1>8. Pending(t, k, LeftOf(c)) /\ Pending(t, k, RightOf(c))
  BY <1>1, <1>3 DEF Pending
<1>9. QED
  BY <1>3, <1>5, <1>6, <1>7, <1>8

(* All registers are written from the cache.                                *)
LEMMA ResumeWrites ==
  ASSUME NEW k, NEW m, NEW chip, NEW q, Steady(m, chip, q),
         NEW t, t = [i \in 1 .. 16 |-> CodecOp(k, i - 1, m[i - 1])]
  PROVE  LeftRule(t, k, q) /\ RightRule(t, k, q) /\ ResetRule(t, k) /\ FromCodec(t, k)
<1>1. DOMAIN t = 1 .. 16
  OBVIOUS
<1>2. ASSUME NEW i \in 1 .. 16
      PROVE  /\ \A a : Writes(t[i], k, a) <=> a = i - 1
             /\ t[i].data = m[i - 1] /\ t[i].op = "codec" /\ t[i].codec = k
  <2> DEFINE op == t[i]
             j == i - 1
             d == m[j]
  <2>1. op = CodecOp(k, j, d)
    OBVIOUS
  <2> HIDE DEF op, d
  <2>2. Sole(op, k, j, d) /\ op.op = "codec" /\ op.codec = k
    BY <2>1, SoleWrite
  <2>3. QED
    BY <2>2 DEF Sole, op, d
<1>3. \A ch \in Channels : LeftOf(ch) \in 0 .. 6 /\ RightOf(ch) = LeftOf(ch) + 1
  BY VolumeAddrs
<1>4. LeftRule(t, k, q)
  <2> SUFFICES ASSUME NEW i \in 1 .. 16, NEW ch \in Channels, Writes(t[i], k, LeftOf(ch))
      PROVE  /\ t[i].data = q[ch][1] /\ Update \notin t[i].data
             /\ i + 1 \in 1 .. 16 /\ Writes(t[i + 1], k, RightOf(ch))
    BY <1>1 DEF LeftRule
  <2>1. LeftOf(ch) = i - 1
    BY <1>2
  <2>2. i + 1 \in 1 .. 16 /\ RightOf(ch) = (i + 1) - 1
    BY <1>3, <2>1
  <2>3. m[i - 1] = q[ch][1] /\ Update \notin q[ch][1]
    BY <2>1 DEF Steady
  <2>4. QED
    BY <1>2, <2>2, <2>3
<1>5. RightRule(t, k, q)
  <2> SUFFICES ASSUME NEW i \in 1 .. 16, NEW ch \in Channels, Writes(t[i], k, RightOf(ch))
      PROVE  /\ t[i].data \ {Update} = q[ch][2] /\ Update \in t[i].data
             /\ \A j \in 1 .. 16 : j > i => ~Writes(t[j], k, LeftOf(ch))
    BY <1>1 DEF RightRule
  <2>1. RightOf(ch) = i - 1
    BY <1>2
  <2>2. m[i - 1] \ {Update} = q[ch][2] /\ Update \in m[i - 1]
    BY <2>1 DEF Steady
  <2>3. ASSUME NEW j \in 1 .. 16, j > i PROVE ~Writes(t[j], k, LeftOf(ch))
    <3>1. LeftOf(ch) # j - 1
      BY <1>3, <2>1, <2>3
    <3>2. QED
      BY <1>2, <3>1
  <2>4. QED
    BY <1>2, <2>2, <2>3
<1>6. ResetRule(t, k)
  <2>1. \A i \in 1 .. 16 : CodecReset # i - 1
    BY DEF CodecReset
  <2>2. QED
    BY <1>1, <1>2, <2>1 DEF ResetRule
<1>7. FromCodec(t, k)
  BY <1>1, <1>2 DEF FromCodec
<1>8. QED
  BY <1>4, <1>5, <1>6, <1>7

(* The default value of a right volume is its update bit.                   *)
LEMMA UpdateBits == Bits(256) = {Update}
<1>1. /\ (256 \div 1) % 2 = 0 /\ (256 \div 2) % 2 = 0 /\ (256 \div 4) % 2 = 0
      /\ (256 \div 8) % 2 = 0 /\ (256 \div 16) % 2 = 0 /\ (256 \div 32) % 2 = 0
      /\ (256 \div 64) % 2 = 0 /\ (256 \div 128) % 2 = 0 /\ (256 \div 256) % 2 = 1
  OBVIOUS
<1>2. ASSUME NEW i \in Bits(256) PROVE i = 8
  <2>1. i \in 0 .. 8
    BY BitsBelow
  <2>2. (256 \div 2^i) % 2 = 1
    BY DEF Bits
  <2>3. i = 0 \/ i = 1 \/ i = 2 \/ i = 3 \/ i = 4 \/ i = 5 \/ i = 6 \/ i = 7 \/ i = 8
    BY <2>1
  <2>4. CASE i = 0
    BY <1>1, <2>2, <2>4, Powers
  <2>5. CASE i = 1
    BY <1>1, <2>2, <2>5, Powers
  <2>6. CASE i = 2
    BY <1>1, <2>2, <2>6, Powers
  <2>7. CASE i = 3
    BY <1>1, <2>2, <2>7, Powers
  <2>8. CASE i = 4
    BY <1>1, <2>2, <2>8, Powers
  <2>9. CASE i = 5
    BY <1>1, <2>2, <2>9, Powers
  <2>10. CASE i = 6
    BY <1>1, <2>2, <2>10, Powers
  <2>11. CASE i = 7
    BY <1>1, <2>2, <2>11, Powers
  <2>12. QED
    BY <2>3, <2>4, <2>5, <2>6, <2>7, <2>8, <2>9, <2>10, <2>11
<1>3. 8 \in Bits(256)
  <2> DEFINE i == 8
  <2>1. i \in 0 .. 15
    OBVIOUS
  <2>2. (256 \div 2^i) % 2 = 1
    BY <1>1, Powers
  <2> HIDE DEF i
  <2>3. i \in Bits(256)
    BY <2>1, <2>2 DEF Bits
  <2>4. QED
    BY <2>3 DEF i
<1>4. QED
  BY <1>2, <1>3 DEF Update

(* The values that are written to the volumes.                              *)
LEMMA DefaultVolumes ==
  ASSUME NEW ch \in Channels
  PROVE  /\ LeftOf(ch) \in 0 .. 9 /\ RightOf(ch) = LeftOf(ch) + 1
         /\ Bits(DefaultValues[LeftOf(ch) + 1]) = {}
         /\ Bits(DefaultValues[RightOf(ch) + 1]) = {Update}
<1>1. /\ DefaultValues[1] = 0 /\ DefaultValues[5] = 0 /\ DefaultValues[7] = 0
      /\ DefaultValues[2] = 256 /\ DefaultValues[6] = 256 /\ DefaultValues[8] = 256
  BY DEF DefaultValues
<1>2. ch = 1 \/ ch = 2 \/ ch = 3
  BY VolumeAddrs
<1>3. CASE ch = 1
  BY <1>1, <1>3, VolumeAddrs, UpdateBits, NoBits
<1>4. CASE ch = 2
  BY <1>1, <1>4, VolumeAddrs, UpdateBits, NoBits
<1>5. CASE ch = 3
  BY <1>1, <1>5, VolumeAddrs, UpdateBits, NoBits
<1>6. QED
  BY <1>2, <1>3, <1>4, <1>5

(* The mode pads do not clock or select a codec.                            *)
LEMMA ModeTame ==
  ASSUME NEW k \in Codecs PROVE Tame(PadOut(Pins(k).mode, {}))
<1>1. PadOut(Pins(k).mode, {}) \in PadOuts
  BY PinsDiffer, PadOutIn
<1>2. ASSUME NEW a, NEW b, NEW v, NEW u, PadOut(a, v) = PadOut(b, u) PROVE a = b
  <2>1. PadOut(a, v).field.lo = a /\ PadOut(b, u).field.lo = b
    BY DEF PadOut, Field
  <2>2. QED
    BY <1>2, <2>1
<1>3. ASSUME NEW j \in Codecs
      PROVE  /\ PadOut(Pins(k).mode, {}) # PadOut(Pins(j).clk, {0})
             /\ PadOut(Pins(k).mode, {}) # PadOut(Pins(j).cs, {})
  <2>1. Pins(k).mode # Pins(j).clk /\ Pins(k).mode # Pins(j).cs
    BY PinsDiffer
  <2>2. QED
    BY Zenon, <1>2, <2>1
<1>4. QED
  BY Zenon, <1>1, <1>3 DEF Tame

(* The initialisation: the mode pad, the reset, and every register.         *)
LEMMA InitWrites ==
  ASSUME NEW k \in Codecs, NEW w, w = [i \in 1 .. 11 |-> CodecOp(k, i - 1, Bits(DefaultValues[i]))],
         NEW t, t = <<PadOut(Pins(k).mode, {})>> \o <<CodecOp(k, CodecReset, {})>> \o w,
         NEW q, q = [ch \in Channels |-> <<{}, {}>>], NEW m, NEW chip, Untold(chip)
  PROVE  Told(t, k, m, chip, q) /\ FromCodec(t, k)
<1> DEFINE x == PadOut(Pins(k).mode, {})
           y == CodecOp(k, CodecReset, {})
           S == {x, y} \cup {CodecOp(k, i - 1, Bits(DefaultValues[i])) : i \in 1 .. 11}
<1>1. /\ x.op = "out" /\ Tame(x)
      /\ Sole(y, k, CodecReset, {}) /\ y.op = "codec" /\ y.codec = k
  <2>1. x.op = "out"
    BY DEF PadOut
  <2>2. QED
    BY <2>1, ModeTame, SoleWrite
<1>2. w \in Seq(S) /\ Len(w) = 11
  <2>1. w \in [1 .. 11 -> S]
    OBVIOUS
  <2>2. QED
    BY <2>1, FunctionSeq
<1>3. ASSUME NEW i \in 1 .. 11
      PROVE  /\ Sole(w[i], k, i - 1, Bits(DefaultValues[i]))
             /\ w[i].op = "codec" /\ w[i].codec = k
  <2> DEFINE j == i - 1
             d == Bits(DefaultValues[i])
             op == w[i]
  <2>1. op = CodecOp(k, j, d)
    OBVIOUS
  <2> HIDE DEF j, d, op
  <2>2. Sole(op, k, j, d) /\ op.op = "codec" /\ op.codec = k
    BY <2>1, SoleWrite
  <2>3. QED
    BY <2>2 DEF j, d, op
<1>4. t = <<x>> \o <<y>> \o w /\ x \in S /\ y \in S
  OBVIOUS
<1> HIDE DEF x, y, S
<1>5. /\ DOMAIN t = 1 .. 13 /\ t[1] = x /\ t[2] = y
      /\ \A i \in 1 .. 11 : t[i + 2] = w[i]
  BY <1>2, <1>4, FirstTwo
<1>6. ASSUME NEW i \in 3 .. 13
      PROVE  /\ t[i].op = "codec" /\ t[i].codec = k
             /\ t[i].data = Bits(DefaultValues[i - 2])
             /\ \A a : Writes(t[i], k, a) <=> a = i - 3
  <2> DEFINE n == i - 2
             z == w[n]
             d == Bits(DefaultValues[n])
  <2>1. n \in 1 .. 11 /\ n + 2 = i /\ n - 1 = i - 3
    OBVIOUS
  <2>2. t[i] = z
    BY <1>5, <2>1
  <2>3. Sole(z, k, n - 1, d) /\ z.op = "codec" /\ z.codec = k
    BY <1>3, <2>1
  <2>4. Sole(z, k, i - 3, d)
    BY <2>1, <2>3
  <2> HIDE DEF z, d
  <2>5. QED
    BY Zenon, <2>2, <2>3, <2>4 DEF Sole, n, d
<1>7. /\ \A a : Writes(t[2], k, a) <=> a = CodecReset
      /\ \A a : ~Writes(t[1], k, a)
  BY <1>1, <1>5 DEF Sole, Writes, WritesTo
<1>8. ASSUME NEW i \in 1 .. 13, NEW a \in 0 .. 10, Writes(t[i], k, a) PROVE i = a + 3
  <2>1. i # 1 /\ i # 2
    BY <1>7, <1>8 DEF CodecReset
  <2>2. i \in 3 .. 13
    BY <2>1
  <2>3. a = i - 3
    BY <1>6, <1>8, <2>2
  <2>4. QED
    BY <2>3
<1>9. ASSUME NEW a \in 0 .. 10
      PROVE  /\ a + 3 \in 1 .. 13 /\ Writes(t[a + 3], k, a)
             /\ t[a + 3].data = Bits(DefaultValues[a + 1])
  <2> DEFINE i == a + 3
  <2>1. i \in 3 .. 13 /\ i - 3 = a /\ i - 2 = a + 1
    OBVIOUS
  <2> HIDE DEF i
  <2>2. Writes(t[i], k, i - 3) /\ t[i].data = Bits(DefaultValues[i - 2])
    BY <1>6, <2>1
  <2>3. QED
    BY <2>1, <2>2 DEF i
<1>10. \A ch \in Channels : q[ch][1] = {} /\ q[ch][2] = {} /\ q[ch] = <<{}, {}>>
  OBVIOUS
<1>11. LeftRule(t, k, q)
  <2> SUFFICES ASSUME NEW i \in 1 .. 13, NEW ch \in Channels, Writes(t[i], k, LeftOf(ch))
      PROVE  /\ t[i].data = q[ch][1] /\ Update \notin t[i].data
             /\ i + 1 \in 1 .. 13 /\ Writes(t[i + 1], k, RightOf(ch))
    BY <1>5 DEF LeftRule
  <2> DEFINE a == LeftOf(ch)
  <2>1. a \in 0 .. 9 /\ RightOf(ch) = a + 1 /\ Bits(DefaultValues[a + 1]) = {}
    BY DefaultVolumes
  <2>2. Writes(t[i], k, a)
    OBVIOUS
  <2> HIDE DEF a
  <2>3. i = a + 3 /\ t[a + 3].data = Bits(DefaultValues[a + 1])
    BY <1>8, <1>9, <2>1, <2>2
  <2>4. a + 1 \in 0 .. 10 /\ (a + 1) + 3 = i + 1
    BY <2>1, <2>3
  <2>5. i + 1 \in 1 .. 13 /\ Writes(t[i + 1], k, a + 1)
    BY <1>9, <2>4
  <2>6. QED
    BY <1>10, <2>1, <2>3, <2>5
<1>12. RightRule(t, k, q)
  <2> SUFFICES ASSUME NEW i \in 1 .. 13, NEW ch \in Channels, Writes(t[i], k, RightOf(ch))
      PROVE  /\ t[i].data \ {Update} = q[ch][2] /\ Update \in t[i].data
             /\ \A j \in 1 .. 13 : j > i => ~Writes(t[j], k, LeftOf(ch))
    BY <1>5 DEF RightRule
  <2> DEFINE a == RightOf(ch)
             b == LeftOf(ch)
  <2>1. a \in 0 .. 10 /\ b \in 0 .. 10 /\ a = b + 1 /\ Bits(DefaultValues[a + 1]) = {Update}
    BY DefaultVolumes
  <2>2. Writes(t[i], k, a)
    OBVIOUS
  <2> HIDE DEF a, b
  <2>3. i = a + 3 /\ t[a + 3].data = Bits(DefaultValues[a + 1])
    BY <1>8, <1>9, <2>1, <2>2
  <2>4. ASSUME NEW j \in 1 .. 13, j > i PROVE ~Writes(t[j], k, b)
    BY <1>8, <2>1, <2>3, <2>4
  <2>5. t[i].data = {Update}
    BY <2>1, <2>3
  <2>6. QED
    BY <1>10, <2>4, <2>5 DEF b
<1>13. ResetRule(t, k)
  <2> SUFFICES ASSUME NEW i \in 1 .. 13, Writes(t[i], k, CodecReset), NEW a \in 0 .. 10
      PROVE  \E j \in 1 .. 13 : j > i /\ Writes(t[j], k, a)
    BY <1>5 DEF ResetRule
  <2>1. i <= 2
    BY <1>6 DEF CodecReset
  <2>2. a + 3 > i
    BY <2>1
  <2>3. QED
    BY <1>9, <2>2
<1>14. ASSUME NEW a \in 0 .. 10 PROVE Pending(t, k, a)
  BY <1>5, <1>9 DEF Pending
<1>15. \A ch \in Channels : LeftOf(ch) \in 0 .. 10 /\ RightOf(ch) \in 0 .. 10
  BY DefaultVolumes
<1>16. RegsAgree(t, k, m, chip) /\ LeftAgrees(t, k, m, chip, q) /\ RightAgrees(t, k, m, chip, q)
  BY <1>14, <1>15 DEF RegsAgree, LeftAgrees, RightAgrees
<1>17. HeldTogether(t, k, chip, q)
  BY DEF Untold, HeldTogether, Balanced
<1>18. FromCodec(t, k)
  <2> SUFFICES ASSUME NEW i \in 1 .. 13
      PROVE  (t[i].op = "codec" /\ t[i].codec = k) \/ (t[i].op = "out" /\ Tame(t[i]))
    BY <1>5 DEF FromCodec
  <2>1. i = 1 \/ i = 2 \/ i \in 3 .. 13
    OBVIOUS
  <2>2. QED
    BY <1>1, <1>5, <1>6, <2>1
<1>19. QED
  BY <1>11, <1>12, <1>13, <1>16, <1>17, <1>18 DEF Told

-----------------------------------------------------------------------------
(* A codec between the calls.                                               *)
Settled(m, chip, q) == Untold(chip) /\ (q # None => Steady(m, chip, q))

(* Whoever does not talk to the codecs leaves them so.                      *)
LEMMA QuietSettled ==
  ASSUME NEW S, NEW s \in Seq(S), NEW w, NEW m, NEW c \in [Codecs -> Watchers], NEW pads,
         NEW q \in [Codecs -> {None} \cup Volumes3], Speaking(s, w, m, c, pads, q),
         NEW k \in Codecs, Unwritten(s, k)
  PROVE  Settled(m[k], c[k].chip, q[k])
<1> DEFINE chip == c[k].chip
           qk == q[k]
           mk == m[k]
<1>1. chip \in Chips /\ (qk # None => qk \in Volumes3)
  BY DEF Watchers
<1>2. Informed(s, k, mk, chip, qk)
  BY DEF Speaking
<1> HIDE DEF chip, qk, mk
<1>3. Settled(mk, chip, qk)
  <2>1. CASE qk = None
    BY <1>2, <2>1 DEF Informed, Settled
  <2>2. CASE qk # None
    <3>1. Told(s, k, mk, chip, qk)
      BY <1>2, <2>2 DEF Informed
    <3>2. Steady(mk, chip, qk)
      BY <1>1, <2>2, <3>1, ToldSteady
    <3>3. QED
      BY <3>2, SteadyUntold DEF Settled
  <2>3. QED
    BY <2>1, <2>2
<1>4. QED
  BY <1>3 DEF mk, chip, qk

(* And takes no bits.                                                       *)
LEMMA QuietBits ==
  ASSUME NEW S, NEW s \in Seq(S), NEW w, NEW m, NEW c, NEW pads, NEW q,
         Speaking(s, w, m, c, pads, q), Frameless(s), NEW k \in Codecs
  PROVE  c[k].bits = <<>>
<1>1. Framing(s, k, m[k], c[k].bits, pads)
  BY DEF Speaking
<1>2. QED
  BY <1>1, FramelessFacts

(* The driver's structure is cleared: the codec is as before its init.      *)
LEMMA SpeakForget ==
  ASSUME NEW S, NEW s \in Seq(S), s # <<>>, s[1].op = "forget", NEW k \in Codecs,
         NEW w, NEW m \in [Codecs -> Caches], NEW c \in [Codecs -> Watchers], NEW pads,
         NEW q \in [Codecs -> {None} \cup Volumes3], Speaking(s, w, m, c, pads, q),
         Unwritten(Tail(s), k), NEW x, NEW n, n = [m EXCEPT ![k] = x],
         NEW r, r = [q EXCEPT ![k] = None]
  PROVE  Speaking(Tail(s), None, n, c, pads, r)
<1> DEFINE t == Tail(s)
<1>1. Speaking(t, None, m, c, pads, q)
  BY SpeakOn
<1>2. t \in Seq(S) /\ Frameless(t)
  BY HeadAndTail, TailFrameless DEF Speaking
<1>0. Unwritten(t, k)
  OBVIOUS
<1> HIDE DEF t
<1>3. ASSUME NEW j \in Codecs PROVE Framing(t, j, n[j], c[j].bits, pads)
  <2>1. c[j].bits = <<>>
    BY <1>1, <1>2, QuietBits
  <2>2. QED
    BY <1>2, <2>1, FramelessFacts
<1>4. ASSUME NEW j \in Codecs PROVE Informed(t, j, n[j], c[j].chip, r[j])
  <2>1. CASE j = k
    <3>1. Settled(m[k], c[k].chip, q[k])
      BY <1>0, <1>1, <1>2, QuietSettled
    <3>2. r[k] = None
      OBVIOUS
    <3>3. QED
      BY <2>1, <3>1, <3>2 DEF Settled, Informed
  <2>2. CASE j # k
    <3>1. n[j] = m[j] /\ r[j] = q[j]
      BY <2>2
    <3>2. Informed(t, j, m[j], c[j].chip, q[j])
      BY <1>1 DEF Speaking
    <3>3. QED
      BY <3>1, <3>2
  <2>3. QED
    BY <2>1, <2>2
<1>5. QED
  BY <1>1, <1>3, <1>4 DEF Speaking, t

(* A call: the script that begins.                                          *)
Instructed(t, m, c, r) ==
  /\ Frameless(t) /\ TameOuts(t)
  /\ \A j \in Codecs : r[j] # None => Told(t, j, m[j], c[j].chip, r[j])

(* It begins when nobody talks to the codecs.                               *)
LEMMA SpeakStart ==
  ASSUME NEW S, NEW s \in Seq(S), ~Talks(s), NEW w, NEW m, NEW c \in [Codecs -> Watchers],
         NEW pads, NEW q \in [Codecs -> {None} \cup Volumes3], Speaking(s, w, m, c, pads, q),
         NEW t \in Seq(S), NEW r, Instructed(t, m, c, r)
  PROVE  Speaking(t, None, m, c, pads, r)
<1>1. FramesFirst(t) /\ TameOuts(t) /\ WordOfPads(t, None, pads)
  BY FramelessFacts DEF Instructed, WordOfPads
<1>2. Frameless(s) /\ \A k : Unwritten(s, k)
  BY QuietScript
<1>3. ASSUME NEW k \in Codecs PROVE Framing(t, k, m[k], c[k].bits, pads)
  <2>1. c[k].bits = <<>>
    BY <1>2, QuietBits
  <2>2. QED
    BY <2>1, FramelessFacts DEF Instructed
<1>4. ASSUME NEW k \in Codecs PROVE Informed(t, k, m[k], c[k].chip, r[k])
  <2>1. Untold(c[k].chip)
    BY <1>2, QuietSettled DEF Settled
  <2>2. QED
    BY <2>1 DEF Informed, Instructed
<1>5. QED
  BY <1>1, <1>3, <1>4 DEF Speaking

(* The other codec is told nothing, and agrees already.                     *)
LEMMA SettledTold ==
  ASSUME NEW t, NEW k, Unwritten(t, k), NEW m, NEW chip, NEW q, q # None, Settled(m, chip, q)
  PROVE  Told(t, k, m, chip, q)
<1>1. LeftRule(t, k, q) /\ RightRule(t, k, q) /\ ResetRule(t, k)
  BY UnwrittenRules
<1>2. Steady(m, chip, q)
  BY DEF Settled
<1>3. QED
  BY <1>1, <1>2, SteadyTold

(* A script of the driver of codec k.                                       *)
LEMMA DriverInstructed ==
  ASSUME NEW k, NEW t, FromCodec(t, k), NEW m, NEW c, NEW q,
         \A j \in Codecs : Settled(m[j], c[j].chip, q[j]),
         NEW r, \A j \in Codecs : j # k => r[j] = q[j],
         r[k] # None => Told(t, k, m[k], c[k].chip, r[k])
  PROVE  Instructed(t, m, c, r)
<1>1. Frameless(t) /\ TameOuts(t) /\ \A j : j # k => Unwritten(t, j)
  BY FromCodecFacts
<1>2. ASSUME NEW j \in Codecs, r[j] # None PROVE Told(t, j, m[j], c[j].chip, r[j])
  <2>1. CASE j = k
    BY <1>2, <2>1
  <2>2. CASE j # k
    <3>1. Unwritten(t, j) /\ q[j] # None /\ Settled(m[j], c[j].chip, q[j]) /\ r[j] = q[j]
      BY <1>1, <1>2, <2>2
    <3>2. Told(t, j, m[j], c[j].chip, q[j])
      BY <3>1, SettledTold
    <3>3. QED
      BY <3>1, <3>2
  <2>3. QED
    BY <2>1, <2>2
<1>3. QED
  BY <1>1, <1>2 DEF Instructed

(* One that keeps to the rules for what was asked before.                   *)
LEMMA RulesInstruct ==
  ASSUME NEW k \in Codecs, NEW t, FromCodec(t, k), NEW m, NEW c, NEW q,
         \A j \in Codecs : Settled(m[j], c[j].chip, q[j]),
         q[k] # None => LeftRule(t, k, q[k]) /\ RightRule(t, k, q[k]) /\ ResetRule(t, k)
  PROVE  Instructed(t, m, c, q)
<1>1. ASSUME q[k] # None PROVE Told(t, k, m[k], c[k].chip, q[k])
  <2> DEFINE mk == m[k]
             chip == c[k].chip
             qk == q[k]
  <2>1. Steady(mk, chip, qk) /\ LeftRule(t, k, qk) /\ RightRule(t, k, qk) /\ ResetRule(t, k)
    BY <1>1 DEF Settled
  <2> HIDE DEF mk, chip, qk
  <2>2. \A ch \in Channels :
          qk[ch] = qk[ch] \/ (Pending(t, k, LeftOf(ch)) /\ Pending(t, k, RightOf(ch)))
    OBVIOUS
  <2>3. Told(t, k, mk, chip, qk)
    BY Zenon, <2>1, <2>2, SteadyTold
  <2>4. QED
    BY <2>3 DEF mk, chip, qk
<1>2. QED
  BY <1>1, DriverInstructed

(* The calls, one after the other.                                          *)
AllSettled == \A j \in Codecs : Settled(cache[j], codec[j].chip, asked[j])

(* A script of accesses says nothing to a codec.                            *)
LEMMA AccessInstructs ==
  ASSUME TypeInv, AllSettled, NEW p \in DOMAIN Programs, NEW c \in Calls(p), c.fun = "access"
  PROVE  Instructed(Script(c), cache, codec, Asked(c))
<1> DEFINE t == c.script
<1>1. t \in Seq(Accesses(p)) /\ Script(c) = t /\ Asked(c) = asked
  BY ScriptedAccess, ScriptAccess, AskedOf
<1> HIDE DEF t
<1>2. ASSUME NEW i \in DOMAIN t
      PROVE  t[i].op \notin {"codec", "frame"} /\ (t[i].op = "out" => Tame(t[i]))
  <2> DEFINE op == t[i]
  <2>1. op \in Accesses(p)
    BY <1>1
  <2>2. ProperAccess(op)
    BY <2>1, AccessIsProper
  <2>3. op.op \notin {"codec", "frame"}
    BY <2>1, OpKinds DEF Reaching
  <2>4. op.op = "out" => Tame(op)
    BY <2>2, ProperOut DEF Tame
  <2>5. QED
    BY <2>3, <2>4
<1>3. Frameless(t) /\ TameOuts(t) /\ \A k : Unwritten(t, k)
  BY <1>2 DEF Frameless, TameOuts, Unwritten, WritesTo
<1>4. ASSUME NEW j \in Codecs, asked[j] # None PROVE Told(t, j, cache[j], codec[j].chip, asked[j])
  BY <1>3, <1>4, SettledTold DEF AllSettled
<1>5. QED
  BY <1>1, <1>3, <1>4 DEF Instructed

(* The init: the volumes are asked anew.                                    *)
LEMMA InitInstructs ==
  ASSUME TypeInv, AllSettled, NEW c, c.fun = "init", c.codec \in Codecs
  PROVE  Instructed(Script(c), cache, codec, Asked(c))
<1> DEFINE k == c.codec
           t == Script(c)
           r == Asked(c)
           q == [ch \in Channels |-> <<{}, {}>>]
           w == [i \in 1 .. 11 |-> CodecOp(k, i - 1, Bits(DefaultValues[i]))]
<1>1. t = <<PadOut(Pins(k).mode, {})>> \o <<CodecOp(k, CodecReset, {})>> \o w
  <2>1. Bits(0) = {} /\ DOMAIN DefaultValues = 1 .. 11
    BY NoBits, Defaults
  <2>2. t = Wm8766Init(k)
    BY ScriptInit
  <2> HIDE DEF t, k
  <2>3. Wm8766Init(k) = <<PadOut(Pins(k).mode, {})>> \o <<CodecOp(k, CodecReset, {})>> \o w
    BY <2>1 DEF Wm8766Init, ExternalPad, CodecWrite
  <2>4. QED
    BY <2>2, <2>3
<1>2. r = [asked EXCEPT ![k] = q]
  BY AskedOf
<1>3. k \in Codecs /\ asked \in [Codecs -> {None} \cup Volumes3]
  BY DEF TypeInv
<1>4. Untold(codec[k].chip)
  BY DEF AllSettled, Settled
<1> HIDE DEF r, t, k
<1>5. r[k] = q /\ \A j \in Codecs : j # k => r[j] = asked[j]
  BY <1>2, <1>3
<1>6. Told(t, k, cache[k], codec[k].chip, q) /\ FromCodec(t, k)
  <2> DEFINE chip == codec[k].chip
             m == cache[k]
  <2>1. Untold(chip)
    BY <1>4
  <2> HIDE DEF chip, m
  <2>2. w = [i \in 1 .. 11 |-> CodecOp(k, i - 1, Bits(DefaultValues[i]))]
        /\ q = [ch \in Channels |-> <<{}, {}>>]
    OBVIOUS
  <2> HIDE DEF w, q
  <2>3. Told(t, k, m, chip, q) /\ FromCodec(t, k)
    BY <1>1, <1>3, <2>1, <2>2, InitWrites
  <2>4. QED
    BY <2>3 DEF chip, m
<1> HIDE DEF q, w
<1>7. Instructed(t, cache, codec, r)
  BY <1>5, <1>6, DriverInstructed DEF AllSettled
<1>8. QED
  BY <1>7 DEF t, r

(* All registers again.                                                     *)
LEMMA ResumeInstructs ==
  ASSUME TypeInv, AllSettled, NEW c, c.fun = "resume", c.codec \in Codecs
  PROVE  Instructed(Script(c), cache, codec, Asked(c))
<1> DEFINE k == c.codec
           t == Script(c)
           m == cache[k]
           chip == codec[k].chip
<1>1. t = [i \in 1 .. 16 |-> CodecOp(k, i - 1, m[i - 1])] /\ Asked(c) = asked /\ k \in Codecs
  BY ScriptResume, AskedOf DEF Wm8766Resume
<1>2. asked[k] # None => Steady(m, chip, asked[k])
  BY DEF AllSettled, Settled
<1>3. FromCodec(t, k)
  <2> HIDE DEF m, t, k
  <2>1. ASSUME NEW i \in 1 .. 16 PROVE t[i].op = "codec" /\ t[i].codec = k
    <3> DEFINE d == m[i - 1]
               j == i - 1
               op == t[i]
    <3>1. op = CodecOp(k, j, d)
      BY <1>1
    <3> HIDE DEF d, j, op
    <3>2. op.op = "codec" /\ op.codec = k
      BY <3>1, SoleWrite
    <3>3. QED
      BY <3>2 DEF op
  <2>2. DOMAIN t = 1 .. 16
    BY <1>1
  <2>3. QED
    BY <2>1, <2>2 DEF FromCodec
<1> HIDE DEF t, m, chip, k
<1>4. asked[k] # None => LeftRule(t, k, asked[k]) /\ RightRule(t, k, asked[k]) /\ ResetRule(t, k)
  BY <1>1, <1>2, ResumeWrites
<1>5. Instructed(t, cache, codec, asked)
  BY <1>1, <1>3, <1>4, RulesInstruct DEF AllSettled
<1>6. QED
  BY <1>1, <1>5 DEF t

(* The volume is restored.                                                  *)
LEMMA RestoreInstructs ==
  ASSUME TypeInv, AllSettled, NEW c, c.fun = "volume_restore", c.codec \in Codecs
  PROVE  Instructed(Script(c), cache, codec, Asked(c))
<1> DEFINE k == c.codec
           t == Script(c)
           m == cache[k]
           d == m[1] \cup {Update}
<1>1. k \in Codecs /\ m \in Caches /\ Asked(c) = asked
  BY AskedOf DEF TypeInv
<1>2. t = VolumeRestore(k, m)
  BY ScriptRestore
<1>3. asked[k] # None => Steady(m, codec[k].chip, asked[k])
  BY DEF AllSettled, Settled
<1> HIDE DEF t, m, k
<1>4. t = <<CodecOp(k, 1, d)>>
  BY <1>1, <1>2, RestoreScript
<1>5. ASSUME asked[k] # None
      PROVE LeftRule(t, k, asked[k]) /\ RightRule(t, k, asked[k]) /\ ResetRule(t, k)
  <2>1. m[RightOf(1)] \ {Update} = asked[k][1][2] /\ RightOf(1) = 1
    BY <1>3, <1>5, VolumeAddrs DEF Steady
  <2>2. d \ {Update} = asked[k][1][2] /\ Update \in d
    BY <2>1
  <2> HIDE DEF d
  <2>3. QED
    BY <1>4, <2>2, RestoreWrite
<1> HIDE DEF d
<1>6. FromCodec(t, k)
  BY <1>4, OneWrite
<1>7. Instructed(t, cache, codec, asked)
  BY <1>1, <1>5, <1>6, RulesInstruct DEF AllSettled
<1>8. QED
  BY <1>1, <1>7 DEF t

(* One write of a register that is no volume, or none.                      *)
LEMMA PlainInstructs ==
  ASSUME TypeInv, AllSettled, NEW k \in Codecs, NEW t,
         t = <<>> \/ \E a \in {2, 3, 9, 10}, d \in RegData : t = <<CodecOp(k, a, d)>>
  PROVE  Instructed(t, cache, codec, asked)
<1>1. FromCodec(t, k)
  BY NoWrite, OneWrite
<1>2. \A q : LeftRule(t, k, q) /\ RightRule(t, k, q) /\ ResetRule(t, k)
  <2> SUFFICES ASSUME NEW q PROVE LeftRule(t, k, q) /\ RightRule(t, k, q) /\ ResetRule(t, k)
    OBVIOUS
  <2>1. CASE t = <<>>
    BY <2>1, NoWrite
  <2>2. CASE t # <<>>
    <3>1. PICK a \in {2, 3, 9, 10}, d \in RegData : t = <<CodecOp(k, a, d)>>
      BY <2>2
    <3>2. a \in CodecRegs /\ \A ch \in Channels : a # LeftOf(ch) /\ a # RightOf(ch)
      BY VolumeAddrs DEF CodecRegs
    <3>3. QED
      BY <3>1, <3>2, PlainWrite
  <2>3. QED
    BY <2>1, <2>2
<1>3. QED
  BY <1>1, <1>2, RulesInstruct DEF AllSettled

(* A volume is set: both sides of it are asked for.                         *)
LEMMA VolumeInstructs ==
  ASSUME TypeInv, AllSettled, NEW c, c.fun = "set_volume", c.codec \in Codecs, c.ch \in Channels,
         c.l \in Volumes, c.r \in Volumes
  PROVE  Instructed(Script(c), cache, codec, Asked(c))
<1> DEFINE k == c.codec
           i == c.ch
           t == Script(c)
           r == Asked(c)
           x == Bits(LinearVolToDb(c.l))
           y == Bits(LinearVolToDb(c.r))
           z == <<x, y>>
<1>1. t = <<CodecOp(k, LeftOf(i), x)>> \o <<CodecOp(k, RightOf(i), y \cup {Update})>>
  BY ScriptVolume DEF SetVolume, CodecWrite, LeftOf, RightOf
<1>2. Update \notin x /\ Update \notin y
  <2>1. x \subseteq 0 .. 7 /\ y \subseteq 0 .. 7
    BY VolumeValues
  <2>2. QED
    BY <2>1 DEF Update
<1>3. k \in Codecs /\ i \in Channels /\ asked \in [Codecs -> {None} \cup Volumes3]
  BY DEF TypeInv
<1>4. /\ asked[k] # None => r = [asked EXCEPT ![k][i] = z]
      /\ asked[k] = None => r = asked
  BY AskedOf
<1>5. z[1] = x /\ z[2] = y
  OBVIOUS
<1>6. asked[k] # None => Steady(cache[k], codec[k].chip, asked[k])
  BY DEF AllSettled, Settled
<1>7. AllSettled
  OBVIOUS
<1> HIDE DEF t, r, k, i, x, y, z
<1>8. FromCodec(t, k)
  <2> DEFINE q == [ch \in Channels |-> z]
  <2>1. q[i][1] = x /\ q[i][2] = y
    BY <1>3, <1>5
  <2> HIDE DEF q
  <2>2. QED
    BY <1>1, <1>2, <1>3, <2>1, VolumeWrites
<1>9. \A j \in Codecs : j # k => r[j] = asked[j]
  BY <1>3, <1>4
<1>10. ASSUME r[k] # None PROVE Told(t, k, cache[k], codec[k].chip, r[k])
  <2> DEFINE q == asked[k]
             m == cache[k]
             chip == codec[k].chip
             s == r[k]
  <2>1. q # None
    BY <1>4, <1>10
  <2>2. q \in Volumes3
    BY <1>3, <2>1
  <2>3. s = [q EXCEPT ![i] = z]
    BY <1>3, <1>4, <2>1
  <2>4. Steady(m, chip, q)
    BY <1>6, <2>1
  <2> HIDE DEF q, m, chip, s
  <2>5. s[i] = z /\ \A ch \in Channels : ch # i => s[ch] = q[ch]
    BY <1>3, <2>2, <2>3 DEF Volumes3
  <2>6. s[i][1] = x /\ s[i][2] = y
    BY <1>5, <2>5
  <2>7. /\ LeftRule(t, k, s) /\ RightRule(t, k, s) /\ ResetRule(t, k)
        /\ Pending(t, k, LeftOf(i)) /\ Pending(t, k, RightOf(i))
    BY <1>1, <1>2, <1>3, <2>6, VolumeWrites
  <2>8. \A ch \in Channels :
          s[ch] = q[ch] \/ (Pending(t, k, LeftOf(ch)) /\ Pending(t, k, RightOf(ch)))
    BY <2>5, <2>7
  <2>9. Told(t, k, m, chip, s)
    BY Zenon, <2>4, <2>7, <2>8, SteadyTold
  <2>10. QED
    BY <2>9 DEF m, chip, s
<1>11. Instructed(t, cache, codec, r)
  BY <1>7, <1>8, <1>9, <1>10, DriverInstructed DEF AllSettled
<1>12. QED
  BY <1>11 DEF t, r

(* Every call.                                                              *)
LEMMA CallInstructs ==
  ASSUME TypeInv, AllSettled, NEW p \in DOMAIN Programs, NEW c \in Calls(p)
  PROVE  Instructed(Script(c), cache, codec, Asked(c))
<1> DEFINE k == c.codec
           m == cache[k]
<1>1. ProperCall(c)
  BY ProgramAssumption
<1>2. CASE c.fun = "access"
  BY <1>2, AccessInstructs
<1>3. CASE c.fun # "access"
  <2>1. k \in Codecs /\ m \in Caches /\ c.fun \in CodecFuns
        /\ (c.fun = "switch" => c.ctl \in DOMAIN Controls)
    BY <1>1, <1>3, ProperCodecCall DEF TypeInv
  <2>2. CASE c.fun = "init"
    BY <2>1, <2>2, InitInstructs
  <2>3. CASE c.fun = "resume"
    BY <2>1, <2>3, ResumeInstructs
  <2>4. CASE c.fun = "set_volume"
    BY <1>1, <2>4, ProperCodecCall, VolumeInstructs
  <2>5. CASE c.fun = "volume_restore"
    BY <2>1, <2>5, RestoreInstructs
  <2>6. CASE c.fun \in {"switch", "set_if", "set_role", "lrclk_div", "clk_polarity"}
    <3> DEFINE t == Script(c)
    <3>1. Asked(c) = asked
      BY <2>6, AskedOf
    <3>0. /\ c.fun = "switch" => t = CtlPut(k, m, c.ctl, c.on)
          /\ c.fun = "set_if" => t = SetIf(k, m, c.dac)
          /\ c.fun = "set_role" => t = SetRole(k, m, c.master)
          /\ c.fun = "lrclk_div" => t = MasterLrclkDiv(k, m, c.div)
          /\ c.fun = "clk_polarity" => t = ClkPolarity(k, m, c.lrclk, c.bclk)
      BY ScriptSwitch, ScriptIf, ScriptRole, ScriptDiv, ScriptPolarity
    <3> HIDE DEF t, m, k
    <3>2. t = <<>> \/ \E a \in {2, 3, 9, 10}, d \in RegData : t = <<CodecOp(k, a, d)>>
      <4>1. CASE c.fun = "switch"
        BY <2>1, <3>0, <4>1, SwitchScript
      <4>2. CASE c.fun = "set_if"
        BY <2>1, <3>0, <4>2, IfScript
      <4>3. CASE c.fun = "set_role"
        BY <2>1, <3>0, <4>3, RoleScript
      <4>4. CASE c.fun = "lrclk_div"
        BY <2>1, <3>0, <4>4, DivScript
      <4>5. CASE c.fun = "clk_polarity"
        BY <2>1, <3>0, <4>5, PolarityScript
      <4>6. QED
        BY <2>6, <4>1, <4>2, <4>3, <4>4, <4>5
    <3>3. Instructed(t, cache, codec, asked)
      BY <2>1, <3>2, PlainInstructs
    <3>4. QED
      BY <3>1, <3>3 DEF t
  <2>7. QED
    BY <2>1, <2>2, <2>3, <2>4, <2>5, <2>6 DEF CodecFuns
<1>4. QED
  BY <1>2, <1>3

-----------------------------------------------------------------------------
(* The steps.  Says(s, w): what the codecs hear is right if s with the word *)
(* w is what goes on talking to them.                                       *)
Says(s, w) == Speaking(s, w, cache, codec, Content(Debug), asked)
TalkOps == {"codec", "frame", "out", "forget"}

(* A step that changes nothing of it.                                       *)
LEMMA SaysSame ==
  ASSUME NEW s, NEW w, Says(s, w), cache' = cache, codec' = codec, asked' = asked,
         Content(Debug)' = Content(Debug)
  PROVE  Says(s, w)'
BY Zenon DEF Says

(* The head of the script.                                                  *)
LEMMA HeadOp ==
  ASSUME TypeInv, script # <<>>
  PROVE  /\ program.of \in DOMAIN Programs /\ script \in Seq(Ops(program.of))
         /\ Op = script[1] /\ Op \in Ops(program.of) /\ 1 \in DOMAIN script
         /\ Op.op # "frame" => Now = Op
<1>1. program.of \in DOMAIN Programs /\ script \in Seq(Ops(program.of))
  BY DEF TypeInv
<1>2. Op = script[1] /\ Op \in Ops(program.of)
  BY <1>1, HeadAndTail, RestTyped DEF Op
<1>3. 1 \in DOMAIN script
  BY <1>1, TailOf
<1>4. QED
  BY <1>1, <1>2, <1>3 DEF Now, AccessOf

(* Only an access to a pad writes to their register.                        *)
LEMMA PlainReg ==
  ASSUME TypeInv, script # <<>>, Op.op \in (Modifying \ {"out"}) \cup {"load", "fill", "banked"}
  PROVE  Op \in Accesses(program.of) /\ Op.field.reg # Debug
<1> DEFINE p == program.of
<1>1. p \in DOMAIN Programs /\ Op \in Ops(p)
  BY HeadOp
<1>2. Op \in Reaching(p)
  BY <1>1, HeadFacts DEF Modifying
<1>3. Op \in Accesses(p)
  BY <1>2, PadFacts DEF Reaching, Modifying
<1>4. ProperAccess(Op)
  BY <1>1, <1>3, AccessIsProper
<1>5. Op.op \in {"set", "put"} \/ Op.op \in {"load", "fill", "banked"} \/ Op.op = "modify"
  BY DEF Modifying
<1>6. QED
  BY <1>3, <1>4, <1>5, ProperOne, ProperWhole, ProperModify

(* An access to a pad is one to the register of the pads.                   *)
LEMMA PadReg ==
  ASSUME TypeInv, script # <<>>, Now.op = "out" PROVE Now.field.reg = Debug /\ Now \in PadOuts
<1> DEFINE p == program.of
<1>1. p \in DOMAIN Programs /\ Op \in Ops(p)
  BY HeadOp
<1>2. Now \in Reaching(p)
  <2>1. Now \in Reaching(p) \/ (Op \in CodecOps /\ Now = Op)
    BY <1>1, HeadFacts DEF Now
  <2>2. QED
    BY <1>1, <2>1, OpKinds
<1>3. Now \in PadOuts
  BY <1>1, <1>2, AccessIsProper, ProperOut DEF Reaching
<1>4. QED
  BY <1>3, PadFacts

(* An access that is none to the codecs or their pads.                      *)
LEMMA PlainStep ==
  ASSUME TypeInv, SomeFieldInv, script # <<>>, Op.op \notin TalkOps,
         Read \/ WriteBack \/ Write \/ Await \/ WriteCodec \/ Forget \/ Connect
  PROVE  /\ cache' = cache /\ codec' = codec /\ asked' = asked /\ interrupted' = interrupted
         /\ Content(Debug)' = Content(Debug)
         /\ script' = script \/ (script' = Tail(script) /\ word' = None)
<1>1. Now = Op
  BY HeadOp DEF TalkOps
<1>2. CASE Read
  BY <1>2, ContentSame DEF Read, outside, inside
<1>3. CASE WriteBack
  <2>1. word # None /\ Store(Op.field.reg, Changed(Op, word))
    BY <1>1, <1>3 DEF WriteBack
  <2>2. Op.op \in Modifying \ {"out"}
    BY <1>1, <2>1 DEF TypeInv, Holding, Now, Op, TalkOps
  <2>3. Op.field.reg # Debug
    BY <2>2, PlainReg
  <2>4. Content(Debug)' = Content(Debug)
    BY <2>1, <2>3, StoreContent
  <2>5. Rest = Tail(script)
    BY DEF Rest, TalkOps
  <2>6. QED
    BY <2>1, <2>3, <2>4, <2>5 DEF Store, inside
<1>4. CASE Write
  <2>1. Op.op \in {"load", "fill", "banked"} /\ Store(Addressed, Op.value)
    BY <1>4 DEF Write
  <2>2. Op \in Accesses(program.of) /\ Op.field.reg # Debug
    BY <2>1, PlainReg
  <2>3. Addressed = Op.field.reg
    <3>1. PICK p \in DOMAIN Programs : FieldInv(p)
      BY DEF SomeFieldInv
    <3>2. program.of = p
      BY <3>1 DEF FieldInv
    <3>3. QED
      BY <2>2, <3>1, <3>2, BankedRight
  <2>4. Content(Debug)' = Content(Debug)
    BY <2>1, <2>2, <2>3, StoreContent
  <2>5. Rest = Tail(script)
    BY DEF Rest, TalkOps
  <2>6. QED
    BY <2>1, <2>2, <2>3, <2>4, <2>5 DEF Store, inside
<1>5. CASE Await
  <2>1. Op.op \in {"wait", "lock", "until", "strobe"}
    BY <1>5 DEF Await
  <2>2. word = None
    BY <1>1, <2>1 DEF TypeInv, Holding, Now, Op, Modifying
  <2>3. QED
    BY <1>5, <2>2, ContentSame DEF Await, outside, inside
<1>6. CASE Connect
  <2>1. Op.op = "connect"
    BY <1>6 DEF Connect
  <2>2. word = None
    BY <1>1, <2>1 DEF TypeInv, Holding, Now, Op, Modifying
  <2>3. QED
    BY <1>6, <2>2, ContentSame DEF Connect, outside, inside
<1>7. CASE WriteCodec \/ Forget
  BY <1>7 DEF WriteCodec, Forget, TalkOps
<1>8. QED
  BY <1>2, <1>3, <1>4, <1>5, <1>6, <1>7

(* What a step may let the codecs sound like.                               *)
AllSound == \A k \in Codecs : Sounds(codec[k].chip, codec'[k].chip, asked[k])

(* A codec whose chip stays the same sounds the same.                       *)
LEMMA SameSound == ASSUME \A k \in Codecs : codec'[k].chip = codec[k].chip PROVE AllSound
BY DEF AllSound, Sounds

(* What an access finds.                                                    *)
LEMMA SaysTypes ==
  ASSUME TypeInv
  PROVE  /\ cache \in [Codecs -> Caches] /\ codec \in [Codecs -> Watchers]
         /\ asked \in [Codecs -> {None} \cup Volumes3]
BY DEF TypeInv

(* A pad is read: the word is what the pads are.                            *)
LEMMA ReadSays ==
  ASSUME TypeInv, Says(script, word), Read
  PROVE  Says(script, word)' /\ AllSound
<1>1. /\ script # <<>> /\ word' \in Sampled(Now.field.reg) /\ script' = script /\ cache' = cache
      /\ codec' = codec /\ asked' = asked
  BY DEF Read
<1>2. Content(Debug)' = Content(Debug)
  BY ContentSame DEF Read, outside
<1>3. WordOfPads(script, word', Content(Debug))
  <2>1. ASSUME Now.op = "out" PROVE word' = Content(Debug)
    <3>1. Now.field.reg = Debug
      BY <1>1, <2>1, PadReg
    <3>2. Debug # GpioData
      BY DEF Debug, GpioData
    <3>3. QED
      BY <1>1, <3>1, <3>2 DEF Sampled
  <2>2. QED
    BY <2>1 DEF WordOfPads, Now, Op
<1> DEFINE pads == Content(Debug)
<1>4. Speaking(script, word', cache, codec, pads, asked)
  <2>1. Speaking(script, word, cache, codec, pads, asked)
    BY DEF Says
  <2>2. WordOfPads(script, word', pads)
    BY <1>3
  <2> HIDE DEF pads
  <2>3. QED
    BY <2>1, <2>2 DEF Speaking
<1>5. Says(script, word)'
  BY Zenon, <1>1, <1>2, <1>4 DEF Says
<1>6. QED
  BY <1>1, <1>5, SameSound

(* The write back of a pad, which the codecs watch.                         *)
LEMMA PadWritten ==
  ASSUME TypeInv, Says(script, word), WriteBack, script # <<>>, Now.op = "out"
  PROVE  LET pads == Content(Debug)
             new == Changed(Now, pads)
         IN  /\ codec' = [k \in Codecs |-> Watch(codec[k], Pins(k), pads, new)]
             /\ Content(Debug)' = new /\ cache' = cache /\ asked' = asked
             /\ script' = Rest /\ word' = None
<1> DEFINE pads == Content(Debug)
           new == Changed(Now, pads)
<1>1. word # None /\ Store(Now.field.reg, Changed(Now, word))
  BY DEF WriteBack
<1>2. word = pads
  BY <1>1 DEF Says, Speaking, WordOfPads, Now, Op
<1>3. Store(Debug, new)
  BY <1>1, <1>2, PadReg
<1> HIDE DEF new
<1>4. Content(Debug)' = new
  BY <1>3, StoreContent
<1>5. codec' = [k \in Codecs |-> Watch(codec[k], Pins(k), pads, new)]
  BY <1>3 DEF Store
<1>6. cache' = cache /\ asked' = asked /\ script' = Rest /\ word' = None
  BY <1>3 DEF Store
<1>7. QED
  BY <1>4, <1>5, <1>6 DEF new

(* By another driver.                                                       *)
LEMMA OutSays ==
  ASSUME TypeInv, Says(script, word), WriteBack, script # <<>>, Op.op = "out"
  PROVE  Says(script, word)' /\ AllSound
<1> DEFINE p == program.of
           pads == Content(Debug)
           new == Changed(Op, pads)
           S == Ops(p)
<1>1. script \in Seq(S) /\ Op = script[1] /\ Now = Op
  BY HeadOp
<1>2. /\ codec' = [k \in Codecs |-> Watch(codec[k], Pins(k), pads, new)]
      /\ Content(Debug)' = new /\ cache' = cache /\ asked' = asked
      /\ script' = Rest /\ word' = None
  BY <1>1, PadWritten
<1>3. script' = Tail(script)
  BY <1>2 DEF Rest
<1>4. Speaking(script, word, cache, codec, pads, asked)
  BY DEF Says
<1>5. new = Changed(script[1], pads) /\ script[1].op = "out"
  BY <1>1
<1> HIDE DEF pads, new, S
<1>6. /\ Speaking(Tail(script), None, cache, codec', new, asked)
      /\ \A k \in Codecs : codec'[k].chip = codec[k].chip
  BY <1>1, <1>2, <1>4, <1>5, SpeakPad
<1>7. Says(script, word)'
  BY Zenon, <1>2, <1>3, <1>6 DEF Says
<1>8. QED
  BY <1>6, <1>7, SameSound

(* By the driver of the codecs: an access of a frame.                       *)
LEMMA FrameSays ==
  ASSUME TypeInv, Says(script, word), Initialised(script), WriteBack, script # <<>>,
         Op.op = "frame"
  PROVE  Says(script, word)' /\ AllSound
<1> DEFINE p == program.of
           pads == Content(Debug)
           S == Ops(p)
<1>1. p \in DOMAIN Programs /\ script \in Seq(S) /\ Op = script[1] /\ Op \in Ops(p)
  BY HeadOp
<1>2. Op \in FrameOps
  BY <1>1, HeadFacts
<1>3. PICK k \in Codecs, a \in WriteAddrs, d \in RegData, i \in Ats : Op = FrameOf(k, a, d, i)
  BY <1>2 DEF FrameOps
<1>4. /\ Op.codec = k /\ Op.addr = a /\ Op.data = d /\ Op.at = i
  BY <1>3, FrameHead
<1> DEFINE new == Changed(Frame(k, a, d, i), pads)
<1>5. Now = Frame(k, a, d, i)
  BY <1>4 DEF Now, AccessOf
<1>6. Now.op = "out"
  <2>1. Now \in PadOuts
    BY <1>5, FrameIsOut
  <2>2. QED
    BY <2>1, PadFacts
<1>7. /\ codec' = [j \in Codecs |-> Watch(codec[j], Pins(j), pads, new)]
      /\ Content(Debug)' = new /\ cache' = cache /\ asked' = asked
      /\ script' = Rest /\ word' = None
  BY <1>5, <1>6, PadWritten
<1>8. Speaking(script, word, cache, codec, pads, asked)
  BY DEF Says
<1>9. asked[k] # None /\ asked[k] \in Volumes3 /\ codec \in [Codecs -> Watchers]
  BY <1>1, <1>4, SaysTypes, HeadOp DEF Initialised
<1>10. script[1] = FrameOf(k, a, d, i) /\ new = Changed(Frame(k, a, d, i), pads)
  BY <1>1, <1>3
<1>13. FrameLength = 51 /\ i \in 1 .. 51
  BY DEF FrameLength, Ats
<1> HIDE DEF pads, new
<1>11. CASE i \in 1 .. 50
  <2> DEFINE f == FrameOf(k, a, d, i + 1)
             t == <<f>> \o Tail(script)
  <2>1. f = FrameAt(Op, i + 1) /\ f \in FrameOps
    <3>1. i + 1 \in Ats
      BY <1>11 DEF Ats, FrameLength
    <3>2. QED
      BY <1>3, <3>1, FrameOpIs
  <2>2. f \in S
    BY <2>1 DEF Ops
  <2>8. t = <<f>> \o Tail(script)
    OBVIOUS
  <2> HIDE DEF f, t
  <2>3. script' = t
    <3>1. Op.at < FrameLength /\ Op.at + 1 = i + 1
      BY <1>4, <1>11, <1>13
    <3>2. Rest = <<FrameAt(Op, Op.at + 1)>> \o Tail(script)
      BY Zenon, <3>1 DEF Rest
    <3>3. QED
      BY <1>7, <2>1, <2>8, <3>1, <3>2
  <2>4. \A j \in Codecs : codec'[j] = Watch(codec[j], Pins(j), pads, new)
    BY <1>7
  <2> HIDE DEF S
  <2>5. /\ Speaking(t, None, cache, codec', new, asked)
        /\ \A j \in Codecs : codec'[j].chip = codec[j].chip
    <3>1. FrameMoves(S, script, t, k, a, d, i, pads, new)
      BY <1>10, <2>2, <2>8 DEF FrameMoves, f
    <3>2. QED
      BY <1>1, <1>8, <1>11, <2>4, <3>1, SpeakFrame
  <2>6. Says(script, word)'
    BY Zenon, <1>7, <2>3, <2>5 DEF Says
  <2>7. QED
    BY <2>5, <2>6, SameSound
<1>12. CASE i = FrameLength
  <2>1. script' = Tail(script)
    BY <1>4, <1>7, <1>12, <1>13 DEF Rest
  <2>2. \A j \in Codecs : codec'[j] = Watch(codec[j], Pins(j), pads, new)
    BY <1>7
  <2> HIDE DEF S
  <2>3. /\ script[1] = FrameOf(k, a, d, FrameLength)
        /\ new = Changed(Frame(k, a, d, FrameLength), pads)
    BY <1>10, <1>12
  <2>4. /\ Speaking(Tail(script), None, cache, codec', new, asked)
        /\ \A j \in Codecs : Sounds(codec[j].chip, codec'[j].chip, asked[j])
    BY <1>1, <1>8, <1>9, <2>2, <2>3, SpeakEnd
  <2>5. Says(script, word)'
    BY Zenon, <1>7, <2>1, <2>4 DEF Says
  <2>6. QED
    BY <2>4, <2>5 DEF AllSound
<1>14. QED
  BY <1>11, <1>12, <1>13

(* The driver of the codecs begins a frame.                                 *)
LEMMA CodecSays ==
  ASSUME TypeInv, Says(script, word), WriteCodec
  PROVE  Says(script, word)' /\ AllSound
<1> DEFINE p == program.of
           pads == Content(Debug)
           S == Ops(p)
<1>0. script # <<>> /\ Op.op = "codec"
  BY DEF WriteCodec
<1>1. p \in DOMAIN Programs /\ script \in Seq(S) /\ Op = script[1] /\ Op \in Ops(p) /\ Now = Op
  BY <1>0, HeadOp
<1>2. Op \in CodecOps
  BY <1>0, <1>1, HeadFacts
<1>3. PICK k \in Codecs, a \in WriteAddrs, d \in RegData : Op = CodecOp(k, a, d)
  BY <1>2 DEF CodecOps
<1>4. Op.codec = k /\ Op.addr = a /\ Op.data = d
  BY <1>3, FrameHead
<1> DEFINE f == FrameOf(k, a, d, 1)
           t == <<f>> \o Tail(script)
<1>5. f = FrameAt(Op, 1) /\ f \in FrameOps /\ f \in S
  <2>1. 1 \in Ats
    BY DEF Ats, FrameLength
  <2>2. QED
    BY <1>3, <2>1, FrameOpIs DEF Ops
<1>6. cache' = IF a \in CodecRegs THEN [cache EXCEPT ![k][a] = d] ELSE cache
  BY <1>4 DEF WriteCodec
<1>7. script' = t /\ codec' = codec /\ asked' = asked /\ word' = word
  BY <1>5 DEF WriteCodec
<1>8. Content(Debug)' = pads
  BY ContentSame DEF WriteCodec, outside
<1>9. word = None
  BY <1>0, <1>1 DEF TypeInv, Holding, Now, Op, Modifying
<1>10. Speaking(script, word, cache, codec, pads, asked)
  BY DEF Says
<1>11. cache \in [Codecs -> Caches] /\ script[1] = CodecOp(k, a, d)
  BY <1>1, <1>3, SaysTypes
<1>12. FrameOf(k, a, d, 1) \in S /\ t = <<FrameOf(k, a, d, 1)>> \o Tail(script)
  BY <1>5
<1>13. Speaking(t, None, cache', codec, pads, asked)
  <2> DEFINE n == cache'
             m == cache
  <2>1. n = IF a \in CodecRegs THEN [m EXCEPT ![k][a] = d] ELSE m
    BY <1>6
  <2>2. m \in [Codecs -> Caches] /\ Speaking(script, word, m, codec, pads, asked)
    BY <1>10, <1>11
  <2>3. script \in Seq(S)
    BY <1>1
  <2>4. FrameBegins(S, script, t, k, a, d, m, n)
    BY <1>11, <1>12, <2>1 DEF FrameBegins
  <2> HIDE DEF S, t, pads, n, m, f, p
  <2>6. Speaking(t, None, n, codec, pads, asked)
    BY <1>0, <2>2, <2>3, <2>4, SpeakBegin
  <2>5. QED
    BY <2>6 DEF n
<1> HIDE DEF S, f, t, pads
<1>14. Says(script, word)'
  BY Zenon, <1>7, <1>8, <1>9, <1>13 DEF Says
<1>15. QED
  BY <1>7, <1>14, SameSound

(* The driver's structure is cleared: nothing more is written to that codec *)
(* before its init.                                                         *)
LEMMA ForgetSays ==
  ASSUME TypeInv, Says(script, word), Initialised(script)', Forget
  PROVE  Says(script, word)' /\ AllSound
<1> DEFINE p == program.of
           pads == Content(Debug)
           S == Ops(p)
           k == Op.codec
<1>0. script # <<>> /\ Op.op = "forget"
  BY DEF Forget
<1>1. p \in DOMAIN Programs /\ script \in Seq(S) /\ Op = script[1] /\ Op \in Ops(p) /\ Now = Op
  BY <1>0, HeadOp
<1>2. k \in Codecs
  <2>1. Op \in Reaching(p)
    BY <1>0, <1>1, HeadFacts
  <2>2. Op \in Accesses(p)
    BY <1>0, <2>1, PadFacts DEF Reaching
  <2>3. QED
    BY <1>0, <1>1, <2>2, AccessIsProper, ProperForget
<1>3. /\ cache' = [cache EXCEPT ![k] = Cleared] /\ asked' = [asked EXCEPT ![k] = None]
      /\ script' = Tail(script) /\ codec' = codec /\ word' = word
  BY DEF Forget
<1>4. Content(Debug)' = pads
  BY ContentSame DEF Forget, outside
<1>5. word = None
  BY <1>0, <1>1 DEF TypeInv, Holding, Now, Op, Modifying
<1>6. Unwritten(Tail(script), k)
  <2>1. asked'[k] = None
    BY <1>2, <1>3, SaysTypes
  <2>2. \A i \in DOMAIN script' :
          script'[i].op \in {"codec", "frame"} => asked'[script'[i].codec] # None
    BY DEF Initialised
  <2> HIDE DEF k
  <2>3. QED
    BY <1>3, <2>1, <2>2 DEF Unwritten, WritesTo
<1>7. Speaking(script, word, cache, codec, pads, asked)
  BY DEF Says
<1>8. script[1].op = "forget"
  BY <1>0, <1>1
<1> HIDE DEF S, k, pads
<1>9. Speaking(Tail(script), None, cache', codec, pads, asked')
  BY <1>0, <1>1, <1>2, <1>3, <1>6, <1>7, <1>8, SaysTypes, SpeakForget
<1>10. Says(script, word)'
  BY Zenon, <1>3, <1>4, <1>5, <1>9 DEF Says
<1>11. QED
  BY <1>3, <1>10, SameSound

(* Any other access of a script that talks to them.                         *)
LEMMA PlainSays ==
  ASSUME TypeInv, SomeFieldInv, Says(script, word), script # <<>>, Op.op \notin TalkOps,
         Read \/ WriteBack \/ Write \/ Await \/ WriteCodec \/ Forget \/ Connect
  PROVE  Says(script, word)' /\ AllSound
<1> DEFINE pads == Content(Debug)
           S == Ops(program.of)
<1>1. CASE Read
  BY <1>1, ReadSays
<1>2. CASE ~Read
  <2>1. /\ cache' = cache /\ codec' = codec /\ asked' = asked /\ Content(Debug)' = pads
        /\ script' = script \/ (script' = Tail(script) /\ word' = None)
    BY PlainStep
  <2>2. script \in Seq(S) /\ script[1].op \notin {"codec", "frame"}
    BY HeadOp DEF TalkOps
  <2>3. script' = Tail(script) /\ word' = None
    <3>1. script' # script
      <4>1. Len(Tail(script)) # Len(script) /\ Tail(script) # script
        BY <2>2, HeadAndTail
      <4>2. WriteBack \/ Write => script' = Rest
        BY DEF WriteBack, Write, Store
      <4>3. Rest = Tail(script)
        BY DEF Rest, TalkOps
      <4>4. Await \/ Forget \/ Connect => script' = Tail(script)
        BY DEF Await, Forget, Connect
      <4>5. ~WriteCodec
        BY DEF WriteCodec, TalkOps
      <4>6. QED
        BY <1>2, <4>1, <4>2, <4>3, <4>4, <4>5
    <3>2. QED
      BY <2>1, <3>1
  <2>4. Speaking(script, word, cache, codec, pads, asked)
    BY DEF Says
  <2> HIDE DEF pads, S
  <2>5. Speaking(Tail(script), None, cache, codec, pads, asked)
    BY <2>2, <2>4, SpeakOn
  <2>6. Says(script, word)'
    BY Zenon, <2>1, <2>3, <2>5 DEF Says
  <2>7. QED
    BY <2>1, <2>6, SameSound
<1>3. QED
  BY <1>1, <1>2

(* Every access of a script that talks to them.                             *)
LEMMA AccessSays ==
  ASSUME TypeInv, SomeFieldInv, Says(script, word), script # <<>>,
         Initialised(script), Initialised(script)',
         Read \/ WriteBack \/ Write \/ Await \/ WriteCodec \/ Forget \/ Connect
  PROVE  Says(script, word)' /\ AllSound
<1>1. CASE Op.op \notin TalkOps
  BY <1>1, PlainSays
<1>2. CASE Op.op \in TalkOps
  <2>1. Op.op \notin {"load", "fill", "banked", "wait", "lock", "until", "strobe", "connect"}
    BY <1>2 DEF TalkOps
  <2>2. ~Write /\ ~Await /\ ~Connect
    BY <2>1 DEF Write, Await, Connect
  <2>3. WriteBack => Op.op \in {"out", "frame"}
    <3>1. ASSUME WriteBack PROVE Now.op \in Modifying
      BY <3>1 DEF WriteBack, TypeInv, Holding, Now, Op
    <3>2. Op.op # "frame" => Now = Op
      BY HeadOp
    <3>3. QED
      BY <1>2, <3>1, <3>2 DEF Modifying, TalkOps
  <2>4. QED
    BY <2>2, <2>3, ReadSays, OutSays, FrameSays, CodecSays, ForgetSays
<1>3. QED
  BY <1>1, <1>2

-----------------------------------------------------------------------------
(* The invariant: whoever talks to the codecs says what is right, and when  *)
(* nobody does, the interrupted script is about to go on.                   *)
CodecInv ==
  /\ interrupted = <<>> \/ Talks(script) => Says(script, word)
  /\ interrupted # <<>> /\ ~Talks(script) => Says(interrupted[1].script, interrupted[1].word)

(* What was interrupted.                                                    *)
LEMMA ContextFacts ==
  ASSUME TypeInv, interrupted # <<>>
  PROVE  /\ interrupted[1].script \in Seq(Ops(program.of)) /\ DOMAIN interrupted = {1}
         /\ CallersConsiderate /\ Talks(script) => ~Talks(interrupted[1].script)
<1>1. PICK x \in Contexts(program.of) : interrupted = <<x>>
  BY DEF TypeInv
<1>2. DOMAIN interrupted = {1} /\ interrupted[1] = x
  BY <1>1
<1>3. x.script \in Seq(Ops(program.of))
  BY DEF Contexts
<1>4. CallersConsiderate /\ Talks(script) => ~Talks(interrupted[1].script)
  BY <1>2 DEF CallersConsiderate, TalksWhole
<1>5. QED
  BY <1>2, <1>3, <1>4

(* The script that talks goes on, or hands over to the interrupted one.     *)
LEMMA SaidLast ==
  ASSUME TypeInv, TypeInv', CallersConsiderate, Talks(script) \/ interrupted = <<>>,
         interrupted' = interrupted, program' = program, Says(script, word)'
  PROVE  CodecInv'
<1>1. CASE interrupted = <<>> \/ Talks(script')
  <2>1. interrupted' = <<>> \/ Talks(script')
    BY <1>1
  <2>2. QED
    BY Zenon, <2>1 DEF CodecInv
<1>2. CASE interrupted # <<>> /\ ~Talks(script')
  <2> DEFINE s == script'
             w == word'
             x == interrupted[1]
             t == x.script
             v == x.word
             S == Ops(program.of)
             pads == Content(Debug)'
  <2>1. t \in Seq(S) /\ ~Talks(t)
    BY <1>2, ContextFacts
  <2>2. s \in Seq(S) /\ ~Talks(s)
    BY <1>2 DEF TypeInv
  <2>3. Speaking(s, w, cache', codec', pads, asked')
    BY Zenon DEF Says
  <2> HIDE DEF s, w, t, v, S, pads
  <2>4. Speaking(t, v, cache', codec', pads, asked')
    BY <2>1, <2>2, <2>3, HandOver
  <2>5. Says(interrupted[1].script, interrupted[1].word)'
    BY Zenon, <2>4 DEF Says, t, v, pads
  <2>6. ~(interrupted' = <<>> \/ Talks(script'))
    BY <1>2
  <2>7. QED
    BY Zenon, <2>5, <2>6 DEF CodecInv
<1>3. QED
  BY <1>1, <1>2

(* A step that nobody who talks to them makes.                              *)
LEMMA SaidNot ==
  ASSUME CodecInv, interrupted # <<>>, ~Talks(script), ~Talks(script)',
         interrupted' = interrupted, cache' = cache, codec' = codec, asked' = asked,
         Content(Debug)' = Content(Debug)
  PROVE  CodecInv'
<1> DEFINE s == interrupted[1].script
           w == interrupted[1].word
<1>1. Says(s, w)
  BY DEF CodecInv
<1>2. Speaking(s, w, cache, codec, Content(Debug), asked)
  BY <1>1 DEF Says
<1>3. Speaking(interrupted'[1].script, interrupted'[1].word,
               cache', codec', Content(Debug)', asked')
  BY Zenon, <1>2
<1>4. Says(interrupted[1].script, interrupted[1].word)'
  BY Zenon, <1>3 DEF Says
<1>5. ~(interrupted' = <<>> \/ Talks(script'))
  OBVIOUS
<1>6. QED
  BY Zenon, <1>4, <1>5 DEF CodecInv

(* The accesses.                                                            *)
LEMMA AccessKeepsCodecs ==
  ASSUME TypeInv, TypeInv', SomeFieldInv, CodecInv, CallersConsiderate, CallersConsiderate',
         Read \/ WriteBack \/ Write \/ Await \/ WriteCodec \/ Forget \/ Connect
  PROVE  CodecInv' /\ AllSound
<1>1. script # <<>>
  BY DEF Read, WriteBack, Write, Await, WriteCodec, Forget, Connect, TypeInv, Holding
<1>2. interrupted' = interrupted /\ program' = program
  BY DEF Read, WriteBack, Write, Await, WriteCodec, Forget, Connect, Store, inside
<1>3. Initialised(script) /\ Initialised(script)'
  BY DEF CallersConsiderate, InitFirst
<1>4. CASE interrupted = <<>> \/ Talks(script)
  <2>1. Says(script, word)
    BY <1>4 DEF CodecInv
  <2>2. Says(script, word)' /\ AllSound
    BY <1>1, <1>3, <2>1, AccessSays
  <2>3. QED
    BY <1>2, <1>4, <2>2, SaidLast
<1>5. CASE interrupted # <<>> /\ ~Talks(script)
  <2>1. script \in Seq(Ops(program.of)) /\ Op = script[1] /\ 1 \in DOMAIN script
    BY <1>1, HeadOp
  <2>2. Op.op \notin TalkOps
    BY <1>5, <2>1 DEF Talks, TalkOps
  <2>3. /\ cache' = cache /\ codec' = codec /\ asked' = asked /\ Content(Debug)' = Content(Debug)
        /\ script' = script \/ script' = Tail(script)
    BY <1>1, <2>2, PlainStep
  <2>4. ~Talks(Tail(script))
    <3>1. \A i \in DOMAIN Tail(script) : i + 1 \in DOMAIN script /\ Tail(script)[i] = script[i + 1]
      BY <1>1, <2>1, TailOf
    <3>2. QED
      BY <1>5, <3>1 DEF Talks
  <2>5. ~Talks(script)'
    BY <1>5, <2>3, <2>4
  <2>6. CodecInv'
    BY <1>2, <1>5, <2>3, <2>5, SaidNot
  <2>7. QED
    BY <2>3, <2>6, SameSound
<1>6. QED
  BY <1>4, <1>5

(* When nobody talks to the codecs they hold what they were told.           *)
LEMMA SaysSettled ==
  ASSUME TypeInv, NEW S, NEW s \in Seq(S), ~Talks(s), NEW w, Says(s, w)
  PROVE  AllSettled
<1>1. \A k : Unwritten(s, k)
  BY QuietScript
<1>2. Speaking(s, w, cache, codec, Content(Debug), asked)
  BY DEF Says
<1> DEFINE pads == Content(Debug)
<1> HIDE DEF pads
<1>3. ASSUME NEW k \in Codecs PROVE Settled(cache[k], codec[k].chip, asked[k])
  <2>1. Speaking(s, w, cache, codec, pads, asked)
    BY <1>2 DEF pads
  <2>2. QED
    BY <1>1, <2>1, SaysTypes, QuietSettled
<1>4. QED
  BY <1>3 DEF AllSettled

(* Then a call may begin.                                                   *)
LEMMA RunSays ==
  ASSUME TypeInv, NEW S, NEW s \in Seq(S), ~Talks(s), NEW w, Says(s, w),
         NEW c \in Calls(program.of), Run(c), cache' = cache, codec' = codec,
         Content(Debug)' = Content(Debug)
  PROVE  Says(script, word)'
<1> DEFINE p == program.of
           T == Ops(p) \cup S
           t == Script(c)
           r == Asked(c)
           pads == Content(Debug)
<1>1. p \in DOMAIN Programs
  BY DEF TypeInv
<1>2. AllSettled
  BY SaysSettled
<1>3. Instructed(t, cache, codec, r)
  BY <1>1, <1>2, CallInstructs
<1>4. t \in Seq(Ops(p))
  BY CallTyped
<1>5. t \in Seq(T) /\ s \in Seq(T)
  BY <1>4
<1>6. Speaking(s, w, cache, codec, pads, asked)
  BY DEF Says
<1>7. script' = t /\ asked' = r /\ word' = None /\ Content(Debug)' = pads
  BY DEF Run
<1> HIDE DEF t, r, pads, T
<1>8. Speaking(t, None, cache, codec, pads, r)
  BY <1>3, <1>5, <1>6, SaysTypes, SpeakStart
<1>9. QED
  BY Zenon, <1>7, <1>8 DEF Says

(* Whatever asks for volumes talks to a codec: the init,                    *)
LEMMA InitTalks ==
  ASSUME NEW c, c.fun = "init" PROVE Talks(Script(c))
<1> DEFINE k == c.codec
           t == Script(c)
           x == PadOut(Pins(k).mode, {})
           y == CodecOp(k, CodecReset, {})
           w == [i \in 1 .. 11 |-> CodecOp(k, i - 1, Bits(DefaultValues[i]))]
           S == {x, y} \cup {CodecOp(k, i - 1, Bits(DefaultValues[i])) : i \in 1 .. 11}
<1>1. t = <<x>> \o <<y>> \o w
  <2>1. Bits(0) = {} /\ DOMAIN DefaultValues = 1 .. 11
    BY NoBits, Defaults
  <2>2. t = Wm8766Init(k)
    BY ScriptInit
  <2> HIDE DEF t, k
  <2>3. Wm8766Init(k) = <<x>> \o <<y>> \o w
    BY <2>1 DEF Wm8766Init, ExternalPad, CodecWrite
  <2>4. QED
    BY <2>2, <2>3
<1>2. w \in Seq(S)
  <2>1. w \in [1 .. 11 -> S]
    OBVIOUS
  <2>2. QED
    BY <2>1, FunctionSeq
<1>3. x \in S /\ y \in S
  OBVIOUS
<1>4. x.op = "out"
  BY DEF PadOut
<1> HIDE DEF t, w, x, y, S
<1>5. DOMAIN t = 1 .. Len(w) + 2 /\ t[1] = x /\ Len(w) \in Nat
  BY <1>1, <1>2, <1>3, FirstTwo
<1>6. Talks(t)
  BY <1>4, <1>5 DEF Talks
<1>7. QED
  BY <1>6 DEF t

(* and the setting of a volume.                                             *)
LEMMA VolumeTalks ==
  ASSUME NEW c, ProperCall(c), c.fun = "set_volume" PROVE Talks(Script(c))
<1> DEFINE k == c.codec
           i == c.ch
           t == Script(c)
           x == Bits(LinearVolToDb(c.l))
           y == Bits(LinearVolToDb(c.r))
           z == <<x, y>>
           q == [ch \in Channels |-> z]
<1>1. t = <<CodecOp(k, LeftOf(i), x)>> \o <<CodecOp(k, RightOf(i), y \cup {Update})>>
  BY ScriptVolume DEF SetVolume, CodecWrite, LeftOf, RightOf
<1>2. i \in Channels /\ c.l \in Volumes /\ c.r \in Volumes
  BY ProperCodecCall
<1>3. Update \notin x /\ Update \notin y
  <2>1. x \subseteq 0 .. 7 /\ y \subseteq 0 .. 7
    BY <1>2, VolumeValues
  <2>2. QED
    BY <2>1 DEF Update
<1>4. z[1] = x /\ z[2] = y
  OBVIOUS
<1> HIDE DEF z
<1>5. q[i][1] = x /\ q[i][2] = y
  BY <1>2, <1>4
<1> HIDE DEF t, k, i, x, y, q
<1>6. Pending(t, k, LeftOf(i))
  BY <1>1, <1>2, <1>3, <1>5, VolumeWrites
<1>7. Talks(t)
  BY <1>6 DEF Pending, Writes, WritesTo, Talks
<1>8. QED
  BY <1>7 DEF t

(* So a call that does not talk to a codec asks for nothing.                *)
LEMMA AskedAloud ==
  ASSUME NEW c, ProperCall(c), ~Talks(Script(c)) PROVE Asked(c) = asked
BY InitTalks, VolumeTalks, AskedOf

(* The calls and the interrupts.                                            *)
LEMMA CallKeepsCodecs ==
  ASSUME TypeInv, CodecInv, Call PROVE CodecInv' /\ AllSound
<1> DEFINE p == program.of
           c == Programs[p][program.started + 1]
<1>1. script = <<>> /\ interrupted = <<>> /\ program.started < Len(Programs[p]) /\ Run(c)
      /\ interrupted' = interrupted /\ cache' = cache /\ codec' = codec
  BY DEF Call, Idle
<1>2. c \in Calls(p)
  <2>1. p \in DOMAIN Programs /\ program.started \in Nat
    BY DEF TypeInv
  <2>2. Programs[p] \in Seq(Range(Programs[p]))
    BY <2>1, ProgramAssumption
  <2>3. program.started + 1 \in DOMAIN Programs[p]
    BY <1>1, <2>1, <2>2, LenProperties
  <2>4. c \in Range(Programs[p])
    BY <2>3 DEF Range
  <2>5. QED
    BY <2>4 DEF Calls
<1>3. Content(Debug)' = Content(Debug)
  BY ContentSame DEF Call, outside
<1>4. Says(script, word) /\ ~Talks(script) /\ script \in Seq({})
  BY <1>1 DEF CodecInv, Talks
<1> HIDE DEF c
<1>5. Says(script, word)'
  BY <1>1, <1>2, <1>3, <1>4, RunSays
<1>6. CodecInv'
  <2>1. interrupted' = <<>>
    BY <1>1
  <2>2. QED
    BY Zenon, <1>5, <2>1 DEF CodecInv
<1>7. QED
  BY <1>1, <1>6, SameSound

(* An interrupt: its handler talks to the codecs only if the interrupted    *)
(* script does not.                                                         *)
LEMMA InterruptKeepsCodecs ==
  ASSUME TypeInv, TypeInv', CodecInv, CallersConsiderate', Interrupt PROVE CodecInv' /\ AllSound
<1> DEFINE p == program.of
<1>1. PICK c \in HandlerCalls[p] : Run(c)
  BY DEF Interrupt
<1>2. interrupted = <<>> /\ cache' = cache /\ codec' = codec /\ interrupted' # <<>>
      /\ interrupted'[1].script = script /\ interrupted'[1].word = word
  BY DEF Interrupt
<1>3. Content(Debug)' = Content(Debug)
  BY ContentSame DEF Interrupt, outside
<1>4. Says(script, word) /\ script \in Seq(Ops(p)) /\ c \in Calls(p) /\ ProperCall(c)
  BY <1>2, ProgramAssumption DEF CodecInv, TypeInv, Calls
<1>5. CASE Talks(script')
  <2>1. 1 \in DOMAIN interrupted'
    BY DEF Interrupt
  <2>2. ~Talks(interrupted'[1].script)
    BY Zenon, <1>5, <2>1 DEF CallersConsiderate, TalksWhole
  <2>3. Says(script, word)'
    BY <1>1, <1>2, <1>3, <1>4, <2>2, RunSays
  <2>4. CodecInv'
    BY Zenon, <1>5, <2>3 DEF CodecInv
  <2>5. QED
    BY <1>2, <2>4, SameSound
<1>6. CASE ~Talks(script')
  <2>1. asked' = asked
    BY <1>1, <1>4, <1>6, AskedAloud DEF Run
  <2>2. Speaking(script, word, cache, codec, Content(Debug), asked)
    BY <1>4 DEF Says
  <2>3. Speaking(interrupted'[1].script, interrupted'[1].word,
                 cache', codec', Content(Debug)', asked')
    BY Zenon, <1>2, <1>3, <2>1, <2>2
  <2>4. Says(interrupted[1].script, interrupted[1].word)'
    BY Zenon, <2>3 DEF Says
  <2>5. CodecInv'
    BY Zenon, <1>2, <1>6, <2>4 DEF CodecInv
  <2>6. QED
    BY <1>2, <2>5, SameSound
<1>7. QED
  BY <1>5, <1>6

(* The return: the interrupted script goes on.                              *)
LEMMA ReturnKeepsCodecs ==
  ASSUME CodecInv, Return PROVE CodecInv' /\ AllSound
<1>1. /\ script = <<>> /\ interrupted # <<>> /\ script' = interrupted[1].script
      /\ word' = interrupted[1].word /\ interrupted' = <<>> /\ cache' = cache /\ codec' = codec
      /\ asked' = asked
  BY DEF Return
<1>2. Content(Debug)' = Content(Debug)
  BY ContentSame DEF Return, outside
<1>3. Says(interrupted[1].script, interrupted[1].word)
  BY <1>1 DEF CodecInv, Talks
<1>4. Speaking(script', word', cache', codec', Content(Debug)', asked')
  <2>1. Speaking(interrupted[1].script, interrupted[1].word, cache, codec, Content(Debug), asked)
    BY <1>3 DEF Says
  <2>2. QED
    BY Zenon, <1>1, <1>2, <2>1
<1>5. Says(script, word)'
  BY Zenon, <1>4 DEF Says
<1>6. CodecInv'
  BY Zenon, <1>1, <1>5 DEF CodecInv
<1>7. QED
  BY <1>1, <1>6, SameSound

(* The reset lines, the PLL and a stutter.                                  *)
LEMMA OutsideKeepsCodecs ==
  ASSUME CodecInv, Settle \/ Lock \/ UNCHANGED vars PROVE CodecInv' /\ AllSound
<1>1. /\ script' = script /\ word' = word /\ interrupted' = interrupted /\ cache' = cache
      /\ codec' = codec /\ asked' = asked /\ initial' = initial /\ regs' = regs
  BY DEF Settle, Lock, vars, inside, outside
<1>2. Content(Debug)' = Content(Debug)
  BY <1>1, ContentSame
<1>3. ASSUME interrupted = <<>> \/ Talks(script) PROVE Says(script, word)'
  <2>1. Speaking(script, word, cache, codec, Content(Debug), asked)
    BY <1>3 DEF CodecInv, Says
  <2>2. Speaking(script', word', cache', codec', Content(Debug)', asked')
    BY Zenon, <1>1, <1>2, <2>1
  <2>3. QED
    BY Zenon, <2>2 DEF Says
<1>4. ASSUME interrupted # <<>>, ~Talks(script)
      PROVE  Says(interrupted[1].script, interrupted[1].word)'
  <2>1. Speaking(interrupted[1].script, interrupted[1].word, cache, codec, Content(Debug), asked)
    BY <1>4 DEF CodecInv, Says
  <2>2. Speaking(interrupted'[1].script, interrupted'[1].word,
                 cache', codec', Content(Debug)', asked')
    BY Zenon, <1>1, <1>2, <2>1
  <2>3. QED
    BY Zenon, <2>2 DEF Says
<1>5. CodecInv'
  BY Zenon, <1>1, <1>3, <1>4 DEF CodecInv
<1>6. QED
  BY <1>1, <1>5, SameSound

(* At first no codec was told anything.                                     *)
LEMMA CodecInit == Init => CodecInv
<1> SUFFICES ASSUME Init PROVE CodecInv
  OBVIOUS
<1>1. /\ script = <<>> /\ word = None /\ interrupted = <<>>
      /\ codec = [k \in Codecs |-> Fresh] /\ asked = [k \in Codecs |-> None]
  BY DEF Init
<1>2. FramesFirst(script) /\ TameOuts(script) /\ WordOfPads(script, word, Content(Debug))
  BY <1>1 DEF FramesFirst, TameOuts, WordOfPads
<1>3. Untold(PowerOn)
  <2>1. PowerOn.held = PowerOn.applied
    BY DEF PowerOn
  <2>2. QED
    BY <2>1 DEF Untold
<1>4. ASSUME NEW k \in Codecs
      PROVE  /\ Framing(script, k, cache[k], codec[k].bits, Content(Debug))
             /\ Informed(script, k, cache[k], codec[k].chip, asked[k])
  <2>1. codec[k].bits = <<>> /\ codec[k].chip = PowerOn /\ asked[k] = None
    BY <1>1 DEF Fresh
  <2>2. ~IsFrame(script, k)
    BY <1>1 DEF IsFrame
  <2>3. Framing(script, k, cache[k], codec[k].bits, Content(Debug))
    BY <2>1, <2>2 DEF Framing
  <2>4. Informed(script, k, cache[k], codec[k].chip, asked[k])
    BY <1>3, <2>1 DEF Informed
  <2>5. QED
    BY <2>3, <2>4
<1>5. Says(script, word)
  BY <1>2, <1>4 DEF Says, Speaking
<1>6. QED
  BY <1>1, <1>5 DEF CodecInv

(* Every step.                                                              *)
LEMMA CodecStep ==
  TypeInv /\ TypeInv' /\ SomeFieldInv /\ CodecInv /\ CallersConsiderate /\ CallersConsiderate'
  /\ [Next]_vars => CodecInv' /\ AllSound
BY CallKeepsCodecs, InterruptKeepsCodecs, ReturnKeepsCodecs, AccessKeepsCodecs, OutsideKeepsCodecs
   DEF Next, Access

(* So the invariant always holds.                                           *)
LEMMA CodecHolds == Spec /\ []CallersConsiderate => [](TypeInv /\ SomeFieldInv /\ CodecInv)
<1>1. CallersConsiderate => WordsKept
  BY DEF CallersConsiderate
<1>2. QED
  BY <1>1, TypeHolds, FieldInit, SomeFieldStep, CodecInit, CodecStep, PTL DEF Spec

(* Between the calls.                                                       *)
LEMMA CodecFollows == TypeInv /\ CodecInv => CodecAgrees
<1> SUFFICES ASSUME TypeInv, CodecInv, Idle, NEW k \in Codecs, asked[k] # None
    PROVE  /\ \A a \in 0 .. 10 : codec[k].chip.regs[a] = cache[k][a]
           /\ \A ch \in Channels :
                codec[k].chip.applied[ch]
                = [side \in 1 .. 2 |-> cache[k][VolumeRegs[ch][side]] \ {Update}]
  BY DEF CodecAgrees
<1> DEFINE m == cache[k]
           chip == codec[k].chip
           q == asked[k]
<1>1. Says(script, word) /\ ~Talks(script) /\ script \in Seq({})
  BY DEF CodecInv, Talks, Idle
<1>2. AllSettled
  BY <1>1, SaysSettled
<1>3. Steady(m, chip, q) /\ q \in Volumes3 /\ m \in Caches
  BY <1>2 DEF AllSettled, Settled, TypeInv
<1> HIDE DEF m, chip, q
<1>4. \A a \in 0 .. 10 : chip.regs[a] = m[a]
  BY <1>3 DEF Steady
<1>5. ASSUME NEW ch \in Channels
      PROVE  chip.applied[ch] = [side \in 1 .. 2 |-> m[VolumeRegs[ch][side]] \ {Update}]
  <2> DEFINE z == [side \in 1 .. 2 |-> m[VolumeRegs[ch][side]] \ {Update}]
             x == q[ch]
  <2>1. z[1] = m[LeftOf(ch)] \ {Update} /\ z[2] = m[RightOf(ch)] \ {Update}
    BY DEF LeftOf, RightOf
  <2>2. x \in SidePairs
    BY <1>3 DEF Volumes3
  <2>3. m[LeftOf(ch)] = x[1] /\ Update \notin x[1] /\ m[RightOf(ch)] \ {Update} = x[2]
        /\ chip.applied[ch] = x
    BY <1>3 DEF Steady
  <2>4. z[1] = x[1] /\ z[2] = x[2]
    BY <2>1, <2>3
  <2>5. z = x
    BY <2>2, <2>4 DEF SidePairs
  <2>6. QED
    BY <2>3, <2>5
<1>6. QED
  BY <1>4, <1>5 DEF m, chip

(* Between calls an initialised codec holds what the driver's cache says,   *)
(* and plays each channel at the volumes in it, whatever the programs and   *)
(* wherever the interrupts come, as long as no handler talks to a codec     *)
(* while the interrupted call does, and nobody does before its init.        *)
THEOREM CodecsAgree == Spec /\ []CallersConsiderate => []CodecAgrees
BY CodecHolds, CodecFollows, PTL

(* The two sides of a channel change their volume at once, and only to the  *)
(* pair that was asked for (or to the codec's own on its reset), for the    *)
(* same callers.                                                            *)
THEOREM VolumesStayTogether == Spec /\ []CallersConsiderate => VolumesTogether
<1> DEFINE Together == \A k \in Codecs, ch \in Channels :
                         LET applied == codec'[k].chip.applied[ch]
                         IN  \/ applied = codec[k].chip.applied[ch]
                             \/ applied = PowerOn.applied[ch]
                             \/ asked[k] # None /\ applied = asked[k][ch]
<1>1. AllSound => Together
  BY DEF AllSound, Sounds
<1>2. TypeInv /\ TypeInv' /\ SomeFieldInv /\ CodecInv /\ CallersConsiderate /\ CallersConsiderate'
      /\ [Next]_vars => [Together]_vars
  BY <1>1, CodecStep
<1> HIDE DEF Together
<1>3. Spec /\ []CallersConsiderate => [][Together]_vars
  BY <1>2, CodecHolds, PTL DEF Spec
<1>4. QED
  BY <1>3 DEF VolumesTogether, Together
===============================================================================
