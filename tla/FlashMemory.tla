------------------------------ MODULE FlashMemory ------------------------------
(***************************************************************************)
(* What the calls of the SPI flash driver promise: a NOR memory.  An erase *)
(* sets whole sectors, a write clears bits, a read tells what is there.  A *)
(* call that returns 0 has done all of it outside the protected sectors:   *)
(* those it leaves as they are, and does not tell.  No call ever touches a *)
(* cell outside its range.  A cell is one bit.                             *)
(***************************************************************************)
EXTENDS Integers, Sequences

CONSTANTS Cap, SectorSize, PageSize, Calls

VARIABLES
  mem,     (* the cells                                                     *)
  guard,   (* the sectors that are protected                                *)
  call,    (* the call in progress, or NoCall                               *)
  buf,     (* the caller's read buffer                                      *)
  late     (* cells that calls which gave up asked for: from then on the    *)
           (* memory may be busy with them and nothing is promised          *)

vars == <<mem, guard, call, buf, late>>

Cells == 0 .. Cap - 1
NoCall == [op |-> "none", addr |-> 0, len |-> 0, data |-> 0]

(* The data of a write: all bits clear, or every other one.                 *)
Data(c, i) == IF c.data = 0 THEN 0 ELSE i % 2

Extent(c) == {i \in Cells : c.addr <= i /\ i < c.addr + c.len}
Sector(i) == i \div SectorSize
Legal(c) == c.addr % SectorSize = 0 /\ c.len % SectorSize = 0 /\ c.len > 0
            /\ c.addr + c.len <= Cap
Aligned(c) == c.addr % PageSize = 0

(* The cells a call may touch: a write that does not start at a page may    *)
(* wrap around in a page.                                                   *)
Reach(c) ==
  {i \in Cells :
     /\ Sector(i) \notin guard
     /\ CASE c.op = "erase" -> Legal(c) /\ i \in Extent(c)
          [] c.op = "write" -> \E j \in Extent(c) : i \div PageSize = j \div PageSize
          [] OTHER -> FALSE}
(* ... and the values it may leave.                                         *)
MayLeave(c, i, v) ==
  CASE c.op = "erase" -> v = 1
    [] c.op = "write" /\ Aligned(c) -> v = 0 /\ i \in Extent(c) /\ Data(c, i - c.addr) = 0
    [] OTHER -> v = 0

(* A call that returns 0 has done this.  Reach leaves the protected sectors *)
(* out, which are not an error of the call.                                 *)
Done(c) ==
  CASE c.op = "erase" -> Legal(c) /\ \A i \in Reach(c) : mem[i] = 1
    [] c.op = "write" -> Aligned(c) =>
         \A i \in Reach(c) \cap Extent(c) : mem[i] <= Data(c, i - c.addr)
    [] c.op = "read" -> buf = [i \in 1 .. c.len |-> mem[c.addr + i - 1]]

Begin(c) == call = NoCall /\ call' = c /\ UNCHANGED <<mem, guard, buf, late>>
Change(mem2) ==
  /\ mem' = mem2
  /\ \A i \in Cells : mem2[i] # mem[i] =>
       i \in late \/ (i \in Reach(call) /\ MayLeave(call, i, mem2[i]))
  /\ UNCHANGED <<guard, call, buf, late>>
Fill(b) == call.op = "read" /\ buf' = b /\ UNCHANGED <<mem, guard, call, late>>
Return ==
  /\ call # NoCall /\ (late # {} \/ Done(call))
  /\ call' = NoCall /\ buf' = <<>>
  /\ UNCHANGED <<mem, guard, late>>
GiveUp ==
  /\ call.op \in {"erase", "write"}
  /\ late' = late \cup Reach(call)
  /\ call' = NoCall
  /\ UNCHANGED <<mem, guard, buf>>

Init ==
  /\ mem \in [Cells -> {0, 1}] /\ guard \subseteq {Sector(i) : i \in Cells}
  /\ call = NoCall /\ buf = <<>> /\ late = {}
Next ==
  \/ \E c \in Calls : Begin(c)
  \/ Change(mem') \/ Fill(buf') \/ Return \/ GiveUp
Spec == Init /\ [][Next]_vars
=============================================================================
