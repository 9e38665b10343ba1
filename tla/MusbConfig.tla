------------------------------ MODULE MusbConfig ------------------------------
(***************************************************************************)
(* The endpoints the audio function gets: how musb_core.c lays the FIFOs   *)
(* of the hardware endpoints out in the controller's RAM, how              *)
(* musb_gadget.c names the endpoints it offers, and how epautoconf.c picks *)
(* one for a descriptor.  All of it happens once, before the device        *)
(* connects; the module has no state.                                      *)
(***************************************************************************)
EXTENDS Integers, Sequences, SequencesExt

NumEps == 8             (* musb_config.num_eps                              *)
RamBytes == 2 ^ (12 + 2)  (* 1 << (ram_bits + 2)                            *)

(* A table of FIFOs: the endpoint, what it carries, its size.  fifo_mode 2. *)
Ep0Cfg == [num |-> 0, style |-> "rxtx", max |-> 64]
Mode2Cfg == <<[num |-> 1, style |-> "rxtx", max |-> 256],
              [num |-> 2, style |-> "rxtx", max |-> 256]>>

(* fifo_setup: a FIFO is as large as the lowest bit of the size asked for,  *)
(* at least 8 bytes; one that carries both directions is shared.  An offset *)
(* of -1 is an error.                                                       *)
LowestBit(n) == CHOOSE b \in {2 ^ k : k \in 3 .. 15} : n % b = 0 /\ (n \div b) % 2 = 1
FifoSetup(hw, cfg) ==
  LET size == LowestBit(IF cfg.max < 8 THEN 8 ELSE cfg.max)
  IN IF hw.offset = -1 \/ cfg.num >= NumEps \/ hw.offset + size > RamBytes
     THEN [hw EXCEPT !.offset = -1]
     ELSE [offset |-> hw.offset + size,
           nr |-> IF cfg.num >= hw.nr THEN cfg.num + 1 ELSE hw.nr,
           eps |-> [hw.eps EXCEPT ![cfg.num] =
                      [tx |-> IF cfg.style = "rx" THEN @.tx ELSE size,
                       rx |-> IF cfg.style = "tx" THEN @.rx ELSE size,
                       shared |-> cfg.style = "rxtx", start |-> hw.offset]]]
EpConfigFromTable(table) ==
  FoldLeft(FifoSetup,
           [offset |-> 0, nr |-> 1,
            eps |-> [n \in 0 .. NumEps - 1 |-> [tx |-> 0, rx |-> 0, shared |-> FALSE, start |-> 0]]],
           <<Ep0Cfg>> \o table)
HwEndpoints == EpConfigFromTable(Mode2Cfg)

(* The endpoints offered: one of either direction for a shared FIFO, one    *)
(* for each direction otherwise.                                            *)
PeripheralEp(n, dir, max) == [num |-> n, dir |-> dir, max |-> max]
PeripheralEps(hw) ==
  FlattenSeq([n \in 1 .. hw.nr - 1 |->
    LET e == hw.eps[n]
    IN IF e.shared THEN <<PeripheralEp(n, "any", e.rx)>>
       ELSE (IF e.tx # 0 THEN <<PeripheralEp(n, "in", e.tx)>> ELSE <<>>)
            \o (IF e.rx # 0 THEN <<PeripheralEp(n, "out", e.rx)>> ELSE <<>>)])

(* ep_matches for an isochronous endpoint of a gadget of one speed; whether *)
(* the FIFO holds the packet is not asked ("#if 0").                        *)
EpMatches(ep, desc, claimed) ==
  ep.num \notin claimed /\ ep.dir \in {"any", desc.dir} /\ desc.max <= 1023
UsbEpAutoconfig(eps, desc, claimed) ==
  LET fit == SelectSeq(eps, LAMBDA e : EpMatches(e, desc, claimed))
  IN IF fit = <<>> THEN [num |-> 0, dir |-> "none", max |-> 0] ELSE Head(fit)

(* afunc_bind: the OUT endpoint is picked, and claimed, first.              *)
FsEpoutDesc == [dir |-> "out", max |-> 1023]
FsEpinDesc == [dir |-> "in", max |-> 1023]
OutEp == UsbEpAutoconfig(PeripheralEps(HwEndpoints), FsEpoutDesc, {})
InEp == UsbEpAutoconfig(PeripheralEps(HwEndpoints), FsEpinDesc, {OutEp.num})
=============================================================================
