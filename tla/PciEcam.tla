------------------------------- MODULE PciEcam -------------------------------
(***************************************************************************)
(* Where the configuration space of a PCI function is (vaerk-pci/mod.cpp): *)
(* Addr::ecamOffset from the base of the ECAM region of its segment.      *)
(* seg is left out: the caller picks the base by it.                      *)
(***************************************************************************)
EXTENDS Integers

FunctionAddr == [bus : 0 .. 255, slot : 0 .. 31, func : 0 .. 7]

ConfigSpaceSize == 4096

(* The three fields do not overlap: or is plus. *)
EcamOffset(addr) == addr.bus * 2 ^ 20 + addr.slot * 2 ^ 15 + addr.func * 2 ^ 12

(* Ecam::at *)
EcamAt(base, addr) == base + EcamOffset(addr)
=============================================================================
