------------------------------ MODULE MCPciBars ------------------------------
(***************************************************************************)
(* Registers of eight bits: I/O ranges of 4 and 8 ports, 32-bit ranges    *)
(* without an address, the smallest and the largest one, 64-bit ranges    *)
(* below, at and above the size of a register.                            *)
(***************************************************************************)
EXTENDS PciBars

Bar(type, base, size, prefetch) ==
    [type |-> type, base |-> base, size |-> size, prefetch |-> prefetch]

MCBars ==
    {Bar(NONE, 0, 0, FALSE),
     Bar(PIO, 8, 4, FALSE), Bar(PIO, 0, 8, FALSE),
     Bar(MMIO32, 0, 32, FALSE), Bar(MMIO32, 240, 16, FALSE), Bar(MMIO32, 128, 128, TRUE),
     Bar(MMIO64, 4096 + 64, 64, FALSE), Bar(MMIO64, 512, 256, TRUE), Bar(MMIO64, 1024, 1024, FALSE)}
=============================================================================
