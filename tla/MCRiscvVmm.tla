---------------------------- MODULE MCRiscvVmm ----------------------------
(***************************************************************************)
(* Tables of two entries and pages 1, 2, 3 and 4: 2 and 3 share every     *)
(* table, 1 and 2 all but the lowest, 3 and 4 only the root.              *)
(***************************************************************************)
EXTENDS RiscvVmm

ASSUME Sv39Levels == Levels = 3

MCPage == 1 .. 4
MCPhysPage == 0 .. 2
MCSizes == 0 .. 3
=============================================================================
