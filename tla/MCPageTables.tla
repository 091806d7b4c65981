---------------------------- MODULE MCPageTables ----------------------------
(***************************************************************************)
(* Tables of two entries and four neighbouring pages: with four levels    *)
(* 5, 6, 7 and 8, where 6 and 7 share every table, 5 and 6 all but the    *)
(* lowest, 7 and 8 only the root.                                         *)
(***************************************************************************)
EXTENDS PageDump, TLC

Boundary == 2 ^ (Levels - 1)
MCPage == Boundary - 3 .. Boundary
MCPhysPage == 0 .. 2
MCSizes == 0 .. 3
SameFrames == Permutations(Frame)
=============================================================================
