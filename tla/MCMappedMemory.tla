--------------------------- MODULE MCMappedMemory ---------------------------
(***************************************************************************)
(* Three pages, one of them global: a range of two that can be mapped to  *)
(* either of two places, and a range of one.                               *)
(***************************************************************************)
EXTENDS MappedMemory

MCPage == 0 .. 2
MCPhysPage == 0 .. 2
MCSizes == 1 .. 2
MCGlobalPages == {1}
MCRanges == {[first |-> 0, size |-> 2, phys |-> 0], [first |-> 0, size |-> 2, phys |-> 1],
             [first |-> 2, size |-> 1, phys |-> 0]}
=============================================================================
