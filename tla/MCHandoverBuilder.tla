------------------------- MODULE MCHandoverBuilder -------------------------
(***************************************************************************)
(* The builder on a few addresses and four tags, two of them of rank 2,   *)
(* which the code treats alike.                                           *)
(***************************************************************************)
EXTENDS HandoverBuilder

CONSTANTS KERNEL, RESERVED

MCTag == {FREE, LOADER, KERNEL, RESERVED}
=============================================================================
