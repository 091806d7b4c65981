----------------------------- MODULE MemoryMap -----------------------------
(***************************************************************************)
(* What the handover memory map promises its client, with no record list  *)
(* in sight: a function from addresses to the tag that holds them.  A     *)
(* claim raises every address of its range to its tag unless a tag of at  *)
(* least the same rank is already there.  Only a claim over a range that  *)
(* already holds a tag of its own rank (the code "drops" such a record)   *)
(* may be applied in part, and even then no address can get a tag other   *)
(* than the one it had or the claimed one, and rank-2 tags stay put.      *)
(***************************************************************************)
EXTENDS Integers

CONSTANTS Address, Tag, Unclaimed, Rank(_)

VARIABLE owner

Holder(a) == IF owner[a] = Unclaimed THEN -1 ELSE Rank(owner[a])

Raised(tag, range, a) ==
    IF a \in range /\ Rank(tag) > Holder(a) THEN tag ELSE owner[a]

Contested(tag, range) == \E a \in range : Holder(a) = Rank(tag)

Init == owner = [a \in Address |-> Unclaimed]

(* A claim that meets no holder of its own rank is applied exactly. *)
Claim(tag, range) == owner' = [a \in Address |-> Raised(tag, range, a)]

(* A contested claim: applied in part, and it may lose FREE or LOADER memory. *)
PartialClaim(tag, range) ==
    /\ Contested(tag, range)
    /\ DOMAIN owner' = Address
    /\ \A a \in Address :
          owner'[a] \in IF Holder(a) = 2 THEN {owner[a]}
                        ELSE {owner[a], Raised(tag, range, a), Unclaimed}

Ranges == UNION {{lo .. hi : hi \in Address} : lo \in Address}

Next == \E tag \in Tag, range \in Ranges :
           Claim(tag, range) \/ PartialClaim(tag, range)

Spec == Init /\ [][Next]_owner
=============================================================================
