---------------------------- MODULE AddressSpace ----------------------------
(***************************************************************************)
(* What Vaerk::Vmm (vaerk-base/vmm.cpp) promises the owner of an address  *)
(* space and the hardware that translates through it, with no tables:     *)
(* mapRange and free work through their range one page at a time, a step  *)
(* changes the translation of the page it is at and of no other, and a    *)
(* call that returns Ok has been through the whole range.                 *)
(***************************************************************************)
EXTENDS Integers

CONSTANTS
    Page,        \* virtual pages
    PhysPage,    \* physical pages that can be mapped, integers
    Sizes,       \* sizes of ranges, in pages
    Unmapped     \* the translation of a page that has none

ASSUME AddressSpaceAssumption ==
    /\ Page \subseteq Nat /\ PhysPage \subseteq Nat /\ Sizes \subseteq Nat
    /\ Unmapped \notin PhysPage

VARIABLES
    mapping,     \* Page -> physical page or Unmapped
    call,        \* the call being executed
    result       \* how the last call ended

spaceVars == <<mapping, call, result>>

NoCall == [op |-> "none", first |-> 0, size |-> 0, phys |-> 0, done |-> 0]

Call(op, first, size, phys) ==
    [op |-> op, first |-> first, size |-> size, phys |-> phys, done |-> 0]

Within(first, size, pages) == first .. first + size - 1 \subseteq pages

Current == call.first + call.done

Init ==
    /\ mapping = [p \in Page |-> Unmapped]
    /\ call = NoCall
    /\ result = "none"

(* mapRange, whose two ranges must have the same size. *)
MapRange(first, size, phys, physSize) ==
    /\ call = NoCall
    /\ Within(first, size, Page) /\ Within(phys, physSize, PhysPage)
    /\ IF physSize # size
       THEN result' = "error" /\ UNCHANGED <<mapping, call>>
       ELSE call' = Call("map", first, size, phys) /\ result' = "none" /\ UNCHANGED mapping

Free(first, size) ==
    /\ call = NoCall
    /\ Within(first, size, Page)
    /\ call' = Call("free", first, size, 0)
    /\ result' = "none"
    /\ UNCHANGED mapping

MapPage ==
    /\ call.op = "map" /\ call.done < call.size
    /\ mapping' = [mapping EXCEPT ![Current] = call.phys + call.done]
    /\ call' = [call EXCEPT !.done = @ + 1]
    /\ UNCHANGED result

FreePage ==
    /\ call.op = "free" /\ call.done < call.size
    /\ mapping' = [mapping EXCEPT ![Current] = Unmapped]
    /\ call' = [call EXCEPT !.done = @ + 1]
    /\ UNCHANGED result

Finish(how) == call' = NoCall /\ result' = how /\ UNCHANGED mapping

Return == call # NoCall /\ call.done = call.size /\ Finish("ok")

(* Mapping fails when a table cannot be allocated; freeing fails at a page  *)
(* without translation, or when a table cannot be given back.               *)
Fail ==
    /\ call # NoCall
    /\ \/ call.op = "map" /\ call.done < call.size
       \/ call.op = "free" /\ call.done < call.size /\ mapping[Current] = Unmapped
       \/ call.op = "free" /\ call.done > 0
    /\ Finish("error")

Next ==
    \/ \E first \in Page, size, physSize \in Sizes, phys \in PhysPage :
          MapRange(first, size, phys, physSize)
    \/ \E first \in Page, size \in Sizes : Free(first, size)
    \/ MapPage \/ FreePage \/ Return \/ Fail

Spec == Init /\ [][Next]_spaceVars
=============================================================================
