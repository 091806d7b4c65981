------------------------------ MODULE RiscvVmm ------------------------------
(***************************************************************************)
(* Riscv::Vmm (vaerk-riscv/vmm.cpp) over Sv39 tables (sv39.cpp), function *)
(* by function: allocPage and freePage name the tables of their three     *)
(* levels one by one, where PageTables goes down and up a path of any     *)
(* length.  The state is that of PageTables; a call that has reached n    *)
(* tables has path <<_root>>, <<_root, pml2>> or <<_root, pml2, pml1>>.   *)
(***************************************************************************)
EXTENDS PageDump

Pml2 == path[2]
Pml1 == path[3]

(* Pml<L>: virt2index shifts by nine bits a level; addresses are in pages.  *)
Shift == <<1, Radix, Radix * Radix>>

Sv39Index(L, vaddr) == (vaddr \div Shift[L]) % Radix

Sv39PageAt(L, pml, vaddr) == mem[pml][Sv39Index(L, vaddr)]

Sv39PutPage(L, pml, vaddr, page) ==
    mem' = [mem EXCEPT ![pml][Sv39Index(L, vaddr)] = page]

(* The page the loop of mapRange or free is at, ...                         *)
Vaddr == call.first + call.done

(* ... and the one freePage has cleared, which counts as done from then on. *)
Freed == Vaddr - 1

-----------------------------------------------------------------------------
(* pmlOrAlloc<L>(upper, vaddr): the table there is, or a new one, which is  *)
(* cleared and then stored in upper.                                        *)

LowerThere(L, upper) ==
    /\ stage = "walk" /\ new = NoFrame /\ Sv39PageAt(L, upper, Vaddr) # Absent
    /\ path' = Append(path, Sv39PageAt(L, upper, Vaddr))
    /\ UNCHANGED <<mem, free, call, stage, new, result, spoiled>>

LowerMissing(L, upper) ==
    stage = "walk" /\ new = NoFrame /\ Sv39PageAt(L, upper, Vaddr) = Absent

AllocLower(L, upper, lower) ==
    /\ LowerMissing(L, upper)
    /\ free' = free \ {lower} /\ new' = lower
    /\ UNCHANGED <<mem, call, stage, path, result, spoiled>>

AllocLowerFails(L, upper) ==
    LowerMissing(L, upper) /\ free = {} /\ Finish("error") /\ UNCHANGED <<mem, free>>

ClearLower ==
    /\ stage = "walk" /\ new # NoFrame
    /\ mem' = [mem EXCEPT ![new] = Cleared]
    /\ stage' = "link"
    /\ UNCHANGED <<free, call, path, new, result, spoiled>>

PutLower(L, upper) ==
    /\ stage = "link"
    /\ Sv39PutPage(L, upper, Vaddr, new)
    /\ path' = Append(path, new) /\ new' = NoFrame /\ stage' = "walk"
    /\ UNCHANGED <<free, call, result, spoiled>>

PmlOrAlloc(L, upper) ==
    \/ LowerThere(L, upper)
    \/ \E lower \in free : AllocLower(L, upper, lower)
    \/ AllocLowerFails(L, upper) \/ ClearLower \/ PutLower(L, upper)

(* Mutant: the loop of mapRange does not advance. *)
PutSamePage ==
    /\ stage = "walk"
    /\ Sv39PutPage(1, Pml1, Vaddr, call.phys + call.done)
    /\ path' = <<Root>>
    /\ UNCHANGED <<free, call, stage, new, result, spoiled>>

(* The end of allocPage, and the loop of mapRange goes on. *)
PutMappedPage ==
    /\ stage = "walk"
    /\ Sv39PutPage(1, Pml1, Vaddr, call.phys + call.done)
    /\ call' = [call EXCEPT !.done = @ + 1]
    /\ path' = <<Root>>
    /\ UNCHANGED <<free, stage, new, result, spoiled>>

AllocPage ==
    /\ call.op = "map" /\ call.done < call.size
    /\ \/ Len(path) = 1 /\ PmlOrAlloc(3, Root)
       \/ Len(path) = 2 /\ PmlOrAlloc(2, Pml2)
       \/ Len(path) = 3 /\ PutMappedPage

-----------------------------------------------------------------------------
(* pml<L>(upper, vaddr): the table there is, or an error. *)
Pml(L, upper) ==
    \/ LowerThere(L, upper)
    \/ LowerMissing(L, upper) /\ Finish("error") /\ UNCHANGED <<mem, free>>

ClearPage ==
    /\ Sv39PutPage(1, Pml1, Vaddr, Absent)
    /\ call' = [call EXCEPT !.done = @ + 1]
    /\ stage' = "prune"
    /\ UNCHANGED <<free, path, new, result, spoiled>>

(* if (pml->empty()): the entry of pml in upper, a table of level L, is     *)
(* cleared, then pml is given back; if the Pmm refuses it (ReleaseFails),   *)
(* the error returns at once from either place.                             *)

KeepPml(pml) ==
    /\ stage = "prune" /\ ~Empty(pml)
    /\ path' = Front(path)
    /\ UNCHANGED <<mem, free, call, stage, new, result, spoiled>>

(* Mutant: the table is unlinked without asking whether it is empty. *)
UnlinkAnyPml(pml, L, upper) ==
    /\ stage = "prune"
    /\ Sv39PutPage(L, upper, Freed, Absent)
    /\ stage' = "release"
    /\ UNCHANGED <<free, call, path, new, result, spoiled>>

UnlinkPml(pml, L, upper) ==
    /\ stage = "prune" /\ Empty(pml)
    /\ Sv39PutPage(L, upper, Freed, Absent)
    /\ stage' = "release"
    /\ UNCHANGED <<free, call, path, new, result, spoiled>>

ReleasePml(pml) ==
    /\ stage = "release"
    /\ free' = free \cup {pml}
    /\ mem' = [mem EXCEPT ![pml] = Dirty]
    /\ path' = Front(path) /\ stage' = "prune"
    /\ UNCHANGED <<call, new, result, spoiled>>

PruneEmpty(pml, L, upper) == KeepPml(pml) \/ UnlinkPml(pml, L, upper) \/ ReleasePml(pml)

(* The end of freePage, and the loop of free goes on. *)
PageFreed ==
    /\ stage = "prune" /\ stage' = "walk"
    /\ UNCHANGED <<mem, free, call, path, new, result, spoiled>>

FreePage ==
    \/ /\ call.op = "free" /\ stage = "walk" /\ call.done < call.size
       /\ \/ Len(path) = 1 /\ Pml(3, Root)
          \/ Len(path) = 2 /\ Pml(2, Pml2)
          \/ Len(path) = 3 /\ ClearPage
    \/ Len(path) = 3 /\ PruneEmpty(Pml1, 2, Pml2)
    \/ Len(path) = 2 /\ PruneEmpty(Pml2, 3, Root)
    \/ Len(path) = 1 /\ PageFreed
    \/ ReleaseFails

-----------------------------------------------------------------------------
(* mapRange and free: one page after the other. *)

MapRangeLoop ==
    \/ \E first \in Page, size, physSize \in Sizes, phys \in PhysPage :
          MapRange(first, size, phys, physSize)
    \/ AllocPage
    \/ call.op = "map" /\ Return

FreeLoop ==
    \/ \E first \in Page, size \in Sizes : Free(first, size)
    \/ FreePage
    \/ call.op = "free" /\ Return

Sv39Next == MapRangeLoop \/ FreeLoop

Sv39Spec == Init /\ [][Sv39Next]_vars /\ WF_vars(AllocPage \/ FreePage \/ Return)

-----------------------------------------------------------------------------
(* Vmm::dump. *)
Sv39Dump == NextPage(DumpPml[Levels][Root][0][Fresh], [vaddr |-> 0, paddr |-> 0]).log

(* The same of dump over three levels, after failures halfway too: a table  *)
(* left without pages adds nothing and splits no range.                     *)
Sv39DumpTellsTheMapping == TellsTheMapping(Sv39Dump)
=============================================================================
