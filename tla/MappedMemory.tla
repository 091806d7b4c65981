---------------------------- MODULE MappedMemory ----------------------------
(***************************************************************************)
(* Vmm::mapOwned and ~Mem<Vmm, VirtRange> over an address space and its   *)
(* TLB: a handle is made when mapRange has been through its range, and    *)
(* gives the range back page by page when it dies.  Handles of Mem and    *)
(* the address space of Tlb change together here; what Mem does in one    *)
(* step is here a call of the Vmm that may fail halfway.                   *)
(*                                                                         *)
(* The client, which is not in the repository, does not map a range over  *)
(* one that is still owned: mapRange would overwrite it without a word.   *)
(***************************************************************************)
EXTENDS Tlb, Mem

VARIABLES
    running,    \* the mapOwned or the destructor the call of the Vmm is for
    left        \* history: pages that failing calls of mapOwned left mapped

ownedVars == <<tlbVars, memVars, running, left>>

(* A range to map is where it starts, how long it is, and what is mapped.   *)
Pages(range) == range.first .. range.first + range.size - 1

ASSUME MappedMemoryAssumption ==
    /\ Ranges \subseteq [first : Page, size : Sizes \ {0}, phys : PhysPage]
    /\ \A range \in Ranges :
          Pages(range) \subseteq Page /\ range.phys .. range.phys + range.size - 1 \subseteq PhysPage

Nobody == [op |-> "none"]
Panic  == [op |-> "panic"]
For(op, h, range) == [op |-> op, handle |-> h, range |-> range]

Idle == running = Nobody /\ call = NoCall /\ flushing = NoFlush

OwnedInit == TlbInit /\ MemInit /\ running = Nobody /\ left = {}

(* mapOwned: mapRange; there is no handle yet. *)
MapOwned(h, range, physSize) ==
    /\ Idle /\ h \notin alive
    /\ \A other \in given : Pages(other) \cap Pages(range) = {}
    /\ MapRange(range.first, range.size, range.phys, physSize) /\ NotFlushed
    /\ running' = IF call' = NoCall THEN Nobody ELSE For("map", h, range)
    /\ UNCHANGED <<memVars, left>>

(* Mutant: the handle is made whatever mapRange returned. *)
MapReturnsUnchecked ==
    /\ running.op = "map"
    /\ Return \/ Fail
    /\ NotFlushed
    /\ AllocOwned(running.handle, running.range)
    /\ left' = left \ Pages(running.range)
    /\ running' = Nobody

MapReturns ==
    /\ running.op = "map"
    /\ \/ Return /\ AllocOwned(running.handle, running.range) /\ left' = left \ Pages(running.range)
       \/ Fail /\ left' = left \cup (call.first .. Current - 1) /\ UNCHANGED memVars
    /\ NotFlushed
    /\ running' = Nobody

(* The destructor: free, if the handle has an owner. *)
DestroyStarts(h) ==
    /\ Idle /\ h \in alive
    /\ IF holds[h] = Null THEN Destroy(h) /\ UNCHANGED <<tlbVars, running>>
       ELSE /\ Free(holds[h].first, holds[h].size) /\ NotFlushed
            /\ running' = For("free", h, holds[h])
            /\ UNCHANGED memVars
    /\ UNCHANGED left

(* expect panics when free fails: because the Pmm refused a table, or, which *)
(* is what must not happen, because the range was not mapped.               *)
DestroyReturns ==
    /\ running.op = "free"
    /\ \/ Return /\ Destroy(running.handle) /\ running' = Nobody
       \/ /\ Fail
          /\ refused' = (call.done < call.size /\ mapping[Current] = Unmapped)
          /\ running' = Panic
          /\ UNCHANGED <<alive, holds, given, lost>>
    /\ NotFlushed
    /\ UNCHANGED left

OnePage ==
    /\ MapPage \/ FreePage
    /\ NotFlushed
    /\ UNCHANGED <<memVars, running, left>>

Move(h, other) ==
    /\ Idle
    /\ MoveConstruct(h, other) \/ MoveAssign(h, other)
    /\ UNCHANGED <<tlbVars, running, left>>

Invalidate ==
    /\ running = Nobody
    /\ \/ \E first \in Page, size \in Sizes : Flush(first, size)
       \/ InvalidatePage \/ FlushReturns \/ Activate
    /\ UNCHANGED <<memVars, running, left>>

Mmu ==
    /\ \E p \in Page : Fill(p) \/ Evict(p)
    /\ UNCHANGED <<memVars, running, left>>

OwnedNext ==
    \/ \E h \in Handle, range \in Ranges, physSize \in Sizes : MapOwned(h, range, physSize)
    \/ \E h \in Handle : DestroyStarts(h)
    \/ \E h, other \in Handle : Move(h, other)
    \/ MapReturns \/ DestroyReturns \/ OnePage \/ Invalidate \/ Mmu

OwnedSpec == OwnedInit /\ [][OwnedNext]_ownedVars

-----------------------------------------------------------------------------

(* A live handle translates: every page of its range is mapped as mapOwned  *)
(* was asked, until its destructor has come to that page.  And every page   *)
(* mapped has a handle that will free it, unless a move assignment          *)
(* overwrote that handle, or the mapOwned that mapped it is still on its    *)
(* way, or failed.                                                          *)
HandlesTranslate ==
    /\ \A h \in alive : holds[h] # Null =>
          \A p \in Pages(holds[h]) :
              \/ mapping[p] = holds[h].phys + (p - holds[h].first)
              \/ /\ running \in {For("free", h, holds[h]), Panic}
                 /\ call = NoCall \/ p < Current
    /\ \A p \in Page : mapping[p] # Unmapped =>
          \/ \E h \in alive : holds[h] # Null /\ p \in Pages(holds[h])
          \/ \E range \in lost : p \in Pages(range)
          \/ p \in left
          \/ running.op = "map" /\ p \in call.first .. Current - 1

(* Mapping and freeing through an address space behaves as Mem says of any  *)
(* owner, each operation at the moment its call returns.                    *)
ImplementsMem == MemSpec
=============================================================================
