-------------------------------- MODULE Tlb --------------------------------
(***************************************************************************)
(* An address space and the translations the CPU has cached from it.     *)
(* mapRange and free change the tables and leave the TLB alone; flush     *)
(* invalidates a range one page at a time and activate, on x86_64 (a      *)
(* write to CR3), everything but the pages mapped GLOBAL, on RISC-V       *)
(* (sfence.vma without operands) everything.  The MMU caches or forgets   *)
(* a translation whenever it likes, between any two steps of the kernel.  *)
(***************************************************************************)
EXTENDS AddressSpace

CONSTANTS
    GlobalPages,         \* pages mapped with VmmFlags::GLOBAL
    ActivateKeepsGlobal  \* TRUE on x86_64, FALSE on RISC-V

ASSUME TlbAssumption ==
    GlobalPages \subseteq Page /\ ActivateKeepsGlobal \in BOOLEAN

VARIABLES
    tlb,        \* Page -> the cached physical page, or Unmapped
    flushing,   \* the pages the flush being executed has still to do
    owed        \* history: pages changed since a flush or activate for them

tlbVars == <<mapping, call, result, tlb, flushing, owed>>

NoFlush == [first |-> 0, size |-> 0, done |-> 0, range |-> {}]

TlbInit ==
    /\ Init
    /\ tlb = [p \in Page |-> Unmapped]
    /\ flushing = NoFlush
    /\ owed = {}

(* A step of mapRange or free; the kernel does one call at a time.          *)
NotFlushed ==
    /\ flushing = NoFlush
    /\ owed' = owed \cup {p \in Page : mapping'[p] # mapping[p]}
    /\ UNCHANGED <<tlb, flushing>>

KernelStep == Next /\ NotFlushed

Flush(first, size) ==
    /\ call = NoCall /\ flushing = NoFlush /\ size > 0
    /\ Within(first, size, Page)
    /\ flushing' = [first |-> first, size |-> size, done |-> 0,
                    range |-> first .. first + size - 1]
    /\ UNCHANGED <<spaceVars, tlb, owed>>

(* Mutant: the loop steps over every other page. *)
InvalidateStride ==
    /\ flushing # NoFlush /\ flushing.done < flushing.size
    /\ tlb' = [tlb EXCEPT ![flushing.first + flushing.done] = Unmapped]
    /\ flushing' = [flushing EXCEPT !.done = @ + 2]
    /\ UNCHANGED <<spaceVars, owed>>

(* invlpg, or sfence.vma with an address. *)
InvalidatePage ==
    /\ flushing # NoFlush /\ flushing.done < flushing.size
    /\ tlb' = [tlb EXCEPT ![flushing.first + flushing.done] = Unmapped]
    /\ flushing' = [flushing EXCEPT !.done = @ + 1]
    /\ UNCHANGED <<spaceVars, owed>>

FlushReturns ==
    /\ flushing # NoFlush /\ flushing.done >= flushing.size
    /\ owed' = owed \ flushing.range
    /\ flushing' = NoFlush
    /\ UNCHANGED <<spaceVars, tlb>>

Activate ==
    LET kept == IF ActivateKeepsGlobal THEN GlobalPages ELSE {}
    IN  /\ call = NoCall /\ flushing = NoFlush
        /\ tlb' = [p \in Page |-> IF p \in kept THEN tlb[p] ELSE Unmapped]
        /\ owed' = owed \cap kept
        /\ UNCHANGED <<spaceVars, flushing>>

(* The MMU. *)
Fill(p) ==
    /\ mapping[p] # Unmapped
    /\ tlb' = [tlb EXCEPT ![p] = mapping[p]]
    /\ UNCHANGED <<spaceVars, flushing, owed>>

Evict(p) ==
    /\ tlb[p] # Unmapped
    /\ tlb' = [tlb EXCEPT ![p] = Unmapped]
    /\ UNCHANGED <<spaceVars, flushing, owed>>

TlbNext ==
    \/ KernelStep
    \/ \E first \in Page, size \in Sizes : Flush(first, size)
    \/ InvalidatePage \/ FlushReturns \/ Activate
    \/ \E p \in Page : Fill(p) \/ Evict(p)

TlbSpec == TlbInit /\ [][TlbNext]_tlbVars

-----------------------------------------------------------------------------

(* A cached translation differs from the tables only for a page that was    *)
(* changed and neither flushed nor, unless it is GLOBAL on x86_64, covered  *)
(* by an activate since: whoever flushes the range it freed leaves no way   *)
(* through the TLB to memory it gives back.                                 *)
StaleOnlyIfOwed ==
    \A p \in Page : tlb[p] \notin {Unmapped, mapping[p]} => p \in owed
=============================================================================
