------------------------------ MODULE PageDump ------------------------------
(***************************************************************************)
(* Vmm::dump: it visits the tables in order, with the virtual address of  *)
(* every present page put together from the indices on the way, and a     *)
(* Context that joins the pages into the ranges it logs.  Addresses are   *)
(* in pages.                                                              *)
(***************************************************************************)
EXTENDS PageTables

Index2Virt(index, level) == index * Span[level - 1]

(* Context; started says that vstart is not -1. *)
Context ==
    [started : BOOLEAN, vstart : Nat, vend : Nat, pstart : Nat,
     log : Seq([vstart : Nat, pstart : Nat, size : Nat])]

Fresh == [started |-> FALSE, vstart |-> 0, vend |-> 0, pstart |-> 0, log |-> <<>>]

Started(ctx, page) ==
    [started |-> TRUE, vstart |-> page.vaddr, vend |-> page.vaddr,
     pstart |-> page.paddr, log |-> ctx.log]

Logged(ctx) ==
    [ctx EXCEPT !.log = Append(@, [vstart |-> ctx.vstart, pstart |-> ctx.pstart,
                                   size |-> ctx.vend + 1 - ctx.vstart])]

PhysEnd(ctx) == ctx.pstart + ctx.vend - ctx.vstart

(* Mutant: pages are joined wherever they are in physical memory. *)
NextByVaddr(ctx, page) ==
    IF ~ctx.started THEN Started(ctx, page)
    ELSE IF ctx.vend + 1 # page.vaddr THEN Started(Logged(ctx), page)
    ELSE [ctx EXCEPT !.vend = @ + 1]

(* Context::next; pend moves with vend. *)
NextPage(ctx, page) ==
    IF ~ctx.started THEN Started(ctx, page)
    ELSE IF ctx.vend + 1 # page.vaddr \/ PhysEnd(ctx) + 1 # page.paddr
    THEN Started(Logged(ctx), page)
    ELSE [ctx EXCEPT !.vend = @ + 1]

(* One entry in the loop of _dumpPml; lower dumps the tables below.         *)
DumpEntry(lower, level, table, vaddr, index, ctx) ==
    LET curr == Index2Virt(index, level) + vaddr
        page == mem[table][index]
    IN  IF page = Absent THEN ctx
        ELSE IF level = 1 THEN NextPage(ctx, [vaddr |-> curr, paddr |-> page])
        ELSE lower[page][curr][ctx]

DumpTable(lower, level, table, vaddr, ctx) ==
    LET upto[i \in 0 .. Radix] ==
            IF i = 0 THEN ctx
            ELSE DumpEntry(lower, level, table, vaddr, i - 1, upto[i - 1])
    IN  upto[Radix]

(* _dumpPml for each level; there is no table of level 0.                   *)
DumpPml[level \in 0 .. Levels] ==
    [table \in Table |-> [vaddr \in Nat |-> [ctx \in Context |->
        IF level = 0 THEN ctx ELSE DumpTable(DumpPml[level - 1], level, table, vaddr, ctx)]]]

(* dump, which ends with a call of next for page 0 to log the last range. *)
Dump == NextPage(DumpPml[Levels][Root][0][Fresh], [vaddr |-> 0, paddr |-> 0]).log

-----------------------------------------------------------------------------
(* Properties. *)

Mapped(first, size, phys) == \A k \in 0 .. size - 1 : Walk(first + k) = phys + k

(* log holds the maximal ranges of pages mapped to consecutive physical     *)
(* pages, in address order.                                                 *)
TellsTheMapping(log) ==
    LET mapped == {p \in Page : Walk(p) # Absent}
    IN  /\ \A k \in DOMAIN log : Mapped(log[k].vstart, log[k].size, log[k].pstart)
        /\ \A k \in 1 .. Len(log) - 1 :
              LET vend == log[k].vstart + log[k].size
              IN  /\ vend <= log[k + 1].vstart
                  /\ ~(vend = log[k + 1].vstart /\ log[k].pstart + log[k].size = log[k + 1].pstart)
        /\ mapped = UNION {log[k].vstart .. log[k].vstart + log[k].size - 1 : k \in DOMAIN log}

(* dump, called after any store of a mapRange or free, logs every mapped    *)
(* page in exactly one range, with where it is mapped.                      *)
DumpTellsTheMapping == TellsTheMapping(Dump)
=============================================================================
