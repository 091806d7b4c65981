----------------------------- MODULE PageTables -----------------------------
(***************************************************************************)
(* The page tables behind an address space (x86_64::Vmm with four levels, *)
(* Riscv::Vmm with three).  Tables are physical frames taken from the     *)
(* Pmm: mapping a page allocates, clears and links the tables missing on  *)
(* its path; freeing a page clears its entry, then unlinks and gives back *)
(* every table left empty.                                                *)
(*                                                                         *)
(* The hardware walks the tables while the kernel changes them, so every  *)
(* store the walk can see is a step of its own, and a frame holds Garbage *)
(* from the time the Pmm has it until it is cleared.                      *)
(***************************************************************************)
EXTENDS Integers, FiniteSets, Sequences, SequencesExt

CONSTANTS
    Levels,       \* 4 on x86_64, 3 for Sv39
    Radix,        \* entries per table: 512 in the code
    Page,         \* the virtual page numbers clients map
    PhysPage,     \* the physical page numbers clients map them to
    Sizes,        \* sizes of ranges, in pages
    Frame,        \* the frames the Pmm can hand out
    Root,         \* the root table, never handed out
    NoFrame,
    Absent,       \* an entry without the present bit
    Garbage,      \* an entry of a frame nobody has cleared
    FreeMayFail   \* whether the Pmm can refuse a frame given back

ASSUME TablesAssumption ==
    /\ Levels \in Nat \ {0} /\ Radix \in Nat \ {0, 1}
    /\ PhysPage \subseteq Nat /\ Sizes \subseteq Nat
    /\ IsFiniteSet(Frame)
    /\ FreeMayFail \in BOOLEAN

Index == 0 .. Radix - 1
Table == Frame \cup {Root}

(* An entry is told by its value; in the code the level tells a table from  *)
(* a page, and the present bit both from nothing.                           *)
ASSUME EntriesDistinct ==
    /\ Root \notin Frame /\ Absent # Garbage
    /\ Table \cap PhysPage = {}
    /\ {NoFrame, Absent, Garbage} \cap (Table \cup PhysPage) = {}

(* The pages an entry of level l + 1 spans. *)
Span[l \in 0 .. Levels] == IF l = 0 THEN 1 ELSE Radix * Span[l - 1]

ASSUME PagesFit == Page \subseteq 0 .. Span[Levels] - 1

VARIABLES
    mem,      \* contents of the tables: Table -> Index -> entry
    free,     \* frames the Pmm holds
    call,     \* the mapRange or free being executed, as in AddressSpace
    stage,    \* where in allocPage or freePage it is
    path,     \* the tables reached so far, root first: _pml4, pml3, pml2, pml1
    new,      \* the frame pmlOrAlloc has allocated and not linked yet
    result,   \* how the last call ended
    spoiled   \* history: a call failed halfway

vars == <<mem, free, call, stage, path, new, result, spoiled>>

NoCall == [op |-> "none", first |-> 0, size |-> 0, phys |-> 0, done |-> 0]

Call(op, first, size, phys) ==
    [op |-> op, first |-> first, size |-> size, phys |-> phys, done |-> 0]

Cleared == [i \in Index |-> Absent]
Dirty   == [i \in Index |-> Garbage]

Init ==
    /\ mem = [t \in Table |-> IF t = Root THEN Cleared ELSE Dirty]
    /\ free = Frame
    /\ call = NoCall
    /\ stage = "walk"
    /\ path = <<Root>>
    /\ new = NoFrame
    /\ result = "none"
    /\ spoiled = FALSE

-----------------------------------------------------------------------------
(* Pml<L>: the entry of a page in a table of level L. *)

Virt2Index(page, level) == (page \div Span[level - 1]) % Radix

PageAt(table, page, level) == mem[table][Virt2Index(page, level)]

PutPage(table, page, level, entry) ==
    mem' = [mem EXCEPT ![table][Virt2Index(page, level)] = entry]

Empty(table) == \A i \in Index : mem[table][i] = Absent

(* virt2phys, and the walk the hardware does: the tables on the way of a    *)
(* page down m, and the entry they end at.                                  *)
Trail(m, page) ==
    LET at[d \in 0 .. Levels] ==
            IF d = 0 THEN Root
            ELSE IF at[d - 1] \in Table
                 THEN m[at[d - 1]][Virt2Index(page, Levels - d + 1)]
                 ELSE at[d - 1]
    IN  at

Walk(page) == Trail(mem, page)[Levels]

-----------------------------------------------------------------------------
(* The calls, and what is common to their steps. *)

Here  == path[Len(path)]
Level == Levels - Len(path) + 1

(* The page being worked on; its entry is already cleared when pruning. *)
Current == call.first + call.done - (IF stage \in {"prune", "release"} THEN 1 ELSE 0)

Entry == PageAt(Here, Current, Level)

Within(first, size, pages) == first .. first + size - 1 \subseteq pages

MapRange(first, size, phys, physSize) ==
    /\ call = NoCall
    /\ Within(first, size, Page) /\ Within(phys, physSize, PhysPage)
    /\ IF physSize # size
       THEN result' = "error" /\ UNCHANGED call
       ELSE result' = "none" /\ call' = Call("map", first, size, phys)
    /\ UNCHANGED <<mem, free, stage, path, new, spoiled>>

Free(first, size) ==
    /\ call = NoCall
    /\ Within(first, size, Page)
    /\ call' = Call("free", first, size, 0)
    /\ result' = "none"
    /\ UNCHANGED <<mem, free, stage, path, new, spoiled>>

Finish(how) ==
    /\ call' = NoCall
    /\ stage' = "walk"
    /\ path' = <<Root>>
    /\ new' = NoFrame
    /\ result' = how
    /\ spoiled' = (spoiled \/ how = "error")

Walking(op) == call.op = op /\ stage = "walk" /\ call.done < call.size

Return ==
    /\ call # NoCall /\ stage = "walk" /\ call.done = call.size
    /\ Finish("ok")
    /\ UNCHANGED <<mem, free>>

(* pml and pmlOrAlloc when the entry is present. *)
Descend ==
    /\ Walking("map") \/ Walking("free")
    /\ Level > 1 /\ new = NoFrame /\ Entry # Absent
    /\ path' = Append(path, Entry)
    /\ UNCHANGED <<mem, free, call, stage, new, result, spoiled>>

-----------------------------------------------------------------------------
(* allocPage. *)

Missing == Walking("map") /\ Level > 1 /\ new = NoFrame /\ Entry = Absent

AllocTable(frame) ==
    /\ Missing
    /\ free' = free \ {frame}
    /\ new' = frame
    /\ UNCHANGED <<mem, call, stage, path, result, spoiled>>

AllocFails == Missing /\ free = {} /\ Finish("error") /\ UNCHANGED <<mem, free>>

(* Mutant: the table is linked as the Pmm gave it. *)
LeaveDirty ==
    /\ new # NoFrame /\ stage = "walk"
    /\ stage' = "link"
    /\ UNCHANGED <<mem, free, call, path, new, result, spoiled>>

ZeroTable ==
    /\ new # NoFrame /\ stage = "walk"
    /\ mem' = [mem EXCEPT ![new] = Cleared]
    /\ stage' = "link"
    /\ UNCHANGED <<free, call, path, new, result, spoiled>>

LinkTable ==
    /\ stage = "link"
    /\ PutPage(Here, Current, Level, new)
    /\ path' = Append(path, new)
    /\ stage' = "walk"
    /\ new' = NoFrame
    /\ UNCHANGED <<free, call, result, spoiled>>

PutLeaf ==
    /\ Walking("map") /\ Level = 1
    /\ PutPage(Here, Current, 1, call.phys + call.done)
    /\ call' = [call EXCEPT !.done = @ + 1]
    /\ path' = <<Root>>
    /\ UNCHANGED <<free, stage, new, result, spoiled>>

-----------------------------------------------------------------------------
(* freePage. *)

NotPresent ==
    /\ Walking("free") /\ Level > 1 /\ Entry = Absent
    /\ Finish("error")
    /\ UNCHANGED <<mem, free>>

ClearLeaf ==
    /\ Walking("free") /\ Level = 1
    /\ PutPage(Here, Current, 1, Absent)
    /\ call' = [call EXCEPT !.done = @ + 1]
    /\ stage' = "prune"
    /\ UNCHANGED <<free, path, new, result, spoiled>>

(* One of the three tests for an empty table; the root is never given back. *)
KeepTable ==
    /\ stage = "prune" /\ ~(Len(path) > 1 /\ Empty(Here))
    /\ IF Len(path) > 1 THEN path' = Front(path) /\ UNCHANGED stage
       ELSE stage' = "walk" /\ UNCHANGED path
    /\ UNCHANGED <<mem, free, call, new, result, spoiled>>

(* Mutant: the table is unlinked without asking whether it is empty. *)
UnlinkAnyTable ==
    /\ stage = "prune" /\ Len(path) > 1
    /\ PutPage(path[Len(path) - 1], Current, Level + 1, Absent)
    /\ stage' = "release"
    /\ UNCHANGED <<free, call, path, new, result, spoiled>>

UnlinkTable ==
    /\ stage = "prune" /\ Len(path) > 1 /\ Empty(Here)
    /\ PutPage(path[Len(path) - 1], Current, Level + 1, Absent)
    /\ stage' = "release"
    /\ UNCHANGED <<free, call, path, new, result, spoiled>>

(* Mutant: only the lowest table is given back. *)
ReleaseLowest ==
    /\ stage = "release"
    /\ free' = free \cup {Here}
    /\ mem' = [mem EXCEPT ![Here] = Dirty]
    /\ path' = <<Root>>
    /\ stage' = "walk"
    /\ UNCHANGED <<call, new, result, spoiled>>

ReleaseTable ==
    /\ stage = "release"
    /\ free' = free \cup {Here}
    /\ mem' = [mem EXCEPT ![Here] = Dirty]
    /\ path' = Front(path)
    /\ stage' = "prune"
    /\ UNCHANGED <<call, new, result, spoiled>>

ReleaseFails ==
    /\ FreeMayFail /\ stage = "release"
    /\ Finish("error")
    /\ UNCHANGED <<mem, free>>

Step ==
    \/ Descend \/ Return
    \/ \E frame \in free : AllocTable(frame)
    \/ AllocFails \/ ZeroTable \/ LinkTable \/ PutLeaf
    \/ NotPresent \/ ClearLeaf \/ KeepTable \/ UnlinkTable \/ ReleaseTable \/ ReleaseFails

Next ==
    \/ \E first \in Page, size, physSize \in Sizes, phys \in PhysPage :
          MapRange(first, size, phys, physSize)
    \/ \E first \in Page, size \in Sizes : Free(first, size)
    \/ Step

Spec == Init /\ [][Next]_vars

FairSpec == Spec /\ WF_vars(Step)

-----------------------------------------------------------------------------
(* Properties. *)

(* Entries are frames, physical pages or absent, the walk is never above    *)
(* the root or below the last level, the loop never past its range.         *)
TypeOK ==
    /\ mem \in [Table -> [Index -> Frame \cup PhysPage \cup {Absent, Garbage}]]
    /\ free \subseteq Frame
    /\ stage \in {"walk", "link", "prune", "release"}
    /\ path \in Seq(Table) /\ Len(path) \in 1 .. Levels
    /\ new \in Frame \cup {NoFrame}
    /\ call.done \in 0 .. call.size

Links(t) == {i \in Index : mem[t][i] \in Frame}

(* Tables the hardware can reach. *)
Linked == {mem[t][i] : t \in Table \ free, i \in Index} \cap Frame

(* The tables form a tree: no table is linked from two entries, none is     *)
(* linked while the Pmm holds it, and none the hardware can reach has an    *)
(* entry nobody cleared.  A frame the Pmm gave twice or got back too early  *)
(* breaks it.                                                               *)
TablesAreATree ==
    LET live == {Root} \cup Linked
    IN  /\ Linked \cap free = {}
        /\ \A t \in live, i \in Index : mem[t][i] # Garbage
        /\ \A t, u \in live, i, j \in Index :
              mem[t][i] = mem[u][j] /\ mem[t][i] \in Frame => t = u /\ i = j

(* Between calls the Pmm lacks exactly the tables the mapped pages need,    *)
(* one per level and per distinct prefix, as long as no call failed         *)
(* halfway.  After failures there may be tables without pages, but one that *)
(* is lost, given by the Pmm and linked nowhere, was refused by it.         *)
NothingLeaks ==
    /\ call = NoCall /\ ~spoiled =>
          LET mapped == {p \in Page : Walk(p) # Absent}
              needed == {<<l, p \div Span[l]>> : l \in 1 .. Levels - 1, p \in mapped}
          IN  Cardinality(Frame \ free) = Cardinality(needed)
    /\ call = NoCall /\ ~FreeMayFail => Frame \ free = Linked

(* The tables implement the address space: every store changes at most the  *)
(* translation of the page at hand, and to the value the caller asked for.  *)
Space == INSTANCE AddressSpace WITH
            mapping <- [p \in Page |-> Walk(p)],
            Unmapped <- Absent
ImplementsSpace == Space!Spec

(* Every call returns.                                                      *)
CallsReturn == (call # NoCall) ~> (call = NoCall)
=============================================================================
