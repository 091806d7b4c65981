------------------------------ MODULE PageEntry ------------------------------
(***************************************************************************)
(* The entries of page tables, bit by bit: x86_64::Entry (paging.cpp) and *)
(* Riscv::Sv39::Entry (sv39.cpp).  An entry is the integer _raw.  Both    *)
(* keep the flags in the bits below the physical address of the page; an  *)
(* Sv39 entry has the address shifted right by two.                       *)
(***************************************************************************)
EXTENDS Integers

CONSTANTS
    PageBits,    \* bits of an offset in a page, 12 in the code
    PaddrBits,   \* bits of a physical address: 52 on x86_64, 56 for Sv39
    IndexBits    \* bits of an index in a table, 9 in the code

ASSUME PageEntryAssumption ==
    PageBits \in Nat /\ PaddrBits \in Nat /\ IndexBits \in Nat
    /\ 12 <= PageBits /\ PageBits <= PaddrBits /\ 0 < IndexBits

X86 == "x86_64"
SV39 == "sv39"

(* VmmFlags, and the bits of an entry they are turned into. *)
VmmFlags == {"READ", "WRITE", "EXEC", "USER", "GLOBAL", "UNCACHED"}

X86Bit == [PRESENT |-> 1, WRITE |-> 2, USER |-> 4, NO_CACHE |-> 16, GLOBAL |-> 256]

Sv39Bit == [VALID |-> 1, READ |-> 2, WRITE |-> 4, EXEC |-> 8, USER |-> 16, GLOBAL |-> 32,
            ACCESSED |-> 64, DIRTY |-> 128]

BitOf(arch) == IF arch = X86 THEN X86Bit ELSE Sv39Bit

(* The bits named, or-ed together: no two are the same. *)
Bit(arch, name, names) == IF name \in names THEN BitOf(arch)[name] ELSE 0

Bits(arch, names) ==
    IF arch = X86
    THEN Bit(X86, "PRESENT", names) + Bit(X86, "WRITE", names) + Bit(X86, "USER", names)
         + Bit(X86, "NO_CACHE", names) + Bit(X86, "GLOBAL", names)
    ELSE Bit(SV39, "VALID", names) + Bit(SV39, "READ", names) + Bit(SV39, "WRITE", names)
         + Bit(SV39, "EXEC", names) + Bit(SV39, "USER", names) + Bit(SV39, "GLOBAL", names)
         + Bit(SV39, "ACCESSED", names) + Bit(SV39, "DIRTY", names)

Has(raw, arch, name) == (raw \div BitOf(arch)[name]) % 2 = 1

(* Entry::makeFlags; on x86_64 whatever may be read may be written. *)
X86Flags(flags) ==
    (IF flags \cap {"READ", "WRITE"} # {} THEN {"WRITE"} ELSE {})
    \cup (flags \cap {"USER", "GLOBAL"})
    \cup (IF "UNCACHED" \in flags THEN {"NO_CACHE"} ELSE {})

Sv39Flags(flags) == flags \ {"UNCACHED"}

MakeFlags(arch, flags) == IF arch = X86 THEN X86Flags(flags) ELSE Sv39Flags(flags)

-----------------------------------------------------------------------------
(* 1 << n, and a number without its upper and its lower bits. *)
Pow2[n \in Nat] == IF n = 0 THEN 1 ELSE 2 * Pow2[n - 1]

Low(x, bits) == x % Pow2[bits]
Clear(x, bits) == x - Low(x, bits)

Shift(arch) == IF arch = X86 THEN 0 ELSE 2
FlagBits(arch) == PageBits - Shift(arch)

(* The constructor: the address without its page offset, then the flags. *)
Entry(arch, paddr, flags) ==
    Clear(Low(paddr, PaddrBits), PageBits) \div Pow2[Shift(arch)] + Low(flags, FlagBits(arch))

Paddr(arch, raw) ==
    Clear(Low(raw, PaddrBits - Shift(arch)), FlagBits(arch)) * Pow2[Shift(arch)]

Present(arch, raw) == raw % 2 = 1

(* Sv39 only: an entry with a permission ends the walk at any level. *)
IsLeaf(raw) == Present(SV39, raw) /\ \E name \in {"READ", "WRITE", "EXEC"} : Has(raw, SV39, name)

(* What allocPage puts for a page and pmlOrAlloc for a table. *)
PageEntry(arch, paddr, flags) ==
    Entry(arch, paddr, Bits(arch, MakeFlags(arch, flags)
          \cup (IF arch = X86 THEN {"PRESENT"} ELSE {"ACCESSED", "DIRTY", "VALID"})))

(* Mutant: tables can be walked by the kernel alone. *)
TableEntryKernel(arch, lower) ==
    Entry(arch, lower, Bits(arch, IF arch = X86 THEN {"WRITE", "PRESENT"} ELSE {"VALID"}))

TableEntry(arch, lower) ==
    Entry(arch, lower, Bits(arch, IF arch = X86 THEN {"WRITE", "PRESENT", "USER"} ELSE {"VALID"}))

(* The part of a virtual address virt2phys adds to that of the leaf: nine   *)
(* bits on x86_64, for Sv39 all that the tables have not consumed.          *)
LeafOffset(arch, virt, level) ==
    Low(virt, IF arch = X86 THEN 9 ELSE PageBits + (level - 1) * IndexBits)

(* Pml<L>::virt2phys at one level: go down, or the physical address.        *)
Virt2Phys(arch, raw, virt, level) ==
    IF ~Present(arch, raw) THEN [step |-> "none", at |-> 0]
    ELSE IF level = 1 \/ (arch = SV39 /\ IsLeaf(raw))
    THEN [step |-> "page", at |-> Paddr(arch, raw) + LeafOffset(arch, virt, level)]
    ELSE [step |-> "lower", at |-> Paddr(arch, raw)]
=============================================================================
