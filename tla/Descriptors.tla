----------------------------- MODULE Descriptors -----------------------------
(***************************************************************************)
(* What the CPU reads of the tables of vaerk-x86_64: the descriptors of   *)
(* the GDT (gdt.cpp), the gates of the IDT (idt.cpp), and the registers   *)
(* sysInit and sysSetGs (sys.cpp) set up for SYSCALL, SYSRET and SWAPGS.   *)
(* A structure is its bytes in memory and an address is eight bytes, the  *)
(* lowest first.                                                           *)
(***************************************************************************)
EXTENDS Integers, Sequences

Byte == 0 .. 255
Address == [1 .. 8 -> Byte]

(* Gdt::Selector *)
KCODE == 1
UDATA == 3
TSS == 5

(* Gdt::Flags; USER is the privilege level 3. *)
SEGMENT == 16
PRESENT == 128
USER == 96
EXECUTABLE == 8
READ_WRITE == 2
LONG_MODE == 2

(* A segment without base and limit; granularity is the upper half byte.    *)
GdtEntry(flags, granularity) == <<0, 0, 0, 0, 0, flags, granularity * 16, 0>>

GdtEntries ==
    << GdtEntry(0, 0),
       GdtEntry(PRESENT + SEGMENT + READ_WRITE + EXECUTABLE, LONG_MODE),
       GdtEntry(PRESENT + SEGMENT + READ_WRITE, 0),
       GdtEntry(PRESENT + SEGMENT + READ_WRITE + USER, 0),
       GdtEntry(PRESENT + SEGMENT + READ_WRITE + EXECUTABLE + USER, LONG_MODE) >>

TssSize == 104

(* Mutant: the upper half is taken for padding. *)
GdtTssEntryLow(tss) ==
    <<TssSize, 0, tss[1], tss[2], tss[3], 137, 0, tss[4], 0, 0, 0, 0, 0, 0, 0, 0>>

GdtTssEntry(tss) ==
    <<TssSize, 0, tss[1], tss[2], tss[3], 137, 0, tss[4], tss[5], tss[6], tss[7], tss[8], 0, 0, 0, 0>>

(* Five entries of eight bytes, and behind them that of the TSS.            *)
Gdt(tss) ==
    [n \in 1 .. 56 |-> IF n <= 40 THEN GdtEntries[((n - 1) \div 8) + 1][((n - 1) % 8) + 1]
                       ELSE GdtTssEntry(tss)[n - 40]]

IdtEntry(handler, ist, attributes) ==
    <<handler[1], handler[2], 8, 0, ist, attributes,
      handler[3], handler[4], handler[5], handler[6], handler[7], handler[8], 0, 0, 0, 0>>

(* A model-specific register is the eight bytes of its two halves.          *)
Rdmsr(msrs, msr) == SubSeq(msrs[msr], 1, 4) \o SubSeq(msrs[msr], 5, 8)
Wrmsr(msrs, msr, value) == [msrs EXCEPT ![msr] = SubSeq(value, 1, 4) \o SubSeq(value, 5, 8)]

(* KCODE * 8 in the third 16 bits of STAR, (UDATA - 1) * 8 | 3 in the       *)
(* fourth.                                                                  *)
Star == <<0, 0, 0, 0, KCODE * 8, 0, (UDATA - 1) * 8 + 3, 0>>

SysInit(msrs, handler) ==
    LET efer  == Wrmsr(msrs, "EFER", [Rdmsr(msrs, "EFER") EXCEPT ![1] = 2 * (@ \div 2) + 1])
        star  == Wrmsr(efer, "STAR", Star)
        lstar == Wrmsr(star, "LSTAR", handler)
    IN  Wrmsr(lstar, "FMASK", <<254, 255, 255, 255, 0, 0, 0, 0>>)

SysSetGs(msrs, addr) == Wrmsr(Wrmsr(msrs, "UGSBAS", addr), "KGSBAS", addr)

-----------------------------------------------------------------------------
(* The CPU. *)

(* Long mode, no-execute and everything but SYSCALL are enabled.            *)
BootMsrs ==
    [msr \in {"EFER", "STAR", "LSTAR", "FMASK", "UGSBAS", "KGSBAS"} |->
        IF msr = "EFER" THEN <<0, 13, 0, 0, 0, 0, 0, 0>> ELSE <<0, 0, 0, 0, 0, 0, 0, 0>>]

SyscallEnabled(msrs) == msrs.EFER[1] % 2 = 1
SyscallCs(msrs) == msrs.STAR[5] + 256 * msrs.STAR[6]
SyscallSs(msrs) == SyscallCs(msrs) + 8
SysretCs(msrs) == msrs.STAR[7] + 256 * msrs.STAR[8] + 16
SysretSs(msrs) == SysretCs(msrs) - 8

(* What SYSCALL leaves of the flags of user code: those FMASK does not name. *)
KeptFlags(msrs) ==
    {n \in 0 .. 31 : (msrs.FMASK[n \div 8 + 1] \div 2 ^ (n % 8)) % 2 = 0}

(* The segment a selector loads from a table; its low bits are the          *)
(* privilege asked for.                                                     *)
Segment(gdt, selector) ==
    LET at    == selector - (selector % 8)
        flags == gdt[at + 6]
    IN  [present |-> flags \div 128 = 1, privilege |-> (flags \div 32) % 4,
         executable |-> (flags \div 8) % 2 = 1, writable |-> (flags \div 2) % 2 = 1,
         long |-> (gdt[at + 7] \div 32) % 2 = 1]

(* LTR: a descriptor of sixteen bytes, of the type available TSS. *)
TssBase(gdt, selector) ==
    [n \in 1 .. 8 |-> gdt[selector + (IF n <= 3 THEN n + 2 ELSE n + 4)]]
TssAvailable(gdt, selector) == gdt[selector + 6] = 128 + 9

Gate(entry) ==
    [handler |-> [n \in 1 .. 8 |-> entry[IF n <= 2 THEN n ELSE n + 4]],
     selector |-> entry[3] + 256 * entry[4], ist |-> entry[5] % 8, attributes |-> entry[6]]
=============================================================================
