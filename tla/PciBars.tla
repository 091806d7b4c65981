------------------------------- MODULE PciBars -------------------------------
(***************************************************************************)
(* Sizing the base address registers of a PCI function (vaerk-pci/mod.cpp):*)
(* probBars saves a register, writes ones, reads back the address bits    *)
(* that stick, restores it, and Bar::parse turns the two values into a    *)
(* range.  Registers are integers below Word, 2^32 in the code, and pairs *)
(* of them below Word * Word; x & ~0xF is x less its remainder by 16.     *)
(***************************************************************************)
EXTENDS Integers, Sequences, SequencesExt

CONSTANTS
    Word,       \* how many values a register has, 2^32 in the code
    HalfWord,   \* and half of one, 2^16 in the code
    NormalBars, \* registers of a type 0 header, 6 in the code
    BridgeBars, \* registers of a bridge, 2 in the code
    Bars        \* what a device can have in a register, see PciAssumption

PIO == "pio"
MMIO32 == "mmio32"
MMIO64 == "mmio64"
NONE == "none"
HIGH == "high"   \* the upper half of a 64-bit pair, only in the model

(* base is a multiple of size, which divides what the registers can hold:   *)
(* all of it is a power of two.  A range has no fewer addresses than its    *)
(* register has type bits.                                                  *)
ASSUME PciAssumption ==
    /\ HalfWord \in Nat \ {0} /\ HalfWord % 16 = 0 /\ Word = HalfWord * HalfWord
    /\ NormalBars \in Nat /\ BridgeBars \in Nat /\ BridgeBars <= NormalBars
    /\ Bars \subseteq [type : {PIO, MMIO32, MMIO64, NONE}, base : Nat, size : Nat,
                       prefetch : BOOLEAN]
    /\ \A b \in Bars :
          /\ b.type # NONE => b.size > 0 /\ b.base % b.size = 0
          /\ b.type = PIO => b.size % 4 = 0 /\ b.size < HalfWord /\ ~b.prefetch
          /\ b.type = MMIO32 => b.size % 16 = 0 /\ b.size < Word
          /\ b.type \in {PIO, MMIO32} => Word % b.size = 0 /\ b.base < Word
          /\ b.type = MMIO64 =>
                /\ b.size % 16 = 0 /\ b.size < Word * Word /\ b.base < Word * Word
                /\ IF b.size < Word THEN Word % b.size = 0
                   ELSE b.size % Word = 0 /\ Word % (b.size \div Word) = 0

VARIABLES
    bridge,   \* the header type
    bars,     \* what the function decodes: its registers' types, sizes and bases
    regs,     \* the values of the registers
    i,        \* the register probBars is at
    pc,       \* its next register access
    orig, mask, origHigh, maskHigh,  \* origBar, sizeMask, origBarHigh, sizeMaskHigh
    res       \* what it returns

vars == <<bridge, bars, regs, i, pc, orig, mask, origHigh, maskHigh, res>>

NBar == IF bridge THEN BridgeBars ELSE NormalBars
AllOnes == Word - 1
Floor(x, n) == x - (x % n)
NoBar == [type |-> NONE, start |-> 0, size |-> 0, prefetch |-> FALSE]

-----------------------------------------------------------------------------
(* The function behind the registers. *)

TypeBits(b) ==
    CASE b.type = PIO -> 1
      [] b.type = MMIO32 -> (IF b.prefetch THEN 8 ELSE 0)
      [] b.type = MMIO64 -> 4 + (IF b.prefetch THEN 8 ELSE 0)
      [] OTHER -> 0

(* The value of a register whose address bits are asked to be those of v:   *)
(* the bits below the size, and the type bits, are hard-wired.              *)
Holds(b, v) ==
    CASE b.type = NONE -> 0
      [] b.type = HIGH -> Floor(v, IF b.size > Word THEN b.size \div Word ELSE 1)
      [] b.type = MMIO64 /\ b.size >= Word -> TypeBits(b)
      [] OTHER -> Floor(v, b.size) + TypeBits(b)

Upper(b) == [b EXCEPT !.type = HIGH]

(* A register file: a 64-bit BAR is followed by its upper half.             *)
Legal(file) ==
    \A k \in DOMAIN file :
        IF file[k].type = MMIO64 THEN k < Len(file) /\ file[k + 1] = Upper(file[k])
        ELSE file[k].type = HIGH => k > 1 /\ file[k - 1].type = MMIO64

Boot(b) == Holds(b, IF b.type = HIGH THEN b.base \div Word ELSE b.base % Word)

Init ==
    /\ bridge \in BOOLEAN
    /\ bars \in {file \in [1 .. NBar -> Bars \cup {Upper(b) : b \in {c \in Bars : c.type = MMIO64}}] : Legal(file)}
    /\ regs = [k \in 1 .. NBar |-> Boot(bars[k])]
    /\ i = 1 /\ pc = "read"
    /\ orig = 0 /\ mask = 0 /\ origHigh = 0 /\ maskHigh = 0
    /\ res = [k \in 1 .. NBar |-> NoBar]

-----------------------------------------------------------------------------
(* Bar::parse, in the arithmetic of one register and of two. *)

(* ~x + 1 *)
Negated(x, values) == (values - x) % values

Parse(low, sizeLow, high, sizeHigh) ==
    IF low = 0 /\ sizeLow = 0 THEN NoBar
    ELSE IF low % 2 = 1
    THEN [type |-> PIO, start |-> Floor(low, 4),
          size |-> Negated(Floor(sizeLow, 4), Word) % HalfWord, prefetch |-> FALSE]
    ELSE IF (low \div 2) % 4 = 2
    THEN [type |-> MMIO64, start |-> high * Word + Floor(low, 16),
          size |-> Negated(sizeHigh * Word + Floor(sizeLow, 16), Word * Word),
          prefetch |-> (low \div 8) % 2 = 1]
    ELSE [type |-> MMIO32, start |-> Floor(low, 16),
          size |-> Negated(Floor(sizeLow, 16), Word * Word) % Word,
          prefetch |-> (low \div 8) % 2 = 1]

-----------------------------------------------------------------------------
(* probBars, one register access at a time. *)

MmioWrite(k, v) == regs' = [regs EXCEPT ![k] = Holds(bars[k], v)]

At(where) == pc = where /\ i <= NBar

ReadBar ==
    /\ At("read")
    /\ orig' = regs[i]
    /\ IF orig' = 0 THEN i' = i + 1 /\ UNCHANGED pc ELSE pc' = "ones" /\ UNCHANGED i
    /\ UNCHANGED <<bridge, bars, regs, mask, origHigh, maskHigh, res>>

WriteOnes ==
    /\ At("ones")
    /\ MmioWrite(i, AllOnes)
    /\ pc' = "mask"
    /\ UNCHANGED <<bridge, bars, i, orig, mask, origHigh, maskHigh, res>>

ReadMask ==
    /\ At("mask")
    /\ mask' = regs[i]
    /\ pc' = "restore"
    /\ UNCHANGED <<bridge, bars, regs, i, orig, origHigh, maskHigh, res>>

Is64Bit == orig % 2 = 0 /\ (orig \div 2) % 4 = 2

(* Mutant: the register keeps the mask. *)
RestoreNothing ==
    /\ At("restore")
    /\ IF mask \in {0, AllOnes} THEN i' = i + 1 /\ pc' = "read" /\ UNCHANGED res
       ELSE IF Is64Bit /\ i < NBar THEN pc' = "read high" /\ UNCHANGED <<i, res>>
       ELSE /\ res' = [res EXCEPT ![i] = Parse(orig, mask, 0, 0)]
            /\ i' = i + 1 /\ pc' = "read"
    /\ UNCHANGED <<bridge, bars, regs, orig, mask, origHigh, maskHigh>>

(* The register is as it was; a mask without address bits is no BAR.        *)
Restore ==
    /\ At("restore")
    /\ MmioWrite(i, orig)
    /\ IF mask \in {0, AllOnes} THEN i' = i + 1 /\ pc' = "read" /\ UNCHANGED res
       ELSE IF Is64Bit /\ i < NBar THEN pc' = "read high" /\ UNCHANGED <<i, res>>
       ELSE /\ res' = [res EXCEPT ![i] = Parse(orig, mask, 0, 0)]
            /\ i' = i + 1 /\ pc' = "read"
    /\ UNCHANGED <<bridge, bars, orig, mask, origHigh, maskHigh>>

ReadHigh ==
    /\ At("read high")
    /\ origHigh' = regs[i + 1]
    /\ pc' = "ones high"
    /\ UNCHANGED <<bridge, bars, regs, i, orig, mask, maskHigh, res>>

WriteOnesHigh ==
    /\ At("ones high")
    /\ MmioWrite(i + 1, AllOnes)
    /\ pc' = "mask high"
    /\ UNCHANGED <<bridge, bars, i, orig, mask, origHigh, maskHigh, res>>

ReadMaskHigh ==
    /\ At("mask high")
    /\ maskHigh' = regs[i + 1]
    /\ pc' = "restore high"
    /\ UNCHANGED <<bridge, bars, regs, i, orig, mask, origHigh, res>>

(* Mutant: the upper half is taken for a BAR of its own. *)
RestoreHighByOne ==
    /\ At("restore high")
    /\ MmioWrite(i + 1, origHigh)
    /\ res' = [res EXCEPT ![i] = Parse(orig, mask, origHigh, maskHigh)]
    /\ i' = i + 1 /\ pc' = "read"
    /\ UNCHANGED <<bridge, bars, orig, mask, origHigh, maskHigh>>

RestoreHigh ==
    /\ At("restore high")
    /\ MmioWrite(i + 1, origHigh)
    /\ res' = [res EXCEPT ![i] = Parse(orig, mask, origHigh, maskHigh)]
    /\ i' = i + 2 /\ pc' = "read"
    /\ UNCHANGED <<bridge, bars, orig, mask, origHigh, maskHigh>>

ProbBars ==
    \/ ReadBar \/ WriteOnes \/ ReadMask \/ Restore
    \/ ReadHigh \/ WriteOnesHigh \/ ReadMaskHigh \/ RestoreHigh

Spec == Init /\ [][ProbBars]_vars

-----------------------------------------------------------------------------
(* Properties. *)

(* The range a register decodes, as the device sees it; one that was never  *)
(* given an address and reads as zero is reported as no BAR at all.         *)
Decoded(k) ==
    LET b == bars[k]
    IN  IF b.type \in {NONE, HIGH} \/ Boot(b) = 0 THEN NoBar
        ELSE [type |-> b.type, start |-> b.base, size |-> b.size, prefetch |-> b.prefetch]

(* What probBars has reported so far is what the device decodes: type,      *)
(* start, size and prefetch, for every mix of 32-bit, 64-bit and I/O        *)
(* registers, and nothing for the upper half of a pair.                     *)
ReportsTheDevice == \A k \in 1 .. NBar : k < i => res[k] = Decoded(k)

(* At any time at most one register differs from its value at boot, the one *)
(* being sized, and none does once probBars is past it: sizing a device     *)
(* moves none of its ranges for good.                                       *)
LeavesTheDeviceAlone ==
    \A k \in 1 .. NBar :
        regs[k] # Boot(bars[k]) =>
            \/ k = i /\ pc \in {"mask", "restore"}
            \/ k = i + 1 /\ pc \in {"mask high", "restore high"}
=============================================================================
