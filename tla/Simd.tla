--------------------------------- MODULE Simd ---------------------------------
(***************************************************************************)
(* Saving the vector registers of a task (vaerk-x86_64/simd.cpp over      *)
(* cpuid.cpp).  simdInit tells the CPU which registers are in use, in CR0, *)
(* CR4 and XCR0; simdContextSize is how much a save writes; save and load *)
(* use XSAVE or FXSAVE.  A register is the set of its bits.               *)
(***************************************************************************)
EXTENDS Integers, FiniteSets, FiniteSetsExt

(* What CPUID says: a set of these. *)
Features == {"XSAVE", "AVX", "AVX512"}

HasXsave(cpu)  == "XSAVE" \in cpu
HasAvx(cpu)    == "AVX" \in cpu
HasAvx512(cpu) == "AVX512" \in cpu

Avx512Bits == {"AVX512_ENABLE", "ZMM0_15_ENABLE", "ZMM16_32_ENABLE"}

(* Mutant: the upper registers of AVX-512 are not enabled. *)
Xcr0NarrowZmm(cpu) ==
    {"SAVE_X87", "SAVE_SSE"}
    \cup (IF HasAvx(cpu) THEN {"AVX_ENABLE"} ELSE {})
    \cup (IF HasAvx512(cpu) THEN {"AVX512_ENABLE", "ZMM0_15_ENABLE"} ELSE {})

Xcr0(cpu) ==
    {"SAVE_X87", "SAVE_SSE"}
    \cup (IF HasAvx(cpu) THEN {"AVX_ENABLE"} ELSE {})
    \cup (IF HasAvx512(cpu) THEN Avx512Bits ELSE {})

(* simdInit, from whatever the boot loader left in the registers. *)
SimdInit(cpu, regs) ==
    [cr0  |-> (regs.cr0 \ {"EMULATION"}) \cup {"MONITOR_CO_PROCESSOR", "NUMERIC_ERROR_ENABLE"},
     cr4  |-> regs.cr4 \cup {"FXSR_ENABLE", "SIMD_EXCEPTION_SUPPORT"}
              \cup (IF HasXsave(cpu) THEN {"XSAVE_ENABLE"} ELSE {}),
     xcr0 |-> IF HasXsave(cpu) THEN Xcr0(cpu) ELSE regs.xcr0]

-----------------------------------------------------------------------------
(* The CPU: the registers a task can change, those XSAVE and FXSAVE write,  *)
(* and up to where.  x87 and SSE hang on CR0 and CR4, the rest on XCR0.     *)

Legacy == {"SAVE_X87", "SAVE_SSE"}

Usable(regs) ==
    {c \in Legacy : "EMULATION" \notin regs.cr0 /\ (c = "SAVE_SSE" => "FXSR_ENABLE" \in regs.cr4)}
    \cup {c \in regs.xcr0 \ Legacy : "XSAVE_ENABLE" \in regs.cr4}

Xsave(regs)  == {c \in regs.xcr0 : "XSAVE_ENABLE" \in regs.cr4}
Fxsave(regs) == {c \in Legacy : c = "SAVE_SSE" => "FXSR_ENABLE" \in regs.cr4}

(* Where a component ends in the area both write. *)
EndOf(component) ==
    CASE component = "SAVE_X87" -> 160
      [] component = "SAVE_SSE" -> 416
      [] component = "AVX_ENABLE" -> 832
      [] component = "AVX512_ENABLE" -> 1152
      [] component = "ZMM0_15_ENABLE" -> 1664
      [] component = "ZMM16_32_ENABLE" -> 2688

HeaderEnd == 576

(* CPUID counts to the end of the last one that is enabled when it is asked. *)
XsaveSize(regs) == Max({HeaderEnd} \cup {EndOf(c) : c \in regs.xcr0})

(* XSETBV refuses a set that the architecture does not allow.               *)
XsetbvAccepts(xcr0) ==
    /\ "SAVE_X87" \in xcr0
    /\ "AVX_ENABLE" \in xcr0 => "SAVE_SSE" \in xcr0
    /\ Avx512Bits \cap xcr0 # {} => Avx512Bits \cup {"AVX_ENABLE"} \subseteq xcr0

-----------------------------------------------------------------------------
SimdContextSize(cpu, regs) == IF HasXsave(cpu) THEN XsaveSize(regs) ELSE 512

(* simdSaveContext and simdLoadContext. *)
SavedBy(cpu, regs) == IF HasXsave(cpu) THEN Xsave(regs) ELSE Fxsave(regs)
=============================================================================
