------------------------------ MODULE Algorithms ------------------------------
(***************************************************************************)
(* The functions of the code that keep no state, each asked about every   *)
(* input of a bounded set.  A question is a record whose about names the  *)
(* function; the properties compare the answer with a definition of what  *)
(* it should be.                                                          *)
(***************************************************************************)
EXTENDS PortIo, PageEntry, Acpi, DtbReg, DtbBlob, PciEcam, Simd, Descriptors, Pit

CONSTANTS
    IoRanges,       \* ranges an Io is constructed with: [start, size]
    IoOffsets,      \* offsets a driver uses
    BufLens,        \* lengths of its buffers
    Paddrs,         \* physical addresses, aligned or not
    Virts,          \* virtual addresses
    Levels,         \* levels of page tables
    Signatures,     \* signatures of ACPI tables
    Guids,          \* GUIDs of EFI configuration tables
    MaxTables,      \* bound: ACPI tables listed, and as many behind the list
    MadtSize,       \* bound: bytes of the records of a MADT
    MadtBytes,      \* values of these bytes
    RegWords,       \* words of a device tree property
    AddressCells,   \* numbers of cells of its addresses
    SizeCells,      \* and of its sizes
    MaxWords,       \* bound: words in a property
    TreeChildren,   \* children of a device tree's root, see ChildTokens
    MaxChildren,    \* bound: children of the root
    TreeStrings,    \* strings in a list of strings
    PciAddrs,       \* addresses of PCI functions
    Places,         \* addresses of the TSS and of interrupt handlers
    Attributes,     \* types of gates
    Freqs,          \* frequencies the timer is set to
    Counts          \* counts it is read at

ASSUME AlgorithmsAssumption ==
    /\ IoRanges \subseteq [start : Nat, size : Nat] /\ IoOffsets \subseteq Nat /\ BufLens \subseteq Nat
    /\ Paddrs \subseteq 0 .. Pow2[PaddrBits] - 1 /\ Virts \subseteq Nat /\ Levels \subseteq Nat \ {0}
    /\ MadtBytes \subseteq Nat /\ AddressCells \subseteq Nat /\ SizeCells \subseteq Nat
    /\ PciAddrs \subseteq FunctionAddr /\ RegWords \subseteq [1 .. 4 -> Byte]
    /\ Places \subseteq Address /\ Attributes \subseteq Byte
    /\ Freqs \subseteq 19 .. FREQ /\ Counts \subseteq 1 .. 2 ^ 16
    /\ MaxTables \in Nat /\ SdthSize + McfgReserved + McfgRecord * MaxTables + 3 < Usizes
    /\ MadtSize \in Nat /\ MaxWords \in Nat /\ MaxChildren \in Nat /\ <<>> \in TreeStrings

VARIABLE asked

NoQuestion == [about |-> "none"]

NothingAsked == asked = NoQuestion

(* A device has some of the ports and not all of them. *)
PortRanges == {range \in IoRanges : range.start + range.size <= Ports /\ range.size < Ports}

AskIo ==
    \E kind \in {"port", "dma"}, range \in IoRanges, offset \in IoOffsets,
       transfer \in {<<"value", n>> : n \in {1, 2, 3, 4, 8}} \cup {<<"buffer", n>> : n \in BufLens} :
        /\ kind = "port" => range \in PortRanges
        /\ asked' = [about |-> "io", io |-> [kind |-> kind, range |-> range], offset |-> offset,
                     transfer |-> transfer[1], size |-> transfer[2]]

AskEntry ==
    \E arch \in {X86, SV39}, paddr, other \in Paddrs, flags \in SUBSET VmmFlags,
       virt \in Virts, level \in Levels :
        asked' = [about |-> "entry", arch |-> arch, paddr |-> paddr, other |-> other,
                  flags |-> flags, virt |-> virt, level |-> level]

(* count tables are listed; the memory behind the list looks like a list.   *)
AskTables ==
    \E signatures \in [1 .. 2 * MaxTables -> Signatures], count \in 0 .. MaxTables,
       slack \in 0 .. 3, revision \in {0, 2}, xsdt \in {0, 1} :
        asked' = [about |-> "tables", signatures |-> signatures, count |-> count,
                  slack |-> slack, revision |-> revision, xsdt |-> xsdt]

AskMadt ==
    \E bytes \in [0 .. MadtSize -> MadtBytes], len \in 0 .. MadtSize :
        asked' = [about |-> "madt", bytes |-> bytes, len |-> len]

AskConfig ==
    \E n \in 0 .. MaxTables : \E guids \in [1 .. n -> Guids], guid \in Guids :
        asked' = [about |-> "config", guids |-> guids, guid |-> guid]

AskReg ==
    \E n \in 0 .. MaxWords : \E words \in [1 .. n -> RegWords],
       addressCells \in AddressCells, sizeCells \in SizeCells, cut \in 0 .. 1 :
        asked' = [about |-> "reg", words |-> words, cut |-> cut,
                  addressCells |-> addressCells, sizeCells |-> sizeCells]

AskTree ==
    \E n \in 0 .. MaxChildren : \E children \in [1 .. n -> TreeChildren], nops \in BOOLEAN, r \in 0 .. 2 :
        asked' = [about |-> "tree", children |-> children, nops |-> nops, reservations |-> r]

(* A list the code can read has no empty string in front. *)
AskStrings ==
    \E first \in TreeStrings \ {<<>>}, n \in 0 .. 2 : \E rest \in [1 .. n -> TreeStrings] :
        asked' = [about |-> "strings", strings |-> <<first>> \o rest]

AskEcam ==
    \E one, two \in PciAddrs : asked' = [about |-> "ecam", one |-> one, two |-> two]

(* Every CPU with AVX has XSAVE, every one with AVX-512 has AVX.            *)
AskSimd ==
    \E cpu \in {{}, {"XSAVE"}, {"XSAVE", "AVX"}, Features},
       cr0 \in SUBSET {"EMULATION", "MONITOR_CO_PROCESSOR"}, cr4 \in SUBSET {"FXSR_ENABLE"} :
        asked' = [about |-> "simd", cpu |-> cpu,
                  regs |-> [cr0 |-> cr0, cr4 |-> cr4, xcr0 |-> {"SAVE_X87"}]]

AskDescriptor ==
    \E tss, handler \in Places, ist \in 0 .. 7, attributes \in Attributes :
        asked' = [about |-> "descriptor", tss |-> tss, handler |-> handler, ist |-> ist,
                  attributes |-> attributes]

(* The firmware may have left the channel in the middle of an access; the   *)
(* counter runs on between the accesses of readCount.                       *)
AskPit ==
    \E freq \in Freqs, bytes \in 1 .. 3, high \in BOOLEAN, latched \in {NoCount} \cup Counts,
       counts \in [1 .. 3 -> Counts] :
        asked' = [about |-> "pit", freq |-> freq, counts |-> counts,
                  channel |-> [period |-> 0, low |-> 0, bytes |-> bytes, high |-> high, latched |-> latched]]

Ask == AskIo \/ AskEntry \/ AskTables \/ AskMadt \/ AskConfig \/ AskReg \/ AskTree \/ AskStrings
       \/ AskEcam \/ AskSimd \/ AskDescriptor \/ AskPit

QuestionOrNot ==
    \/ asked = NoQuestion /\ Ask
    \/ asked # NoQuestion /\ asked' = NoQuestion

Questions == NothingAsked /\ [][QuestionOrNot]_asked

-----------------------------------------------------------------------------
(* PortIo.  Offsets are within the range, as every driver's are.            *)

Start  == asked.io.range.start + asked.offset
Room   == asked.io.range.size - asked.offset
Inside == asked.size <= Room

(* A buffer reaches consecutive registers in order, byte i at register i;   *)
(* one that goes past the ports of its range ends with an error after       *)
(* exactly the bytes that fit.                                              *)
BufferInOrder ==
    asked.about = "io" =>
        (asked.transfer = "buffer" /\ Room > 0 /\ (asked.io.kind = "port" \/ Inside) =>
            LET outcome == Buffer(asked.io, asked.offset, asked.size)
                fits    == IF Inside THEN asked.size ELSE Room
            IN  /\ outcome.ok <=> Inside
                /\ outcome.bus = [k \in 1 .. fits |-> Access(Start + k - 1, k - 1, 1)])

(* The comment "x86_64 doesn't support 64bit I/O operation so we emulate    *)
(* it": a 64-bit access inside the range makes the two 32-bit accesses.     *)
WideIsTwoHalves ==
    asked.about = "io" =>
        (asked.transfer = "value" /\ asked.io.kind = "port" /\ asked.size = 8 /\ Inside =>
            LET outcome == Single(asked.io, asked.offset, 8)
            IN  outcome.ok /\ outcome.bus = <<Access(Start, 0, 4), Access(Start + 4, 4, 4)>>)

-----------------------------------------------------------------------------
(* PageEntry. *)

Page(addr) == Clear(addr, PageBits)

(* What the MMU allows on the way through a table to a page.  x86_64 asks   *)
(* every entry on the way, Sv39 the one that is a leaf.                     *)
Allows(arch, name) ==
    LET page  == PageEntry(arch, asked.paddr, asked.flags)
        table == TableEntry(arch, asked.other)
    IN  Has(page, arch, name) /\ (arch = X86 => Has(table, arch, name))

(* An entry says what was asked for, whatever tables it shares with other   *)
(* pages.  A page can be reached by user code exactly if USER was asked     *)
(* for, and written if WRITE was; Sv39 allows nothing else (on x86_64 a     *)
(* page asked for with READ alone can be written).  virt2phys goes down at  *)
(* a table and ends at a page, with the byte of it that the virtual address *)
(* is of: x86_64 has that right for the first 512 bytes of a page, Sv39 for *)
(* every byte, and for a leaf at any level.                                 *)
EntrySaysWhatWasAsked ==
    asked.about = "entry" =>
        LET virt  == asked.virt
            bits  == PageBits + (asked.level - 1) * IndexBits
            table == Virt2Phys(asked.arch, TableEntry(asked.arch, asked.other), virt, asked.level)
            page(level) == Virt2Phys(asked.arch, PageEntry(asked.arch, asked.paddr, asked.flags),
                                     virt, level)
        IN  /\ Allows(asked.arch, "USER") <=> "USER" \in asked.flags
            /\ "WRITE" \in asked.flags => Allows(asked.arch, "WRITE")
            /\ asked.arch = SV39 =>
                  \A name \in {"READ", "WRITE", "EXEC"} : Allows(SV39, name) <=> name \in asked.flags
            /\ asked.level > 1 => table = [step |-> "lower", at |-> Page(asked.other)]
            /\ asked.arch = SV39 \/ Low(virt, PageBits) < 512 =>
                  page(1) = [step |-> "page", at |-> Page(asked.paddr) + Low(virt, PageBits)]
            /\ asked.arch = SV39 /\ asked.flags \cap {"READ", "WRITE", "EXEC"} # {} =>
                  page(asked.level) = [step |-> "page", at |-> Page(asked.paddr) + Low(virt, bits)]

-----------------------------------------------------------------------------
(* Acpi and PciEcam. *)

Rsdp ==
    LET children == [k \in 1 .. 2 * MaxTables |-> [signature |-> asked.signatures[k], at |-> k]]
    IN  [revision |-> asked.revision, xsdt |-> asked.xsdt,
         lists |-> [rsdt |-> [len |-> SdthSize + 4 * asked.count + asked.slack, children |-> children],
                    xsdt |-> [len |-> SdthSize + 8 * asked.count + asked.slack, children |-> children]]]

(* findTable answers with the last table listed that has the signature, and *)
(* nothing of what lies behind the list, whether the firmware provides an   *)
(* RSDT or an XSDT and whether the list, like that of an MCFG, ends with a  *)
(* whole entry.                                                             *)
FindsWhatIsListed ==
    asked.about = "tables" =>
        /\ \A signature \in Signatures :
              LET listed == {k \in 1 .. asked.count : asked.signatures[k] = signature}
              IN  FindTable(Rsdp, signature) =
                      IF listed = {} THEN NoTable ELSE [signature |-> signature, at |-> Max(listed)]
        /\ McfgCount(SdthSize + McfgReserved + McfgRecord * asked.count + asked.slack) = asked.count

(* The walk over a MADT comes to the records that start where the one       *)
(* before ends, until no header fits or one has no room for itself: it      *)
(* ends on every table, and reads no length outside it.                     *)
MadtWalkIsTheChain ==
    asked.about = "madt" =>
        LET seen == MadtRecords(asked.bytes, asked.len)
            next == IF seen = <<>> THEN 0 ELSE Last(seen) + asked.bytes[Last(seen)]
        IN  /\ \A k \in 1 .. Len(seen) - 1 : seen[k + 1] = seen[k] + asked.bytes[seen[k]]
            /\ \A k \in DOMAIN seen : seen[k] + RecordHeader <= asked.len
                                      /\ asked.bytes[seen[k]] >= RecordHeader
            /\ seen # <<>> => seen[1] = 0
            /\ next + RecordHeader > asked.len \/ asked.bytes[next] < RecordHeader

(* The first configuration table with the GUID is found, if there is one.   *)
FindsTheConfiguration ==
    asked.about = "config" =>
        LET at == LookupConfigurationTable(asked.guids, asked.guid)
        IN  IF at = 0 THEN asked.guid \notin ToSet(asked.guids)
            ELSE asked.guids[at] = asked.guid /\ \A k \in 1 .. at - 1 : asked.guids[k] # asked.guid

(* The functions of a segment share no byte of configuration space, and all *)
(* of it is in the 256 MiB behind the address its MCFG record gives.        *)
FunctionsApart ==
    asked.about = "ecam" =>
        LET one == EcamAt(0, asked.one) two == EcamAt(0, asked.two)
        IN  /\ asked.one # asked.two =>
                  one + ConfigSpaceSize <= two \/ two + ConfigSpaceSize <= one
            /\ one + ConfigSpaceSize <= 2 ^ 28

(* Every walk over what the firmware left in memory finds what is there.    *)
WalksFindWhatIsListed ==
    FindsWhatIsListed /\ MadtWalkIsTheChain /\ FindsTheConfiguration /\ FunctionsApart

-----------------------------------------------------------------------------
(* DtbReg. *)

RegBytes ==
    LET all == [k \in 1 .. 4 * Len(asked.words) |-> asked.words[(k - 1) \div 4 + 1][((k - 1) % 4) + 1]]
    IN  IF asked.cut > 0 /\ all # <<>> THEN Front(all) ELSE all

(* The number of some cells: the last two, for the code has a u64.          *)
Number(cells) ==
    LET n == Len(cells)
    IN  <<IF n > 1 THEN cells[n - 1] ELSE Zero, IF n > 0 THEN cells[n] ELSE Zero>>

(* The first range of a property is the one the flattener wrote with as     *)
(* many cells as the node above says, and an error if the property has not  *)
(* that many whole words; unless the bytes happen to look like strings.     *)
RegIsWhatWasWritten ==
    asked.about = "reg" /\ ~SniffStr(RegBytes) =>
        LET a      == asked.addressCells
            s      == asked.sizeCells
            whole  == Len(RegBytes) % 4 = 0
            answer == ParseAddressSize(RegBytes, a, s)
        IN  IF a + s = 0 THEN answer = [found |-> TRUE, address |-> <<Zero, Zero>>, size |-> <<Zero, Zero>>]
            ELSE IF whole /\ Len(asked.words) >= a + s
            THEN answer = [found |-> TRUE, address |-> Number(SubSeq(asked.words, 1, a)),
                           size |-> Number(SubSeq(asked.words, a + 1, a + s))]
            ELSE ~answer.found

-----------------------------------------------------------------------------
(* DtbBlob. *)

ChosenName == <<99>>      \* "chosen"
StartName  == <<115>>     \* "linux,initrd-start"
EndName    == <<101>>     \* "linux,initrd-end"

Begin(name) == Token(BEGIN_NODE, name, <<>>)
Ends        == Token(END_NODE, <<>>, <<>>)
Nops        == IF asked.nops THEN <<Token(NOP, <<>>, <<>>)>> ELSE <<>>

(* len bytes that tell the property apart. *)
Value(k, which, len) == [i \in 1 .. len |-> 16 * which + 4 * k + i]

(* Child k of the root: [name, unit, start, end, nested], its unit address, *)
(* the lengths of its two values, and whether another node "chosen" with    *)
(* both is inside it.                                                       *)
ChildTokens(k, child) ==
    LET props(c, n) == <<Token(PROP, StartName, Value(n, 1, c.start)), Token(PROP, EndName, Value(n, 2, c.end))>>
        inner == <<Begin(ChosenName)>> \o props([start |-> 8, end |-> 8], 0) \o <<Ends>>
    IN  <<Begin(FullName(child.name, child.unit))>> \o props(child, k) \o Nops \o (IF child.nested THEN inner ELSE <<>>) \o <<Ends>>

TreeTokens ==
    <<Begin(<<>>)>> \o FlattenSeq([k \in DOMAIN asked.children |-> Nops \o ChildTokens(k, asked.children[k])])
    \o Nops \o <<Ends>>

Reservations == [k \in 1 .. asked.reservations |-> [i \in 1 .. EntrySize |-> IF i = 8 * k THEN k ELSE 0]]

(* A device tree that was flattened reads back: its tokens, whatever the    *)
(* padding of names and values, its memory reservations, and the names and  *)
(* unit addresses of the root's children.  A part of it, or one with a byte *)
(* more, is refused.  The initrd is that of the first child of the root     *)
(* called chosen, whatever its unit address, if both values have eight      *)
(* bytes, and not that of a deeper one.                                     *)
BlobReadsBack ==
    asked.about = "tree" =>
        LET dtb    == Flatten(Reservations, TreeTokens)
            tokens == BlobTokens(dtb)
            nodes  == SetToSortSeq(Children(tokens, 1), <)
            chosen == {k \in DOMAIN asked.children : asked.children[k].name = ChosenName}
            first  == Min(chosen)
            child  == asked.children[first]
        IN  /\ Opens(dtb)
            /\ \A n \in 0 .. Len(dtb) - 1 : ~Opens(SubSeq(dtb, 1, n))
            /\ ~Opens(Append(dtb, 0))
            /\ MemoryReservations(dtb) = Reservations
            /\ tokens = TreeTokens
            /\ Len(nodes) = Len(asked.children)
            /\ \A k \in DOMAIN nodes :
                  ParseName(tokens[nodes[k]].fullname)
                     = [name |-> asked.children[k].name, address |-> asked.children[k].unit]
            /\ Initrd(tokens, ChosenName, StartName, EndName) =
                  IF chosen # {} /\ child.start = 8 /\ child.end = 8
                  THEN {[start |-> Value(first, 1, 8), end |-> Value(first, 2, 8)]} ELSE {}

(* A list of strings reads back, empty ones behind the first included.      *)
StringsReadBack == asked.about = "strings" => IterStr(Joined(asked.strings)) = asked.strings

TreeReadsBack == BlobReadsBack /\ StringsReadBack

-----------------------------------------------------------------------------
(* Simd. *)

(* After simdInit, XSETBV having accepted what it wrote, a task can use     *)
(* x87, SSE and whatever of AVX and AVX-512 the CPU has, although the boot  *)
(* loader may have left them to be emulated; a save stores exactly what it  *)
(* can use, and each register within the size that is asked for then.       *)
SaveIsComplete ==
    asked.about = "simd" =>
        LET regs  == SimdInit(asked.cpu, asked.regs)
            saved == SavedBy(asked.cpu, regs)
        IN  /\ HasXsave(asked.cpu) => XsetbvAccepts(regs.xcr0)
            /\ saved = Usable(regs)
            /\ Legacy \subseteq saved
            /\ HasAvx(asked.cpu) => "AVX_ENABLE" \in saved
            /\ HasAvx512(asked.cpu) => Avx512Bits \subseteq saved
            /\ \A c \in saved : EndOf(c) <= SimdContextSize(asked.cpu, regs)

-----------------------------------------------------------------------------
(* Descriptors. *)

CodeAt(segment, privilege) ==
    segment.present /\ segment.executable /\ segment.long /\ segment.privilege = privilege

DataAt(segment, privilege) ==
    segment.present /\ ~segment.executable /\ segment.writable /\ segment.privilege = privilege

(* SYSCALL, SYSRET, a gate and LTR each find, at the place in the table     *)
(* they count on, a segment of the right kind and privilege; the TSS, both  *)
(* handlers and the GS bases are read back where they are in all 64 bits;   *)
(* SYSCALL is enabled beside what was, and leaves user code no flag but the *)
(* carry, so no interrupt comes before the kernel has its own stack.        *)
CpuFindsItsSegments ==
    asked.about = "descriptor" =>
        LET gdt  == Gdt(asked.tss)
            gate == Gate(IdtEntry(asked.handler, asked.ist, asked.attributes))
            msrs == SysSetGs(SysInit(BootMsrs, asked.handler), asked.tss)
        IN  /\ CodeAt(Segment(gdt, SyscallCs(msrs)), 0) /\ DataAt(Segment(gdt, SyscallSs(msrs)), 0)
            /\ CodeAt(Segment(gdt, SysretCs(msrs)), 3) /\ DataAt(Segment(gdt, SysretSs(msrs)), 3)
            /\ TssAvailable(gdt, TSS * 8) /\ TssBase(gdt, TSS * 8) = asked.tss
            /\ CodeAt(Segment(gdt, gate.selector), 0)
            /\ gate.handler = asked.handler /\ gate.ist = asked.ist
            /\ gate.attributes = asked.attributes
            /\ SyscallEnabled(msrs) /\ Tail(msrs.EFER) = Tail(BootMsrs.EFER)
            /\ msrs.LSTAR = asked.handler /\ KeptFlags(msrs) = {0}
            /\ {msrs.UGSBAS, msrs.KGSBAS} = {asked.tss}

-----------------------------------------------------------------------------
(* Pit. *)

(* However init finds the channel, it runs with the period of the frequency *)
(* afterwards, 2^16 being written as 0, and readCount answers with what the *)
(* counter stood at when it was called: both bytes are of one count,        *)
(* however far it has run on between the accesses.                          *)
PitTellsTheTime ==
    asked.about = "pit" =>
        LET channel == PitInit(asked.channel, asked.freq)
        IN  /\ channel.period = (FREQ \div asked.freq) % 2 ^ 16
            /\ ReadCount(channel, asked.counts) = asked.counts[1] % 2 ^ 16
=============================================================================
