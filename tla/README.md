# Verification of vaerk

vaerk is a set of C++ modules a kernel or a boot loader is built from: the *handover*
protocol between the two, page tables for x86_64 and RISC-V, memory handles, a
framebuffer console, and drivers and parsers for platform hardware. Nothing in the
repository runs by itself; a kernel that is not part of it makes the calls. This directory
holds TLA+ models of these modules, the TLC runs that check them and the TLAPS proofs
about them. Paths such as `vaerk-handover/builder.cpp` are below the repository's
`src/` directory.

Contents: [Inventory](#inventory) · [Hard behaviours](#hard-behaviours) ·
[Modules](#modules-and-the-code) · [Runs](#runs) · [Fairness and deadlock](#fairness-and-deadlock) ·
[Proofs](#proofs) · [Findings](#findings-and-observations) · [Abstractions](#abstractions) ·
[Not modelled](#not-modelled) · [Plan](#plan)

## Inventory

| component | state it keeps | operations | what makes it correct |
|---|---|---|---|
| handover builder, `vaerk-handover/builder.cpp` | record list and strings in one buffer, header | `add(Record)` (recursive), `add(Str)`, `agent`, `finalize` | the list is sorted, disjoint, coalesced and stands for the memory map; records and strings never meet; every call returns |
| handover payload, `vaerk-handover/spec.cpp` | the published records | `sum`, `find`, `usableRange`, `findTag`, `blobByName` | answers are true of the memory map |
| page tables, `vaerk-x86_64/{vmm,paging}.cpp`, `vaerk-riscv/{vmm,sv39}.cpp` | tables in frames of the `Pmm`, the root | `mapRange`, `free`, `flush`, `activate`, `dump` | the tables are a tree at every store, translate as asked, and leak no frame; `dump` logs what is mapped |
| memory handles and interfaces, `vaerk-base/{mem,pmm,vmm,kmm}.cpp` | owner and range of each handle | `allocOwned`, `mapOwned`, construct, move, assign, destroy | each range is freed once, by its owner; a live handle translates |
| console, `vaerk-console/mod.cpp` | framebuffer, cursor, escape flag | `bind`, `enable`, `clear`, `writeRune` | the screen shows the last lines printed; drawing stays inside |
| port and memory-mapped I/O, `vaerk-base/{io,raw,mmio}.cpp` | a range of ports or addresses | `in`, `out`, `read`, `write` | an access reaches the registers it names, in order, and none outside the range |
| serial port, `vaerk-x86_64/com.cpp` | none; the UART's | `probe`, `init`, `putByte`, `getByte`, `write`, `writeRune` | bytes leave in order; a probe leaves nothing behind; every call returns |
| PCI, `vaerk-pci/mod.cpp`, `vaerk-base/mmio.cpp` | none; the function's | `probBars`, `Bar::parse`, ECAM access | what is reported is what the function decodes, which is left as found |
| device tree, `vaerk-dtb/mod.cpp` | iterators over a token stream | `open`, `memoryReservations`, `iterProp`, `iterChildren`, `iterStr`, `dump`, `parse`, `initrd` | what was flattened is what is read; a blob cut short is refused |
| ACPI, `vaerk-acpi/*.cpp` | none | `iterTables`, `findTable`, record walks | every table and record is visited once |
| SIMD state, `vaerk-x86_64/{simd,cpuid}.cpp` | control registers | `simdInit`, `simdSaveContext`, `simdContextSize` | what is switched on is what is saved, and fits |
| descriptor tables, `vaerk-x86_64/{gdt,idt,sys}.cpp` | GDT, TSS, IDT, MSRs | packing, `sysInit`, `sysSetGs` | the CPU reads back what was packed, and finds its segments |
| interrupt controllers, `vaerk-x86_64/pic.cpp` | the two 8259s' | `init`, `ack`, `disable` | a request is taken in the end; a controller is told of each interrupt it sent; vectors are those of `init` |
| timer, `vaerk-x86_64/pit.cpp` | the 8254's | `init`, `readCount` | the period is that of the frequency; a count is read in one piece |
| EFI, `vaerk-efi/*.cpp` | handle and system table | `lookupConfigurationTable`, `openProtocol` | the table with the GUID is found |
| CPU and SBI bindings, dump utilities, AML | none | single instructions and calls | not modelled |

Components meet in three ways. A `Vmm` calls the `Pmm` it was given, and keeps its
tables in the frames it gets; handles (`Mem`) call the `Pmm`, `Vmm` or `Kmm` they came from when
they are destroyed, and a `Vmm` may refuse halfway. Drivers reach devices through an `Io`. The builder's list is read by
another program, the kernel, through the payload's queries.

## Hard behaviours

* The MMU reads the page tables, and a cache of them, while the kernel changes them: the
  order of two stores matters though the kernel is sequential.
* Allocation and freeing of tables fail halfway through a call, and the calls before it
  are not undone.
* `add(Record)` calls itself on pieces of records while the list is half changed, and its
  result depends on everything added before.
* Strings and records grow towards each other.
* Handles are moved from, moved onto themselves and destroyed in any order.
* A UART works at its own speed beside the driver that polls it; it may be stuck or absent.
* Devices raise and withdraw interrupts between any two register writes; handlers nest; an
  interrupt may be gone when the CPU asks which it was.
* A timer counts on while its two bytes are read.
* Sizing a PCI register means overwriting it.
* Device tree iterators nest, and `dump` re-reads each subtree once per level.
* Much else is arithmetic at a boundary: entries, offsets, counts and descriptors
  packed into bits.

There is no persistent state and no thread in this code, hence no crash recovery and no
interleaving beyond that with hardware. PROJECT.json lists each hazard at its line with the
properties that watch it.

## Modules and the code

### Handover

`HandoverPayload` has records, range arithmetic (`Collides`, `Below`, `Above`), ranks and the
kernel's queries `Find`, `FindTag`, `SumOf`, `UsableRange` as operators (`spec.cpp`).

`HandoverBuilder` is the class `Builder`. `records`, `string`, `agent` and `len` are its fields;
`todo` is the stack of calls of `add(Record)` still to be made. Each call's loop changes the list
only at the first record it stops at (`FirstStop`), so each way of stopping is an action
with the index as parameter: `MergePrevious`, `MergeNext`, `CarveRecord`, `CarveOther`,
`DropColliding`, `InsertBefore`; `SkipEmpty` and `PushBack` are the ends of a call without a
stop. `Add`, `AddString`, `Agent`, `Finalize` are the boot loader's calls. `panicked` is
the end of the program in `_ensure`. `settled` and `fresh` are history variables.

`MemoryMap` is what the builder promises: each address has an owner, a claim raises the
addresses of its range to its tag where the tag's rank is higher. Where code and promise
part (see the findings) the abstract step `PartialClaim` says by how much. `ImplementsMap` is
the refinement with `owner <- settled`.

### Address spaces

`AddressSpace` is the promise of `Vaerk::Vmm`: a call `mapRange` or `free` changes the mapping one
page at a time, may fail in the middle, and reports how it ended.

`PageTables` implements it, for x86_64 with `Levels` 4. Every store the MMU can see is a step:
`ZeroTable` before `LinkTable`, `PutLeaf`; `ClearLeaf`, then `UnlinkTable` before `ReleaseTable`,
up the path. `AllocFails` and `ReleaseFails` are the errors of the `Pmm`. A frame comes
with `Garbage` in it. `ImplementsSpace` maps the tables to an address space by walking them
(`Walk`), as the hardware does at any moment.

`RiscvVmm` is `Riscv::Vmm` function by function: `AllocPage` and `FreePage` name the tables of the three
levels (`Pml2`, `Pml1`) one by one, as the code does, `PmlOrAlloc`, `Pml` and `PruneEmpty` are
given the level and the table above, and `sv39.cpp` takes the indices (`Sv39Index`). It shares with
`PageTables` the state, and how calls begin, end and are refused a frame they give back; that its steps are those of a path
three levels deep is a theorem (`SameSteps`).

`PageDump` is `Vmm::dump`: a scan of all tables in index order with the context that merges
neighbours into ranges. The log is a value computed from a state, so it is an operator.

`Tlb` adds to `AddressSpace` a cache the MMU fills and evicts whenever it likes, and `flush`
and `activate`. With `ActivateKeepsGlobal` it is x86_64's CR3, without it RISC-V's `sfence.vma`.

### Memory handles, console

`Mem` is `Vaerk::Mem`: what each handle holds, what is given out, and each constructor,
assignment and destructor as an action (self-move included). It is also the promise any owner
makes to its handles.

`MappedMemory` composes `Mem` with `Tlb`: `MapOwned` and `DestroyStarts` begin a call of the
address space, `OnePage` is its loop, `MapReturns` and `DestroyReturns` are the step of `Mem` that
happens when it returns, or the error: no handle, or `expect`'s panic. The MMU steps in between.
`ImplementsMem` is the refinement: what takes many steps here, any of which may fail, is one step of
`Mem`. `left` is a history variable: pages a failing `mapOwned` left mapped.

`Console` has the framebuffer, the cursor and every operation; `writeRune` is composed of
`Newline`, `Put`, `Tab`, `Backspace` and `Scroll` as the code composes it. Beside it goes `roll`, all
the lines printed since the last clear: the property compares the screen with its last lines.

### Devices

`Com` is the driver one register access at a time (`pc`), against a 16550 that shifts a byte out,
takes one in or moves one to the shifter between any two accesses (`Uart`). A missing UART
answers with ones (`present`); a hung one is a behaviour in which `Uart` stops.

`Pic` is the driver one register write at a time, against both 8259s, the CPU and handlers that call
`ack` once. `chip` has each controller's requests, what is in service, mask and initialisation state;
`frames` is the stack of handlers on the kernel, each with the writes it has still to make; `nests`
says whether handlers run with interrupts enabled. Between two writes a device raises (`Raise`) or
withdraws (`Withdraw`) a request, and the CPU sees one (`See`), asks for the vector (`Acknowledge`)
and, for a line of the lower controller, is answered by it (`AcknowledgeLower`); a request gone by then
is a spurious interrupt.

`PciBars` is `probBars` and `Bar::parse`, one configuration access at a time, against a function
whose registers keep the bits a size leaves writable (`MmioWrite`).

`DeviceTree` first writes a tape, as a flattener would, then runs `Node::dump` on it; a frame of
`stack` is one call of `dump` with its two iterators; each step is one `next`.

### Functions without state

`PortIo` (`io`, `raw`, `mmio`), `PageEntry` (`Entry`, `makeFlags`, a step of `virt2phys`), `Acpi`
(`lookupConfigurationTable`, `iterTables`, `findTable`, MADT and MCFG records), `DtbReg` (`_sniffStr`,
`regs32`, `AddressSizeCell::parse`), `DtbBlob` (the bytes of a blob: `Opens`, `MemoryReservations`,
`Tokens`, `ParseName`, `IterStr`, `Initrd`, with a flattener to read back from), `PciEcam`, `Simd`
(`simdInit`, sizes), `Descriptors` (bytes of GDT, TSS and gates; the MSRs of `sysInit` and `sysSetGs`),
`Pit` (register writes of `init` and `readCount` against an 8254 channel) are operators. `Algorithms`
asks each of them every question from a set and states what the answer should be: in
terms of what hardware reads back, or of a definition that does not follow the code. The sets are
constants: a run takes small ones, the theorems hold for all that `AlgorithmsAssumption` allows.

`MC...` modules give constants their values; `..._proofs` modules hold theorems.

## Runs

| run | what it asks | bounds, and why they are enough |
|---|---|---|
| `handover` | is the list right in the middle of every add, does it implement the map, are the kernel's answers true, does every call return? | 4 addresses: a record can have neighbours and leftovers on both sides. 4 tags: FREE, LOADER between, two of the highest rank. 112 bytes hold three records, or two and a string, so every check for room is met at equality |
| `handover_drop` | does a dropped record leave the map alone? (no, see findings) | 3 addresses |
| `x86_vmm` | tree, leaks, refinement, dump | 4 levels of 2 entries, 4 pages that share none, some or all tables; 5 frames, fewer than all pages need, so allocating the second and the third table of a path fails with the first linked (the first never fails: two root entries need two tables). A `Pmm` that takes back every frame (`FreeMayFail` FALSE): a table it refuses is lost, which `NothingLeaks` allows for otherwise. Frames are symmetric (no liveness here) |
| `riscv_vmm` | the same refinement and dump with failing frees, and termination | 3 levels, 3 frames, so that allocating either table of a path fails; `FreeMayFail` TRUE, no symmetry |
| `mapped_memory` | do handles translate, is each range freed once, what can be stale, is the whole a `Mem`? | 3 pages, one global; ranges that share pages, fail at the first or second page, or map elsewhere; 2 handles, so a move has a source and a target. x86_64's `activate`: the RISC-V one forgets more |
| `console` | does the screen show the last lines? | screens of two lines with a rest of a pixel row, of one line, and a narrower one; 3 lines, so that a screen scrolls twice |
| `algorithms` | do the functions answer right? | inputs at both ends and around each boundary (page offset, last page, 2^9, ranges at port 0 and at the end); blobs of up to 2 children, with names, values and strings that need padding and that do not; counts about to borrow between two reads; MADTs of up to 5 bytes, with records that go on and records whose length is 0 or past the end; properties of up to 4 words, with up to 3 cells of address (one is dropped) and 2 of size |
| `port_wide` | is a 64-bit port access its two halves? (no, see findings) | the ranges of `algorithms` |
| `com` | order of bytes, probing, loopback, termination | FIFOs of 2, 2 tries per wait, 3 bytes out, 2 in, 3 set-ups: full FIFOs, timeouts in each wait, and a probe while bytes are under way |
| `pci_bars` | are ranges reported right, and registers put back? | registers of 8 bits (`Word` is 256); ranges of the smallest and largest size, 64-bit ones below, at and above a register |
| `device_tree` | is each property dumped once, with the right cells? | every tape of up to 9 tokens: three nested nodes with properties, siblings and NOPs |
| `pic` | are controllers told, are vectors right, is a request taken once the lines before it ask no more? | lines 0, 5, 8 and 14: the highest and a lower one of each controller, and 8, which is 40 where `ack` compares; two handlers on top of each other, above the kernel, and no bound on requests; 2 set-ups, so that `init` runs in the middle and `disable` after it |

## Fairness and deadlock

The only fairness is weak fairness of the steps of a call in progress: `AddStep`, the calls of
`Riscv::Vmm` with their return, `Driver`, `DumpStep`. A processor keeps executing, that is all.
Nothing makes a client call, and nothing makes a UART move: `CallsReturn` of `Com` holds
because the driver counts its polls, with a UART that never answers. `RequestsAreTaken` of `Pic` has
weak fairness of `Driver` (a call of the driver and a handler run to their end) and of `Cpu` (an
interrupt that is asked for and enabled is taken); no device need raise or withdraw anything. Devices
may ask for ever, and the priority is fixed, so the property is stated per line: a request is taken if the lines
before it ask finitely often. The lines behind it may ask as often as they like as long as no spurious
interrupt is acknowledged in the place of another; after that, they too (see the observation about `DualPic::ack`).

`CHECK_DEADLOCK FALSE` stands where the system may really stop: `handover` (a builder that
panicked), `console`, `com` (clients with a bounded number of
calls), `mapped_memory` (a destructor that panicked), `pci_bars`, `device_tree` (finished). The others never stop. No call
stops halfway: `CallsReturn` and `DumpReturns` say so for `com` and `device_tree`, and in `pci_bars`
every `pc` has an action that is always enabled.

## Proofs

Each theorem holds for every value of the constants its module's assumptions allow. All rest on an
inductive invariant of the module, which TLC checked on the bounds of the run before it was proved;
a lemma per action shows that the action keeps it. In `Algorithms`, where nothing but the question
changes, that invariant is only what questions there are, and the argument is in the lemmas about the answers.

| module | theorems |
|---|---|
| `HandoverBuilder_proofs` | `TypeCorrect`, `AlwaysSorted`, `AlwaysCoalesced`, `RecordsAndStringsNeverMeet`, `ImplementsTheMap`, `QueriesAreTrue` |
| `PageTables_proofs` | of `PageTables` and `PageDump`: `TypeCorrect`, `TablesAlwaysATree`, `NoTableLeaks`, `TablesImplementTheSpace`, `DumpAlwaysTells`; of `RiscvVmm`: `SameSteps`, `Sv39TablesAreATree`, `Sv39NoTableLeaks`, `Sv39ImplementsTheSpace`, `Sv39DumpAlwaysTells` |
| `MappedMemory_proofs` | of `Tlb`: `OnlyOwedIsStale`; of `Mem`: `NoRangeFreedTwice`, `EveryRangeHasItsHandle`; of both together: `HandlesAlwaysTranslate`, `SpaceIsAnOwner`, `NoMappingFreedTwice`, `OwnedIsStaleOnlyIfOwed` |
| `Com_proofs` | `ProbesTellTheTruth`, `LoopbackAlwaysStaysInside`, `BytesStayInOrder` |
| `Pic_proofs` | `VectorsAlwaysTellTheLine`, `InServiceIsAlwaysOwed` |
| `Algorithms_proofs` | of `PciBars`: `ProbedIsDecoded`, `SizingPutsEverythingBack`; of `Algorithms`: `BuffersStayInOrder`, `EntriesSayWhatWasAsked`, `WalksAlwaysFindWhatIsListed`, `RegsAreWhatWasWritten`, `SavesAreComplete`, `CpuAlwaysFindsItsSegments`, `PitAlwaysTellsTheTime` |
| `Console_proofs` | `ConsoleDrawsInside`, `ConsoleShowsTheRoll` |
| `DeviceTree_proofs` | `DumpAlwaysReadsTheTape`, `CellsAlwaysComeFromTheInnermost` |

**Handover.** `Sorted` and `Coalesced` are inductive only together and only for non-empty records,
hence `IInv == TypeOK /\ WellFormed(records) /\ NeverMeet`. The list changes in three ways, so three
lemmas carry the argument: removing a record keeps a list well formed; inserting one before a
record it stops at does, since no earlier record stopped it (each ends at or below its start,
and a FREE one that touched it would have merged); appending does likewise. What goes on
`todo` needs no relation to the list, only its type (`PartsAreRecords`): each call starts from a
well-formed list whatever the rest of the stack holds.

The refinement does need that relation. `MapInv` says that while an `add` runs some claim explains
the list and the stack together (`Claiming`): a piece, listed or on the stack, says of an
address what was settled or what is being claimed; what outranks the claim, or has the highest rank,
is still a piece; only the call to be made next can be of a higher rank than the claim; and a claim
that meets nothing of its own rank loses nothing and never clashes. Each action is shown to
do only what `Traced`, `Keeping`, `Lower`, `Apart` and `Covering` allow, and these keep `Claiming`.

`QueriesAreTrue` is about the list published: it is well formed and inside the addresses (`MapInv`), and on a fresh
payload it is the whole list (`FreshInv`). A run of free addresses then lies in one FREE record, as
records that touch have merged (`RunInRecord`), so the first record `find` meets that is large
enough is the lowest run there is. `sum` is the number of addresses of its tag, by induction over the records,
which are disjoint (`CountStep`).
Assumptions: `TagAssumption`, `BuilderAssumption`.

**Page tables.** `TablesAreATree` is not inductive: a store can only be seen to keep the tree if each table
is known to be at its place. `IInv == \E lev, pre : PInv(lev, pre)` gives every linked table a level and the
page it starts at; an entry of a table at level l leads to one at level l - 1 whose start follows
from the index. So two entries never lead to the same table, a page's path meets one table a
level, and `Walk` finds what the path of the call has found. What spans and trails compute is
proved by induction over a set of levels, since an induction theorem about a predicate is
out of the provers' reach. `NoTableLeaks` counts: each table but the root has a page beneath it, or
the call under way on its path; frames that are neither free nor linked are the one the
call holds, or were refused. For the refinement each action is a step of `AddressSpace` or none: only
`PutLeaf`, `ClearLeaf` and the beginning and end of a call change what the walk finds or what is asked.
For the dump, a context `Tells` of the pages below a bound: what it has logged and the range it is at are those
pages, each mapped as it says, in ranges that cannot be joined. A page at the bound moves it by one (`NextTells`), an entry by
the pages it spans (`EntryTells`, by induction over the levels), a table by all its entries (`TableTells`).
Assumptions: `TablesAssumption` (at least one level, two entries, a finite set of frames);
`EntriesDistinct`, an entry is told by its value; `PagesFit`, pages are those the root spans;
`AddressSpaceAssumption`.

**RISC-V.** `SameSteps`: with `Levels` 3, `RiscvVmm` and `PageTables` have the same behaviours, so that the theorems above
carry over. It is not a matter of form: where a call is (`Placing`, from `IInv`) decides which of the named tables is the
last of the path and which level it has, its shifts are the spans (`ShiftIsSpan`), the page it works on is
the one before once an entry is cleared (`SamePage`), and in each of the six places of `AllocPage` and `FreePage` exactly the
actions of the loop are enabled (`DownIs`, `UpIs`).

**TLB.** `TInv` is the shape of the state, `StaleOnlyIfOwed`, and that the
part of a flush already done left nothing stale but what the MMU filled in since, which
agrees with the tables, as no kernel step comes between (`FlushInv`). `TlbAssumption`.

**Handles.** For any owner: what a handle holds is given out, no two handles hold the same,
each range given out and not lost is held, and no destructor freed twice (`MInv`, `MemAssumption`).
Over an address space, `OInv` adds that ranges given out share no page, that the call under
way belongs to the handle that waits for it and has mapped, or unmapped, the pages before the one it
is at (`RunningInv`), and the two halves of `HandlesTranslate`. It gives the refinement to `Mem`, and
with it `NoMappingFreedTwice` from the theorem about `Mem`, without a second proof; a refinement of
`Tlb` gives `OwnedIsStaleOnlyIfOwed` in the same way. `MappedMemoryAssumption`: ranges are not empty.

**Serial port.** The invariant says for each place in the driver what the UART may hold: the bytes a drain has
still to read and those it has read are together no more than a FIFO holds, unless it is `cut`; a probe whose
byte nothing else accompanies reads that byte; and every byte written is on the wire, in the
transmitter or, when it is `cut`, lost, in this order (`SentInv`). `ComAssumption`: a wait polls at
least as often as a FIFO is deep, which 100000 polls are.

**Interrupts.** What the kernel has still to write is an end of the list `init` or `disable` began with, and both
controllers stand where the writes made so far leave them (`KernelInv`). A handler has a cause, a
line or a spurious vector, and has still to write an end of the list `ack` gives for it
(`HandlersInv`). Handlers on the stack were called for higher and higher lines, so that what the
topmost ends is the first its controller has in service (`ServiceInv`, which is `InServiceIsOwed`
in the form that is inductive). Only where handlers nest is a spurious interrupt acknowledged on top of
another (`overlapped`, `NestInv`); from then on no more is in service than is owed. `PicAssumption` asks only for lines that exist.

**PCI.** First the arithmetic: quotient and remainder are unique, so what is rounded down to a size
comes back from the sum with type bits below that size, and the complement of a mask is the size
(`PioRegister`, `Mmio32Register`, `Mmio64Register`). Then the walk is never at an upper half, each register holds its
value at boot but the one being sized, and what was read is what that register answers
(`WalkInv`, `RegsInv`, `ReadInv`, `ResInv`). `PciAssumption`: sizes divide what the registers can hold, bases are
multiples of sizes.

**Console.** `ShowsTheRoll` is not inductive: the pixel rows under the last line of text scroll up into it.
`Agree` adds that they are blank, and where the cursor is. One lemma for each primitive, `SetAgrees`, `NewlineAgrees`
and `PutMatches`, shows that screen and roll go on agreeing; lines of text have their pixel
rows to themselves (`RowsOf`), so a glyph disturbs no other and a scroll moves whole lines. A tab is up
to four characters (`TabIs`). A screen bound and not cleared agrees with nothing; `Keeps`
follows only its cursor. `ConsoleAssumption`: a glyph is at least one pixel high.

**Device tree.** What each iterator knows of the tape it knows from its own place and depth alone. `DInv` says
that they agree: there is a last token F that anyone has read, the call at depth k is on the k-th node open after F,
its depth counter is the height of the tape where its iterator stands less that of its node (`Frame`), between there and F its node has neither
ended nor begun another child, and the topmost iterator stands right behind F (`Foremost`). Heights
are counts, so `NextStop` finds where the next call stops and `ChildNextIs` that it is what next
answers; the calls below wait undisturbed (`FrameWaits`). The cells of a node are those of the nodes around it (`NodeCells`), which
do not change between its children (`SameNodes`). `WellWritten` is what a flattener keeps: no end without a begin, one root, a property behind the
begin of its node or another property. `DeviceTreeAssumption`.

**Functions without state.** `OnlyAsked` is the invariant: every question is one of `Asked`. What is defined by
recursion (a buffer's bytes, the search of a list, a walk over records, the cells of a property, powers of two)
is first shown to be a function (`Recursion`), as the provers take none for granted; what it answers then follows
from a set of numbers that is `Inductive`, or from the least number it could be wrong for.

* `PortIo`: byte i of a transfer has gone to register offset + i, or none has and the transfer is an error, and the bytes
  before the first refused are those a call has moved (`PortBytes`). `PortIoAssumption`; a device has not all the ports.
* `PageEntry`: sums of powers of two are told apart by their bits (`PowersMultiply`), a page has room below its
  address for the flags of both architectures (`Widths`), so putting an address in an entry, or a flag, disturbs
  nothing else. `PageEntryAssumption`: a page has at least 12 offset bits, as the flags take that many.
* `Acpi`: `findTable` answers the last table of its signature, `SearchFinds` that the search comes to it. Each MADT record
  the walk gives is in the table and further on than the one before (`Chain`), so the walk ends, whatever the bytes are.
  `AlgorithmsAssumption` has tables whose size in bytes does not wrap a `usize`.
* `PciEcam`: bus, device and function are digits of an offset, so no two functions share configuration space.
* `DtbReg`: shifting words in keeps the last two (`ShiftIn`), which is what a range of more cells than two loses.
* `Simd`: CPUID's size is the largest of the ends of what is enabled (`SizeIsEnough`), the rest is by cases on what the CPU can do.
* `Descriptors`, `Pit`: by cases on the bytes of a descriptor and the digits of an address
  (all 2^64 of them), and on the two bytes of a count, which the latch holds while they are read.

**Model-checked only.** Liveness (`CallsReturn`, `DumpReturns`, `RequestsAreTaken`), as it rests on fairness and ENABLED; and
`TreeReadsBack`, that what a flattener wrote is what `DtbBlob` reads: an induction over trees and the bytes they are
written as, through folds, which only a theorem about a predicate could state. An induction over one set, or about one recursive function, is
within the provers' reach, and is spelled out where a proof needs it.

## Findings and observations

1. `builder.cpp:115` says "dropping coliding record". By then the call may have removed a FREE
   neighbour and merged it into that record (lines 80 and 90), which is dropped with it: after
   FREE [0,1) and FREE [2,3), `add(FREE [1,3))` forgets [0,1). Run `handover_drop`.
2. `raw.cpp:47` and `:82` say that 64-bit port accesses are emulated by two of 32 bits. They pass the
   absolute port to functions that take an offset, so the start of the range is added
   twice: the access reaches other ports, or is refused. Run `port_wide`.

Seen on the way, where nothing in the repository says otherwise:

* On x86_64 `READ` and `WRITE` are the same bit, so a page mapped with `READ` alone can be written
  (`EntrySaysWhatWasAsked` says what does hold).
* `virt2phys` on x86_64 keeps 9 bits of page offset (`paging.cpp:102`), on RISC-V 12; the result
  is right for the first 512 bytes of a page (`EntrySaysWhatWasAsked`).
* `mapRange` that fails in the middle leaves what it had mapped, and empty tables, in place.
* `Property::sniff` takes some lists of numbers for text (`dtb/mod.cpp:227`, used at 241): a `reg` of
  `<0x40000000 0x20000000>` is the string "@", so no address range is found in it.
* A NOP token between a node's name and its first property ends `iterProp` early (`mod.cpp:368`).
* Assigning over a handle does not give back the range it held (`mem.cpp:56`): `HandlesTranslate` and
  `OneHandleEach` count those ranges as `lost`.
* When `mapOwned` fails, the pages it had mapped stay mapped, with no handle (`left`). `~Mem` frees
  without a flush, so translations outlive a handle until somebody flushes.
* `sniff` tests for a multiple of 4 before one of 8 (`dtb/mod.cpp:229`): it never answers U64, and
  `regs64` is always empty.
* `iterStr` skips a NUL before each string, so an empty string in front of the list is lost.
* `initrd` wants both values in eight bytes; the four a 32-bit boot loader may write are not found.
* `DualPic::ack` acknowledges a spurious interrupt like any other. Where handlers nest, that ends the
  service of the handler below too early (`overlapped`): its line, and lines behind it, may interrupt it.
  It blocks no controller, but a line behind that asks again and again can keep that handler
  from its own acknowledgement, and requests of its line waiting; `RequestsAreTaken` names the case.
* `Pit::init` below 19 Hz wraps its divisor: `init(18)` programs 751 instead of 66287. `readCount`
  latches, but has no lock: called from an interrupt between its own two reads, it mixes bytes.
* `simdInitContext` saves the vector registers of whoever runs, and its `fninit` resets that one's x87
  registers: its caller must have saved them.
* A range that ends at 2^64 has `end()` 0 (`handover/spec.cpp:82`) and collides with nothing.
* A console bound to a smaller framebuffer draws outside it until it is cleared
  (`DrawsInside` names the case).
* An ACPI length below that of its header wraps when entries are counted.

## Abstractions

* Handover: record flags and the file payload are carried along and left out. Addresses do not
  wrap at 2^64: maps are far below it.
* Page tables: an entry is a frame, a page or `Absent`; its bits are in `PageEntry`. Addresses
  count pages. Calls start with ranges inside `Page`. Kernel calls do not overlap: the class
  leaves locking to its caller.
* `PageDump`: no sign extension of addresses in the upper half.
* `Console`: a cell is one pixel wide and two high; a glyph is told apart by its name.
* `Com`: `INTERRUPT_ENABLE` is left out, nothing waits for interrupts; the low byte of the divisor
  stands for both; bytes are told apart by where they come from. Clients write and read only
  after an `init` has returned; they call `probe` and `init` whenever they like.
* `PageTables`: an entry is told from others by its value (`EntriesDistinct`): frames, pages, `Absent` and
  `Garbage` are apart, where the code looks at the present bit and the level.
* `MappedMemory`: the client does not map over a range that is still owned, as `mapRange` would overwrite
  it without a word; `Flush` and `Activate` come between calls that are not `mapOwned` or a destructor.
* `Pic`: handlers nest up to `MaxNested`; `init` is called with interrupts disabled; a handler calls `ack` once with its vector, at any
  moment; the priority is fixed and lines are edge-triggered, as `init` programs them. `wait` is left out.
* `Pit`: channel 0 alone; a count is where the counter stands at each access, any at all.
* `DtbBlob`: a blob is a sequence of bytes, with the names the code looks for shortened to one byte. The
  scanner and the ranges are of a library that is not in the repository.
* `PciBars`: a register has `Word` values, 2^32 in the code; the prefetchable and type bits keep their places.
* `DeviceTree`: names and values are places on the tape; `#address-cells` stands for the three
  inherited properties. Its first two properties are stated for `Tidy` tapes, which have no NOP
  where `iterProp` stops early.
* `Simd`: `MONITOR_CO_PROCESSOR`, `NUMERIC_ERROR_ENABLE` and `SIMD_EXCEPTION_SUPPORT` only choose which exception
  an error raises; no property is about them.
* `Algorithms`: widths are constants, scaled down where only their order matters; a CPU with AVX has
  XSAVE, one with AVX-512 has AVX. Buffers of port and DMA accesses start inside the range.

## Not modelled

Single instructions and firmware calls (`intrinsics` but for the MSRs, CSRs, SBI, EFI's services), layouts
without a rule (FADT, HPET, EFI's protocols and error codes), formatting and logging, the font, the
command lines of the utilities, and AML, which is an empty module. `blobByName` reads a name through the
union of a record, which the model leaves out. `Pmm` and `Kmm` are interfaces: `PageTables` and `Mem` have what they are
used for. CPUID's branding strings are text.

## Plan

Order of work: handover, the first thing a kernel relies on; address spaces; handles, console;
devices; parsers; their composition; then the theorems, in the same order, the functions without state last. All
of it is done. What would come next:

1. `TreeReadsBack` for blobs of any size, once a prover can instantiate an induction theorem: `DtbBlob`'s folds are written
   so that each takes one token, or one reservation, at a time.
2. A lock around the calls of `AddressSpace`, when the code has one: two CPUs that map neighbouring pages today may
   both link a table (`vmm.cpp:28`), and the second link loses the first.
