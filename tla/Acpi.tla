--------------------------------- MODULE Acpi ---------------------------------
(***************************************************************************)
(* Walking the ACPI tables (vaerk-acpi): the list of tables of an RSDT or *)
(* XSDT, and the records of a MADT and an MCFG.  A list is its length in  *)
(* bytes, which the firmware wrote, and the entries there and behind it   *)
(* in memory.                                                              *)
(***************************************************************************)
EXTENDS Integers, Sequences, SequencesExt

CONSTANT Usizes    \* how many values a usize has, 2^64 in the code

ASSUME AcpiAssumption == Usizes \in Nat \ {0}

SdthSize == 36
McfgReserved == 8
McfgRecord == 16     \* sizeof(Mcfg::Record)
RecordHeader == 2    \* sizeof(Madt::Record)

(* Sdth::len is a u32 and sizeof a usize: the difference wraps. *)
Entries(len, header, entry) == ((len - header) % Usizes) \div entry

(* The EFI configuration table with a GUID: where it is, 0 if there is none. *)
LookupConfigurationTable(guids, guid) == SelectInSeq(guids, LAMBDA g : g = guid)

RsdtCount(len) == Entries(len, SdthSize, 4)
XsdtCount(len) == Entries(len, SdthSize, 8)

McfgCount(len) == Entries(len, SdthSize + McfgReserved, McfgRecord)

IsAcpi2(rsdp) == rsdp.revision >= 2

(* The tables iterTables calls its argument for.  A list is [len, children], *)
(* the children past len being whatever is in memory.                       *)
IterTables(rsdp) ==
    IF IsAcpi2(rsdp) /\ rsdp.xsdt # 0
    THEN SubSeq(rsdp.lists.xsdt.children, 1, XsdtCount(rsdp.lists.xsdt.len))
    ELSE SubSeq(rsdp.lists.rsdt.children, 1, RsdtCount(rsdp.lists.rsdt.len))

NoTable == [signature |-> "none", at |-> 0]

(* findTable keeps the last table with the signature; result[n] is what it  *)
(* has after n of them.                                                     *)
FindTable(rsdp, signature) ==
    LET tables == IterTables(rsdp)
        result[n \in Nat] ==
          IF n = 0 THEN NoTable
          ELSE IF tables[n].signature = signature THEN tables[n] ELSE result[n - 1]
    IN  result[Len(tables)]

(* Mutant: a record of length zero is stepped over like any other, once. *)
MadtRecordsLax(bytes, len) ==
    LET walk[at \in Nat] ==
        IF at + RecordHeader > len THEN <<>>
        ELSE <<at>> \o (IF bytes[at] = 0 THEN <<>> ELSE walk[at + bytes[at]])
    IN  walk[0]

(* The records of a MADT that repr comes to: bytes[at] is the length a      *)
(* record at that place says it has, and len where the table ends, both     *)
(* counted from the first record.                                           *)
MadtRecords(bytes, len) ==
    LET walk[at \in Nat] ==
        IF at + RecordHeader > len THEN <<>>
        ELSE IF bytes[at] < RecordHeader THEN <<>>
        ELSE <<at>> \o walk[at + bytes[at]]
    IN  walk[0]
=============================================================================
