------------------------------- MODULE DtbBlob -------------------------------
(***************************************************************************)
(* A flattened device tree as the bytes it comes in (vaerk-dtb/mod.cpp):  *)
(* Blob::open and what it refuses, the memory reservations, the tokens of *)
(* the structure block, names with a unit address, lists of strings, and  *)
(* the search for the initrd.  DeviceTree goes on from the tokens.         *)
(*                                                                         *)
(* The scanners, slices and ranges are Karm's, which is not in the        *)
(* repository: a slice ends where its bytes do, and a range contains      *)
(* another if it holds all of it.                                          *)
(***************************************************************************)
EXTENDS Integers, Sequences, FiniteSetsExt, SequencesExt

Magic == <<208, 13, 254, 237>>
HeaderSize == 40
EntrySize == 16       \* sizeof(ReserveEntry)

BEGIN_NODE == 1
END_NODE == 2
PROP == 3
NOP == 4
END == 9

AtSign == 64

Slice(bytes, start, end) == SubSeq(bytes, start + 1, end)
U32be(bytes, at) == FoldLeft(LAMBDA n, b : 256 * n + b, 0, Slice(bytes, at, at + 4))
Align(at) == 4 * ((at + 3) \div 4)

(* The bytes from a place to the next NUL. *)
CStr(bytes, at) ==
    LET ends == {k \in at .. Len(bytes) : k = Len(bytes) \/ bytes[k + 1] = 0}
    IN  Slice(bytes, at, Min(ends))

-----------------------------------------------------------------------------
(* Blob *)

Header(dtb) ==
    [totalSize |-> U32be(dtb, 4),
     structure |-> [start |-> U32be(dtb, 8), size |-> U32be(dtb, 36)],
     strings |-> [start |-> U32be(dtb, 12), size |-> U32be(dtb, 32)],
     reservations |-> U32be(dtb, 16)]

Encloses(size, range) == range.start + range.size <= size

(* Mutant: the total size is taken from the header. *)
OpensUnsized(dtb) ==
    /\ Len(dtb) >= HeaderSize
    /\ Slice(dtb, 0, 4) = Magic
    /\ LET header == Header(dtb)
       IN  /\ header.reservations < header.totalSize
           /\ Encloses(header.totalSize, header.structure)
           /\ Encloses(header.totalSize, header.strings)

Opens(dtb) ==
    /\ Len(dtb) >= HeaderSize
    /\ Slice(dtb, 0, 4) = Magic
    /\ LET header == Header(dtb)
       IN  /\ header.totalSize = Len(dtb)
           /\ header.reservations < header.totalSize
           /\ Encloses(header.totalSize, header.structure)
           /\ Encloses(header.totalSize, header.strings)

Block(dtb, range) == Slice(dtb, range.start, range.start + range.size)

(* The entries up to the first that is all zeros, or to the last whole one. *)
MemoryReservations(dtb) ==
    LET bytes    == Slice(dtb, Header(dtb).reservations, Header(dtb).totalSize)
        n        == Len(bytes) \div EntrySize
        entry(k) == Slice(bytes, (k - 1) * EntrySize, k * EntrySize)
        zeros    == {k \in 1 .. n : ToSet(entry(k)) = {0}}
    IN  [k \in 1 .. (IF zeros = {} THEN n ELSE Min(zeros) - 1) |-> entry(k)]

-----------------------------------------------------------------------------
(* TokenIter *)

Token(type, fullname, extra) == [type |-> type, fullname |-> fullname, extra |-> extra]

(* The token at a place and where the next one is; none at an END, and a    *)
(* panic at anything else.                                                  *)
TokenAt(block, strings, at) ==
    LET type == U32be(block, at)
        name == CStr(block, at + 4)
        len  == U32be(block, at + 4)
    IN  CASE type = BEGIN_NODE -> [token |-> Token(type, name, <<>>), next |-> Align(at + 4 + Len(name) + 1)]
          [] type = PROP ->
                [token |-> Token(type, CStr(strings, U32be(block, at + 8)), Slice(block, at + 12, at + 12 + len)),
                 next |-> Align(at + 12 + len)]
          [] type \in {END_NODE, NOP} -> [token |-> Token(type, <<>>, <<>>), next |-> at + 4]

Tokens(block, strings) ==
    LET from[at \in Nat] ==
          IF at >= Len(block) THEN <<>>
          ELSE IF U32be(block, at) = END THEN <<>>
          ELSE LET here == TokenAt(block, strings, at)
               IN  <<here.token>> \o from[here.next]
    IN  from[0]

BlobTokens(dtb) == Tokens(Block(dtb, Header(dtb).structure), Block(dtb, Header(dtb).strings))

-----------------------------------------------------------------------------
(* Names, strings and the initrd *)

IsXDigit(b) == b \in 48 .. 57 \/ b \in 65 .. 70 \/ b \in 97 .. 102
XDigit(b) == IF b <= 57 THEN b - 48 ELSE (b % 32) + 9
NoAddress == -1

(* _parseName: the name up to the @, and the hexadecimal number behind it.  *)
Until(bytes, Stop(_)) ==
    LET stops == {k \in DOMAIN bytes : Stop(bytes[k])}
    IN  IF stops = {} THEN bytes ELSE SubSeq(bytes, 1, Min(stops) - 1)

ParseName(fullname) ==
    LET name   == Until(fullname, LAMBDA b : b = AtSign)
        unit   == SubSeq(fullname, Len(name) + 2, Len(fullname))
        digits == Until(unit, LAMBDA b : ~IsXDigit(b))
    IN  [name |-> name,
         address |-> IF digits = <<>> THEN NoAddress
                     ELSE FoldLeft(LAMBDA n, b : 16 * n + XDigit(b), 0, digits)]

(* iterStr: skip a NUL, take all before the next one, until none is left;   *)
(* the NUL that ends the property is cut off first.                         *)
IterStr(extra) ==
    LET bytes == Front(extra)
        from[at \in Nat] ==
          IF at >= Len(bytes) THEN <<>>
          ELSE LET start == IF bytes[at + 1] = 0 THEN at + 1 ELSE at
                   str   == CStr(bytes, start)
               IN  <<str>> \o from[start + Len(str)]
    IN  from[0]

(* iterChildren of a node: the begins one level below it. *)
Children(tokens, node) ==
    LET Count(type, k) == Cardinality({i \in node + 1 .. k - 1 : tokens[i].type = type})
    IN  {k \in node + 1 .. Len(tokens) :
            /\ tokens[k].type = BEGIN_NODE
            /\ Count(BEGIN_NODE, k) = Count(END_NODE, k)
            /\ \A i \in node + 1 .. k : Count(BEGIN_NODE, i) >= Count(END_NODE, i)}

(* findChildren and getProperty: the first with the name.  The properties   *)
(* of a node follow its begin.                                              *)
FindChildren(tokens, node, name) ==
    {k \in Children(tokens, node) :
        /\ ParseName(tokens[k].fullname).name = name
        /\ \A i \in Children(tokens, node) : i < k => ParseName(tokens[i].fullname).name # name}

GetProperty(tokens, node, name) ==
    LET props == {k \in node + 1 .. Len(tokens) : \A i \in node + 1 .. k : tokens[i].type = PROP}
        named == {k \in props : ParseName(tokens[k].fullname).name = name}
    IN  IF named = {} THEN {} ELSE {tokens[Min(named)].extra}

(* as<u64be>: a value of eight bytes. *)
AsU64(values) == {value \in values : Len(value) = 8}

(* initrd, {} for none; chosen, start and end are the names it looks for.   *)
Initrd(tokens, chosen, start, end) ==
    UNION {[start : AsU64(GetProperty(tokens, node, start)), end : AsU64(GetProperty(tokens, node, end))] :
              node \in FindChildren(tokens, 1, chosen)}

-----------------------------------------------------------------------------
(* A flattener. *)

(* A unit address is written in hexadecimal behind the name. *)
Hex(number) ==
    LET Digit(d) == IF d < 10 THEN 48 + d ELSE 87 + d
        digits[n \in Nat] == IF n < 16 THEN <<Digit(n)>> ELSE Append(digits[n \div 16], Digit(n % 16))
    IN  digits[number]

FullName(name, unit) == IF unit = NoAddress THEN name ELSE name \o <<AtSign>> \o Hex(unit)

Be32(n) == <<0, 0, n \div 256, n % 256>>
Padded(bytes) == bytes \o [k \in 1 .. Align(Len(bytes)) - Len(bytes) |-> 0]

(* Each name is written once, and found where those before it end.          *)
StringsOf(tokens) ==
    FoldLeft(LAMBDA strings, t :
                 IF t.type = PROP /\ t.fullname \notin ToSet(strings) THEN Append(strings, t.fullname)
                 ELSE strings,
             <<>>, tokens)
Joined(strings) == FlattenSeq([k \in DOMAIN strings |-> Append(strings[k], 0)])
NameOff(strings, name) ==
    Len(Joined(SubSeq(strings, 1, (CHOOSE k \in DOMAIN strings : strings[k] = name) - 1)))

FlattenToken(t, strings) ==
    CASE t.type = BEGIN_NODE -> Be32(BEGIN_NODE) \o Padded(Append(t.fullname, 0))
      [] t.type = PROP -> Be32(PROP) \o Be32(Len(t.extra)) \o Be32(NameOff(strings, t.fullname)) \o Padded(t.extra)
      [] OTHER -> Be32(t.type)

Flatten(reservations, tokens) ==
    LET strings   == StringsOf(tokens)
        reserved  == FlattenSeq(reservations) \o [k \in 1 .. EntrySize |-> 0]
        structure == FlattenSeq([k \in DOMAIN tokens |-> FlattenToken(tokens[k], strings)]) \o Be32(END)
        at        == HeaderSize + Len(reserved)
        total     == at + Len(structure) + Len(Joined(strings))
    IN  Magic \o Be32(total) \o Be32(at) \o Be32(at + Len(structure)) \o Be32(HeaderSize)
        \o Be32(17) \o Be32(16) \o Be32(0) \o Be32(Len(Joined(strings))) \o Be32(Len(structure))
        \o reserved \o structure \o Joined(strings)
=============================================================================
