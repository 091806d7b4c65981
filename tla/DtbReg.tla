-------------------------------- MODULE DtbReg --------------------------------
(***************************************************************************)
(* The address ranges in the properties of a device tree                  *)
(* (vaerk-dtb/mod.cpp): a property is bytes, Prop::sniff guesses what they *)
(* are, and AddressSizeCell::parse reads the cells of one range from the  *)
(* words of a property taken for numbers.  A word is its four bytes, the  *)
(* highest first, and a u64 is two words.                                 *)
(***************************************************************************)
EXTENDS Integers, Sequences, SequencesExt

Nul == 0
IsAsciiPrint(b) == b \in 32 .. 126

(* _sniffStr: strings that end with a NUL, one after the other. *)
SniffStr(bytes) ==
    /\ bytes # <<>> /\ Last(bytes) = Nul
    /\ \A b \in ToSet(Front(bytes)) : b = Nul \/ IsAsciiPrint(b)
    /\ \E b \in ToSet(Front(bytes)) : IsAsciiPrint(b)

(* A length divisible by eight is one divisible by four: U64 never is.      *)
Sniff(bytes) ==
    IF bytes \in {<<>>, <<Nul>>} THEN "NIL"
    ELSE IF SniffStr(bytes) THEN "STR"
    ELSE IF Len(bytes) % 4 = 0 THEN "U32"
    ELSE IF Len(bytes) % 8 = 0 THEN "U64"
    ELSE "BYTES"

Regs32(bytes) ==
    IF Sniff(bytes) \in {"U32", "U64"}
    THEN [k \in 1 .. Len(bytes) \div 4 |-> SubSeq(bytes, 4 * k - 3, 4 * k)]
    ELSE <<>>

Zero == <<Nul, Nul, Nul, Nul>>

(* Mutant: the lower word is not moved up. *)
ShiftInLow(u64, word) == <<u64[1], word>>

(* u64 <<= 32; u64 |= word *)
ShiftIn(u64, word) == <<u64[2], word>>

(* The number in the first cells of words, or an error if they end.         *)
ParseCells(words, cells) ==
    IF cells > Len(words) THEN [ok |-> FALSE, value |-> <<Zero, Zero>>]
    ELSE LET value[n \in Nat] == IF n = 0 THEN <<Zero, Zero>> ELSE ShiftIn(value[n - 1], words[n])
         IN  [ok |-> TRUE, value |-> value[cells]]

(* AddressSizeCell::parse, and getProperty<AddressSizeCell> with NONE for   *)
(* an error.                                                                *)
ParseAddressSize(bytes, addressCells, sizeCells) ==
    LET words   == Regs32(bytes)
        address == ParseCells(words, addressCells)
        size    == ParseCells(SubSeq(words, addressCells + 1, Len(words)), sizeCells)
    IN  IF address.ok /\ size.ok
        THEN [found |-> TRUE, address |-> address.value, size |-> size.value]
        ELSE [found |-> FALSE]
=============================================================================
