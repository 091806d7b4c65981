----------------------------- MODULE MCAlgorithms -----------------------------
(***************************************************************************)
(* Ports of six bits, with ranges like those of the PIT, the serial port  *)
(* and a larger device, one at port 0 and one at the end; addresses with  *)
(* and without a page offset, the last page of physical memory among them; *)
(* device tree words that look like text, like 2^30 and like a small      *)
(* number; PCI functions at both ends of every field; a kernel in the low *)
(* and in the upper half of the address space; nodes called chosen, with  *)
(* and without a unit address, and not; the fastest timer and the slowest *)
(* there is, read when a byte of the count is about to borrow.            *)
(***************************************************************************)
EXTENDS Algorithms

MCIoRanges == {[start |-> 0, size |-> 12], [start |-> 8, size |-> 4],
               [start |-> 24, size |-> 8], [start |-> 4, size |-> 16],
               [start |-> 56, size |-> 8]}
MCIoOffsets == 0 .. 11
MCBufLens == 0 .. 5
MCPaddrs == {0, 4096 + 8, 2 ^ 16 + 2 ^ 13 + 4095, 2 ^ 17 - 4096}
MCVirts == {0, 511, 512, 4095, 2 ^ 14 + 7, 2 ^ 15 + 4096 + 513}
MCLevels == 1 .. 3
MCRegWords == {<<0, 0, 0, 0>>, <<64, 0, 0, 0>>, <<0, 0, 16, 0>>, <<0, 0, 0, 1>>}
MCPciAddrs == [bus : {0, 1, 255}, slot : {0, 1, 31}, func : {0, 1, 3, 7}]
MCOtherName == <<110, 110, 110>>
MCTreeChildren ==
    {[name |-> name[1], unit |-> name[2], start |-> lens[1], end |-> lens[2], nested |-> nested] :
        name \in {<<ChosenName, NoAddress>>, <<ChosenName, 26>>, <<MCOtherName, NoAddress>>, <<MCOtherName, 0>>},
        lens \in {<<8, 8>>, <<4, 8>>, <<8, 0>>}, nested \in BOOLEAN}
MCTreeStrings == {<<>>, <<97>>, <<98, 99>>}
MCFreqs == {19, 1000, 1193182}
MCCounts == {65536, 513, 512, 256, 255, 1}
MCPlaces == {<<0, 16, 32, 0, 0, 0, 0, 0>>, <<1, 2, 3, 4, 5, 128, 255, 255>>}
MCAttributes == {142, 238, 239}
=============================================================================
