-------------------------------- MODULE PortIo --------------------------------
(***************************************************************************)
(* Access to device registers: RawPortIo and RawDmaIo (vaerk-base/raw.cpp) *)
(* behind the interface Io (io.cpp).  An io is [kind, range], kind "port" *)
(* for RawPortIo and "dma" for RawDmaIo.  A transfer is a value of 1, 2, 4 *)
(* or 8 bytes or a buffer; in and out of a value make the same accesses.  *)
(* An access is what reaches the bus: an address and the bytes of the     *)
(* transfer that go there or come from there, by their position.          *)
(***************************************************************************)
EXTENDS Integers, Sequences

CONSTANT Ports    \* how many port numbers there are, 2^16 in the code

ASSUME PortIoAssumption == Ports \in Nat \ {0}

Access(at, first, size) == [at |-> at, first |-> first, size |-> size]

Refused == [bus |-> <<>>, ok |-> FALSE]
Reached(access) == [bus |-> <<access>>, ok |-> TRUE]

(* try$: what comes second happens only if the first went well. *)
Try(first, second) ==
    IF first.ok THEN [bus |-> first.bus \o second.bus, ok |-> second.ok] ELSE first

(* A port number is a u16, an address of memory a usize. *)
Addr(io, offset) ==
    IF io.kind = "port" THEN (io.range.start + offset) % Ports
    ELSE io.range.start + offset

InRange(io, addr) == addr \in io.range.start .. io.range.start + io.range.size - 1

Narrow(io, offset, first, size) ==
    IF InRange(io, Addr(io, offset)) /\ size \in {1, 2, 4, 8}
    THEN Reached(Access(Addr(io, offset), first, size)) ELSE Refused

(* A 64-bit port access is two calls of in32 or out32, with the absolute    *)
(* port for an offset.                                                      *)
Wide(io, offset) ==
    LET addr == Addr(io, offset)
    IN  IF InRange(io, addr)
        THEN Try(Narrow(io, addr, 0, 4), Narrow(io, addr + 4, 4, 4)) ELSE Refused

Single(io, offset, size) ==
    IF io.kind = "port" /\ size = 8 THEN Wide(io, offset) ELSE Narrow(io, offset, 0, size)

Nothing == [bus |-> <<>>, ok |-> TRUE]

(* Mutant: the result of a byte is not looked at. *)
BytewiseBlind(io, offset, len) ==
    LET done[n \in Nat] ==
          IF n = 0 THEN Nothing
          ELSE [bus |-> done[n - 1].bus \o Narrow(io, offset + n - 1, n - 1, 1).bus, ok |-> TRUE]
    IN  done[len]

(* Io::read and Io::write, which RawPortIo inherits: done[n] after n bytes. *)
Bytewise(io, offset, len) ==
    LET done[n \in Nat] ==
          IF n = 0 THEN Nothing ELSE Try(done[n - 1], Narrow(io, offset + n - 1, n - 1, 1))
    IN  done[len]

(* RawDmaIo has its own: the first address is checked, then all are used. *)
DmaBuffer(io, offset, len) ==
    IF InRange(io, Addr(io, offset))
    THEN [bus |-> [i \in 1 .. len |-> Access(Addr(io, offset) + i - 1, i - 1, 1)], ok |-> TRUE]
    ELSE Refused

Buffer(io, offset, len) ==
    IF io.kind = "port" THEN Bytewise(io, offset, len) ELSE DmaBuffer(io, offset, len)
=============================================================================
