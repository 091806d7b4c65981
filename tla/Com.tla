--------------------------------- MODULE Com ---------------------------------
(***************************************************************************)
(* The serial port (vaerk-x86_64/com.cpp): a driver that polls, and the   *)
(* 16550 it talks to, which shifts bytes out and takes bytes in at its    *)
(* own pace between any two register accesses of the driver.  A missing   *)
(* UART answers every read with ones.                                     *)
(*                                                                         *)
(* Bytes are told apart by where they come from, not by their value.      *)
(***************************************************************************)
EXTENDS Integers, Sequences

CONSTANTS
    SpinLimit,   \* SPIN_LIMIT, 100000 in the code
    FifoDepth,   \* bytes the FIFOs of the UART hold, 16 for a 16550
    MaxOut,      \* bound: bytes clients write
    MaxIn,       \* bound: bytes the other end of the line sends
    MaxSetups    \* bound: calls of probe and init

ASSUME ComAssumption ==
    /\ FifoDepth \in Nat \ {0}
    /\ SpinLimit \in Nat /\ SpinLimit >= FifoDepth
    /\ MaxOut \in Nat /\ MaxIn \in Nat /\ MaxSetups \in Nat

Probe   == <<"probe", 0>>     \* 0xAE
Ones    == <<"ones", 0>>      \* 0xFF
Divisor == <<"divisor", 0>>   \* BAUD_DIVISOR
Nothing == <<"nothing", 0>>

VARIABLES
    present,    \* there is a UART behind the ports
    dlab,       \* LINE_CONTROL: DATA addresses the divisor
    loopback,   \* MODEM_CONTROL: what is sent comes back
    fifo,       \* FIFO_CONTROLLER: the FIFOs are enabled
    divisor,    \* the divisor latch
    tx, rx,     \* bytes in the transmitter and receiver FIFOs or registers
    shifting,   \* the byte on its way out
    pc,         \* the next register access of the driver
    spins,      \* i in _waitFor, stale in probe
    left,       \* bytes write has still to put
    result,     \* how the last call ended
    opened,     \* history: init has returned
    cut,        \* history: probe or init found bytes not sent yet
    missed,     \* history: how probes failed to find the UART that is there
    wire, got,  \* history: bytes sent over the line; bytes getByte returned
    written, arrived,  \* history: how many bytes were put, and came in
    setups      \* history: how often probe and init were called

device == <<present, dlab, loopback, fifo, divisor, tx, rx, shifting>>
driver == <<pc, spins, left, result>>
past   == <<opened, cut, missed, wire, got, written, arrived, setups>>
vars   == <<device, driver, past>>

Init ==
    /\ present \in BOOLEAN /\ dlab \in BOOLEAN /\ loopback \in BOOLEAN
    /\ fifo = FALSE
    /\ divisor = Nothing
    /\ tx = <<>> /\ rx = <<>> /\ shifting = Nothing
    /\ pc = "idle" /\ spins = 0 /\ left = 0 /\ result = "none"
    /\ opened = FALSE /\ cut = FALSE /\ missed = {}
    /\ wire = <<>> /\ got = <<>> /\ written = 0 /\ arrived = 0 /\ setups = 0

-----------------------------------------------------------------------------
(* The UART. *)

(* A byte for the receiver; one too many is lost, or overwrites the other.  *)
Received(byte) ==
    IF fifo THEN (IF Len(rx) < FifoDepth THEN Append(rx, byte) ELSE rx) ELSE <<byte>>

LoadShifter ==
    /\ shifting = Nothing /\ tx # <<>>
    /\ shifting' = Head(tx)
    /\ tx' = Tail(tx)
    /\ UNCHANGED <<present, dlab, loopback, fifo, divisor, rx, driver, past>>

ShiftOut ==
    /\ shifting # Nothing
    /\ shifting' = Nothing
    /\ IF loopback THEN rx' = Received(shifting) /\ UNCHANGED wire
       ELSE wire' = Append(wire, shifting) /\ UNCHANGED rx
    /\ UNCHANGED <<present, dlab, loopback, fifo, divisor, tx, driver,
                   opened, cut, missed, got, written, arrived, setups>>

(* The other end of the line, which a UART in loopback does not hear. *)
Arrive ==
    /\ present /\ ~loopback /\ arrived < MaxIn
    /\ arrived' = arrived + 1
    /\ rx' = Received(<<"in", arrived'>>)
    /\ UNCHANGED <<present, dlab, loopback, fifo, divisor, tx, shifting, driver,
                   opened, cut, missed, wire, got, written, setups>>

Uart == LoadShifter \/ ShiftOut \/ Arrive

-----------------------------------------------------------------------------
(* Register accesses. *)

DataReady        == ~present \/ rx # <<>>
TransmitterEmpty == ~present \/ tx = <<>>
Busy             == tx # <<>> \/ shifting # Nothing

DataRead == IF ~present THEN Ones ELSE IF rx = <<>> THEN Nothing ELSE Head(rx)

TakeData == rx' = IF rx = <<>> THEN rx ELSE Tail(rx)

PutData(byte) ==
    IF ~present THEN UNCHANGED <<divisor, tx>>
    ELSE IF dlab THEN divisor' = byte /\ UNCHANGED tx
    ELSE /\ tx' = IF fifo THEN (IF Len(tx) < FifoDepth THEN Append(tx, byte) ELSE tx) ELSE <<byte>>
         /\ UNCHANGED divisor

Goto(where) == pc' = where /\ UNCHANGED <<left, result>>

Return(how) == pc' = "idle" /\ spins' = 0 /\ left' = 0 /\ result' = how

(* Mutant: the loop never gives up. *)
WaitForEver(status, where, late) ==
    IF status THEN Goto(where) /\ spins' = 0 ELSE Goto(pc) /\ UNCHANGED spins

(* One turn of _waitFor; the call goes on at `where`, or at `late` when the *)
(* limit is reached.                                                        *)
WaitFor(status, where, late) ==
    IF status THEN Goto(where) /\ spins' = 0
    ELSE IF spins + 1 < SpinLimit THEN Goto(pc) /\ spins' = spins + 1
    ELSE Goto(late) /\ spins' = 0

-----------------------------------------------------------------------------
(* probe. *)

StartProbe ==
    /\ pc = "idle" /\ setups < MaxSetups
    /\ setups' = setups + 1
    /\ Goto("probe lcr")
    /\ UNCHANGED <<device, spins, opened, cut, missed, wire, got, written, arrived>>

ProbeLineControl ==
    /\ pc = "probe lcr"
    /\ dlab' = FALSE
    /\ Goto("probe loopback")
    /\ UNCHANGED <<present, loopback, fifo, divisor, tx, rx, shifting, spins, past>>

ProbeLoopback ==
    /\ pc = "probe loopback"
    /\ loopback' = present
    /\ Goto("drain") /\ spins' = 0
    /\ cut' = (cut \/ Busy)
    /\ UNCHANGED <<present, dlab, fifo, divisor, tx, rx, shifting,
                   opened, missed, wire, got, written, arrived, setups>>

(* Mutant: what the receiver held is not thrown away. *)
DrainNothing ==
    /\ pc = "drain"
    /\ Goto("send") /\ spins' = 0
    /\ UNCHANGED <<device, past>>

DrainTest ==
    /\ pc = "drain"
    /\ IF spins < SpinLimit /\ DataReady THEN Goto("discard") /\ spins' = spins + 1
       ELSE Goto("send") /\ spins' = 0
    /\ UNCHANGED <<device, past>>

Discard ==
    /\ pc = "discard"
    /\ TakeData
    /\ Goto("drain")
    /\ UNCHANGED <<present, dlab, loopback, fifo, divisor, tx, shifting, spins, past>>

SendProbe ==
    /\ pc = "send"
    /\ PutData(Probe)
    /\ Goto("await")
    /\ UNCHANGED <<present, dlab, loopback, fifo, rx, shifting, spins, past>>

AwaitProbe ==
    /\ pc = "await"
    /\ WaitFor(DataReady, "compare", "restore late")
    /\ UNCHANGED <<device, past>>

CompareProbe ==
    /\ pc = "compare"
    /\ TakeData
    /\ Goto(IF DataRead = Probe THEN "restore found" ELSE "restore other")
    /\ UNCHANGED <<present, dlab, loopback, fifo, divisor, tx, shifting, spins, past>>

(* Mutant: the UART stays in loopback. *)
StayInLoopback ==
    /\ pc \in {"restore found", "restore other", "restore late"}
    /\ Return(IF pc = "restore found" THEN "present" ELSE "absent")
    /\ missed' = IF present /\ pc # "restore found" THEN missed \cup {pc} ELSE missed
    /\ UNCHANGED <<device, opened, cut, wire, got, written, arrived, setups>>

RestoreModemControl ==
    /\ pc \in {"restore found", "restore other", "restore late"}
    /\ loopback' = FALSE
    /\ Return(IF pc = "restore found" THEN "present" ELSE "absent")
    /\ missed' = IF present /\ pc # "restore found" THEN missed \cup {pc} ELSE missed
    /\ UNCHANGED <<present, dlab, fifo, divisor, tx, rx, shifting,
                   opened, cut, wire, got, written, arrived, setups>>

Probing ==
    \/ ProbeLineControl \/ ProbeLoopback \/ DrainTest \/ Discard
    \/ SendProbe \/ AwaitProbe \/ CompareProbe \/ RestoreModemControl
-----------------------------------------------------------------------------
(* init. *)

StartInit ==
    /\ pc = "idle" /\ setups < MaxSetups
    /\ setups' = setups + 1
    /\ Goto("init dlab")
    /\ UNCHANGED <<device, spins, opened, cut, missed, wire, got, written, arrived>>

InitLineControl(from, on, to) ==
    /\ pc = from
    /\ dlab' = on
    /\ Goto(to)
    /\ UNCHANGED <<present, loopback, fifo, divisor, tx, rx, shifting, spins, past>>

(* The low byte of the divisor stands for both. *)
InitDivisor ==
    /\ pc = "init divisor"
    /\ PutData(Divisor)
    /\ Goto("init lcr")
    /\ UNCHANGED <<present, dlab, loopback, fifo, rx, shifting, spins, past>>

InitFifo ==
    /\ pc = "init fifo"
    /\ fifo' = TRUE
    /\ tx' = <<>> /\ rx' = <<>>
    /\ cut' = (cut \/ tx # <<>>)
    /\ Goto("init mcr")
    /\ UNCHANGED <<present, dlab, loopback, divisor, shifting, spins,
                   opened, missed, wire, got, written, arrived, setups>>

InitModemControl ==
    /\ pc = "init mcr"
    /\ loopback' = FALSE
    /\ opened' = TRUE
    /\ Return("ok")
    /\ UNCHANGED <<present, dlab, fifo, divisor, tx, rx, shifting,
                   cut, missed, wire, got, written, arrived, setups>>

Initing ==
    \/ InitLineControl("init dlab", TRUE, "init divisor")
    \/ InitDivisor
    \/ InitLineControl("init lcr", FALSE, "init fifo")
    \/ InitFifo \/ InitModemControl

-----------------------------------------------------------------------------
(* write, putByte and getByte, which clients call once init has returned. *)

StartWrite(n) ==
    /\ pc = "idle" /\ opened
    /\ written + n <= MaxOut
    /\ pc' = "wait write" /\ left' = n
    /\ UNCHANGED <<device, spins, result, past>>

(* Mutant: the byte is put without waiting for the transmitter. *)
WaitWriteNot ==
    /\ pc = "wait write"
    /\ Goto("put")
    /\ UNCHANGED <<device, spins, past>>

WaitWrite ==
    /\ pc = "wait write"
    /\ WaitFor(TransmitterEmpty, "put", "timed out")
    /\ UNCHANGED <<device, past>>

PutByte ==
    /\ pc = "put"
    /\ written' = written + 1
    /\ PutData(<<"out", written'>>)
    /\ IF left > 1 THEN pc' = "wait write" /\ left' = left - 1 /\ UNCHANGED <<spins, result>>
       ELSE Return("ok")
    /\ UNCHANGED <<present, dlab, loopback, fifo, rx, shifting,
                   opened, cut, missed, wire, got, arrived, setups>>

StartGet ==
    /\ pc = "idle" /\ opened
    /\ Goto("wait read")
    /\ UNCHANGED <<device, spins, past>>

WaitRead ==
    /\ pc = "wait read"
    /\ WaitFor(DataReady, "get", "timed out")
    /\ UNCHANGED <<device, past>>

GetByte ==
    /\ pc = "get"
    /\ TakeData
    /\ got' = IF present THEN Append(got, DataRead) ELSE got
    /\ Return("ok")
    /\ UNCHANGED <<present, dlab, loopback, fifo, divisor, tx, shifting,
                   opened, cut, missed, wire, written, arrived, setups>>

TimedOut ==
    /\ pc = "timed out"
    /\ Return("timed out")
    /\ UNCHANGED <<device, past>>

Moving == WaitWrite \/ PutByte \/ WaitRead \/ GetByte \/ TimedOut

Driver == Probing \/ Initing \/ Moving

Client == StartProbe \/ StartInit \/ (\E n \in 1 .. 2 : StartWrite(n)) \/ StartGet

Next == Uart \/ Driver \/ Client

(* The driver keeps executing; the UART may be stuck for ever. *)
Spec == Init /\ [][Next]_vars /\ WF_vars(Driver)

-----------------------------------------------------------------------------
(* Properties. *)

From(origin, bytes) == {i \in DOMAIN bytes : bytes[i][1] = origin}

InOrder(origin, bytes) ==
    \A i, j \in From(origin, bytes) : i < j => bytes[i][2] < bytes[j][2]

InTransmitter == IF shifting = Nothing THEN tx ELSE <<shifting>> \o tx

(* Every byte put is sent, once and in order: what went over the line and   *)
(* what is still in the transmitter are the bytes written, unless a probe   *)
(* or an init was called while some were waiting.                           *)
SentInOrder ==
    LET sent == wire \o InTransmitter
    IN  present /\ ~cut =>
            /\ InOrder("out", sent)
            /\ {sent[i][2] : i \in From("out", sent)} = 1 .. written

(* A probe that answers yes was answered by a UART.  One that answers no    *)
(* although there is one was called while bytes were being sent, or the     *)
(* UART took longer than the spin limit (the NOTE in probe).                *)
ProbeTellsTheTruth ==
    /\ result = "present" => present
    /\ "restore other" \in missed => cut

(* The byte probe sends to itself stays between the driver and the UART:    *)
(* only after a probe that failed can it go out on the line or be read as   *)
(* input.  No byte written is ever read back, unless a probe or an init was *)
(* called while some were waiting.                                          *)
LoopbackStaysInside ==
    /\ missed = {} => From("probe", wire \o got) = {}
    /\ ~cut => From("out", got) = {}

(* getByte never returns before there is a byte to return, and returns what *)
(* came in over the line in the order it came in, without repeating any.    *)
ReadInOrder == From("nothing", got) = {} /\ InOrder("in", got)

(* Bytes go out as they were written and come in as they were sent.         *)
BytesInOrder == SentInOrder /\ ReadInOrder

(* Every call returns, with no UART behind the ports or a stuck one.        *)
CallsReturn == (pc # "idle") ~> (pc = "idle")
=============================================================================
