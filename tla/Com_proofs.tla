----------------------------- MODULE Com_proofs -----------------------------
(***************************************************************************)
(* What clients of the serial port see of the bytes, for every spin       *)
(* limit, depth of the FIFOs and number of calls.                         *)
(***************************************************************************)
EXTENDS Com, TLAPS

-----------------------------------------------------------------------------
(* The inductive invariant. *)

Byte == {Probe} \cup ({"out", "in"} \X Nat)

No(origin, bytes) == \A i \in DOMAIN bytes : bytes[i][1] # origin

Lone(bytes) == \A i, j \in DOMAIN bytes : bytes[i] = Probe /\ bytes[j] = Probe => i = j

(* Where the driver has the UART in loopback. *)
Looped == {"drain", "discard", "send", "await", "compare", "restore found", "restore other", "restore late"}

Places == Looped \cup {"idle", "probe lcr", "probe loopback", "init dlab", "init divisor", "init lcr",
                       "init fifo", "init mcr", "wait write", "put", "wait read", "get", "timed out"}

(* Only what the driver puts is sent, and a missing UART has nothing.       *)
TypeInv ==
    /\ present \in BOOLEAN /\ dlab \in BOOLEAN /\ loopback \in BOOLEAN /\ fifo \in BOOLEAN
    /\ opened \in BOOLEAN /\ cut \in BOOLEAN
    /\ pc \in Places /\ spins \in Nat /\ written \in Nat /\ arrived \in Nat
    /\ tx \in Seq(Byte) /\ rx \in Seq(Byte) /\ wire \in Seq(Byte) /\ got \in Seq(Byte)
    /\ shifting \in Byte \cup {Nothing}
    /\ Len(tx) <= FifoDepth /\ Len(rx) <= FifoDepth
    /\ No("in", tx) /\ No("in", wire) /\ shifting[1] # "in"
    /\ ~present => tx = <<>> /\ rx = <<>> /\ shifting = Nothing

(* What the registers hold, and what is waited for, where the driver is.    *)
PhaseInv ==
    /\ pc = "init divisor" => dlab
    /\ pc \in {"init fifo", "init mcr"} => ~dlab
    /\ pc = "init mcr" => fifo
    /\ opened => fifo /\ (loopback => pc \in Looped) /\ (dlab => pc \in {"init divisor", "init lcr"})
    /\ ~opened => written = 0
    /\ pc \in {"wait write", "put", "wait read", "get"} => opened
    /\ present /\ pc \in Looped => loopback
    /\ present /\ pc = "put" => tx = <<>>
    /\ present /\ pc \in {"get", "compare"} => rx # <<>>
    /\ pc = "restore found" => present
    /\ result = "present" => present
    /\ ~present => missed = {}

(* Draining empties the receiver within the spin limit, so that the first   *)
(* byte to come back is the one probe has sent.                             *)
ProbeInv ==
    present /\ ~cut =>
        /\ pc \in {"drain", "discard", "send"} => tx = <<>> /\ shifting = Nothing
        /\ pc = "drain" => rx = <<>> \/ Len(rx) + spins <= FifoDepth
        /\ pc = "discard" => rx = <<>> \/ Len(rx) + spins <= FifoDepth + 1
        /\ pc = "send" => rx = <<>>
        /\ pc \in {"await", "compare"} =>
              /\ \A i \in DOMAIN tx : tx[i] = Probe
              /\ \A i \in DOMAIN rx : rx[i] = Probe
              /\ shifting \in {Probe, Nothing}
        /\ pc # "restore other" /\ "restore other" \notin missed

(* A probe that waits for its answer has one byte under way, and none is    *)
(* left of one that got it.                                                 *)
EchoInv ==
    missed = {} =>
        /\ No("probe", wire) /\ No("probe", got)
        /\ present /\ pc \notin {"await", "compare", "restore late", "restore other"} =>
              No("probe", tx) /\ No("probe", rx) /\ shifting # Probe
        /\ present /\ pc \in {"await", "compare"} =>
              /\ Lone(tx) /\ Lone(rx)
              /\ No("probe", tx) \/ No("probe", rx)
              /\ shifting = Probe => No("probe", tx) /\ No("probe", rx)

(* What is written is not put, or left, where it would come back.           *)
OutInv ==
    present /\ ~cut =>
        /\ loopback => No("out", tx) /\ shifting[1] # "out"
        /\ No("out", rx)

GotInv == ~cut => No("out", got)

InInv ==
    /\ InOrder("in", rx) /\ InOrder("in", got)
    /\ \A i \in From("in", got), j \in From("in", rx) : got[i][2] < rx[j][2]
    /\ \A j \in From("in", rx) : rx[j][2] <= arrived
    /\ \A j \in From("in", got) : got[j][2] <= arrived

-----------------------------------------------------------------------------
(* Bytes and queues of them. *)

LEMMA Bytes ==
    /\ \A b \in Byte : b[1] \in {"probe", "out", "in"} /\ b[2] \in Nat /\ b # Nothing /\ b # Ones
                       /\ (b[1] = "probe" <=> b = Probe)
    /\ Probe \in Byte /\ \A n \in Nat : <<"out", n>> \in Byte /\ <<"in", n>> \in Byte
    /\ Nothing[1] = "nothing" /\ Nothing # Probe /\ Ones # Probe /\ Nothing # Ones
    /\ Probe[1] = "probe" /\ FifoDepth \in Nat \ {0} /\ SpinLimit \in Nat /\ FifoDepth <= SpinLimit
BY ComAssumption DEF Byte, Probe, Nothing, Ones

LEMMA Numbered ==
    ASSUME NEW n \in Nat
    PROVE  /\ <<"out", n>> \in Byte /\ <<"out", n>>[1] = "out" /\ <<"out", n>>[2] = n
           /\ <<"in", n>> \in Byte /\ <<"in", n>>[1] = "in" /\ <<"in", n>>[2] = n
BY DEF Byte

(* A byte is queued behind the others, lost, or replaces them.              *)
Grown(q, b, r) ==
    /\ r \in Seq(Byte) /\ r # <<>> /\ Len(r) <= FifoDepth
    /\ \A j \in DOMAIN r : (j \in DOMAIN q /\ r[j] = q[j]) \/ (j = Len(r) /\ r[j] = b)
    /\ q = <<>> => r = <<b>>

Shrunk(q, r) ==
    /\ r \in Seq(Byte) /\ Len(r) = Len(q) - 1
    /\ \A j \in DOMAIN r : j + 1 \in DOMAIN q /\ r[j] = q[j + 1]

LEMMA Queued ==
    ASSUME NEW q \in Seq(Byte), Len(q) <= FifoDepth, NEW b \in Byte, NEW on, NEW r,
           r = IF on THEN (IF Len(q) < FifoDepth THEN Append(q, b) ELSE q) ELSE <<b>>
    PROVE  Grown(q, b, r)
<1>1. CASE on /\ Len(q) < FifoDepth
  <2>1. r = Append(q, b) /\ r \in Seq(Byte) /\ Len(r) = Len(q) + 1 /\ DOMAIN r = 1 .. Len(q) + 1
    BY <1>1
  <2>2. \A j \in DOMAIN r : (j \in DOMAIN q /\ r[j] = q[j]) \/ (j = Len(r) /\ r[j] = b)
    BY <2>1
  <2>3. q = <<>> => r = <<b>>
    BY <2>1
  <2> QED BY <1>1, <2>1, <2>2, <2>3, Bytes DEF Grown
<1>2. CASE on /\ ~(Len(q) < FifoDepth)
  BY <1>2, Bytes DEF Grown
<1>3. CASE ~on
  BY <1>3, Bytes DEF Grown
<1> QED BY <1>1, <1>2, <1>3

LEMMA Taken ==
    ASSUME NEW q \in Seq(Byte), q # <<>>
    PROVE  Shrunk(q, Tail(q)) /\ Head(q) = q[1] /\ 1 \in DOMAIN q /\ Head(q) \in Byte
BY DEF Shrunk

LEMMA Added ==
    ASSUME NEW q \in Seq(Byte), NEW b \in Byte
    PROVE  /\ Append(q, b) \in Seq(Byte) /\ Len(Append(q, b)) = Len(q) + 1
           /\ \A j \in 1 .. Len(q) + 1 : Append(q, b)[j] = IF j = Len(q) + 1 THEN b ELSE q[j]
OBVIOUS

(* What the queues keep of a property of all bytes in them.                 *)
LEMMA NoneNew ==
    ASSUME NEW q \in Seq(Byte), NEW b \in Byte, NEW r, NEW origin, No(origin, q)
    PROVE  /\ Grown(q, b, r) /\ b[1] # origin => No(origin, r)
           /\ Shrunk(q, r) => No(origin, r)
           /\ r = Append(q, b) /\ b[1] # origin => No(origin, r)
<1>1. r = Append(q, b) /\ b[1] # origin => No(origin, r)
  BY Added DEF No
<1> QED BY <1>1 DEF Grown, Shrunk, No

-----------------------------------------------------------------------------
(* What the registers do. *)

LEMMA Putting ==
    ASSUME TypeInv, NEW b \in Byte, PutData(b)
    PROVE  /\ ~present \/ dlab => tx' = tx
           /\ present /\ ~dlab => Grown(tx, b, tx')
BY Queued DEF TypeInv, PutData

LEMMA Taking ==
    ASSUME TypeInv, TakeData
    PROVE  /\ rx = <<>> => rx' = rx
           /\ rx # <<>> => Shrunk(rx, rx') /\ rx[1] = Head(rx) /\ 1 \in DOMAIN rx /\ rx[1] \in Byte
BY Taken DEF TypeInv, TakeData

LEMMA Receiving ==
    ASSUME TypeInv, NEW b \in Byte, rx' = Received(b)
    PROVE  Grown(rx, b, rx')
BY Queued DEF TypeInv, Received

-----------------------------------------------------------------------------
(* The invariant holds. *)

LEMMA StartsWell == Init => TypeInv /\ PhaseInv /\ ProbeInv /\ EchoInv /\ OutInv /\ GotInv /\ InInv
<1> SUFFICES ASSUME Init PROVE TypeInv /\ PhaseInv /\ ProbeInv /\ EchoInv /\ OutInv /\ GotInv /\ InInv
  OBVIOUS
<1>1. TypeInv
  <2>1. <<>> \in Seq(Byte) /\ Len(<<>>) = 0 /\ \A origin : No(origin, <<>>)
    BY DEF No
  <2>2. Nothing[1] # "in" /\ "idle" \in Places
    BY Bytes DEF Places
  <2>3. /\ present \in BOOLEAN /\ dlab \in BOOLEAN /\ loopback \in BOOLEAN
        /\ fifo = FALSE /\ opened = FALSE /\ cut = FALSE
    BY DEF Init
  <2>4. pc = "idle" /\ spins = 0 /\ written = 0 /\ arrived = 0
    BY DEF Init
  <2>5. tx = <<>> /\ rx = <<>> /\ wire = <<>> /\ got = <<>> /\ shifting = Nothing
    BY DEF Init
  <2>6. 0 <= FifoDepth
    BY Bytes
  <2> QED BY <2>1, <2>2, <2>3, <2>4, <2>5, <2>6 DEF TypeInv
<1>2. PhaseInv
  BY DEF Init, PhaseInv, Looped
<1>3. ProbeInv /\ EchoInv /\ OutInv /\ GotInv
  BY Bytes DEF Init, ProbeInv, EchoInv, OutInv, GotInv, No, Looped
<1>4. InInv
  BY DEF Init, InInv, InOrder, From
<1> QED BY <1>1, <1>2, <1>3, <1>4

-----------------------------------------------------------------------------
(* What the steps do to what the invariant is about.                        *)

(* Steps that leave the UART, and what is known of bytes, alone.            *)
Elsewhere ==
    StartProbe \/ DrainTest \/ AwaitProbe \/ StartInit \/ (\E n \in 1 .. 2 : StartWrite(n))
    \/ WaitWrite \/ StartGet \/ WaitRead \/ TimedOut

Moves(from, to) == pc = from /\ pc' = to

LEMMA Waiting ==
    ASSUME spins \in Nat, NEW status \in BOOLEAN, NEW where, NEW late, WaitFor(status, where, late)
    PROVE  /\ result' = result /\ spins' \in Nat
           /\ (pc' = where /\ status) \/ pc' \in {pc, late}
<1>1. CASE status
  BY <1>1 DEF WaitFor, Goto
<1>2. CASE ~status /\ spins + 1 < SpinLimit
  BY <1>2 DEF WaitFor, Goto
<1>3. CASE ~status /\ ~(spins + 1 < SpinLimit)
  BY <1>3 DEF WaitFor, Goto
<1> QED BY <1>1, <1>2, <1>3

LEMMA ElsewhereMoves ==
    ASSUME Elsewhere, TypeInv
    PROVE  /\ UNCHANGED <<present, dlab, loopback, fifo, tx, rx, shifting>>
           /\ UNCHANGED <<opened, cut, missed, wire, got, written, arrived>>
           /\ spins' \in Nat /\ (result' = result \/ result' = "timed out")
           /\ \/ Moves("idle", "probe lcr") \/ Moves("idle", "init dlab")
              \/ opened /\ Moves("idle", "wait write")
              \/ opened /\ Moves("idle", "wait read")
              \/ Moves("drain", "discard") /\ spins < SpinLimit /\ DataReady /\ spins' = spins + 1
              \/ Moves("drain", "send") /\ ~(spins < SpinLimit /\ DataReady)
              \/ Moves("await", "compare") /\ DataReady
              \/ Moves("await", "await") \/ Moves("await", "restore late")
              \/ Moves("wait write", "put") /\ TransmitterEmpty
              \/ Moves("wait write", "wait write") \/ Moves("wait write", "timed out")
              \/ Moves("wait read", "get") /\ DataReady
              \/ Moves("wait read", "wait read") \/ Moves("wait read", "timed out")
              \/ Moves("timed out", "idle")
<1> spins \in Nat /\ DataReady \in BOOLEAN /\ TransmitterEmpty \in BOOLEAN
  BY DEF TypeInv, DataReady, TransmitterEmpty
<1>1. CASE StartProbe
  BY <1>1 DEF StartProbe, Goto, device, Moves
<1>2. CASE DrainTest
  <2>1. UNCHANGED device /\ UNCHANGED past /\ result' = result /\ pc = "drain"
    BY <1>2 DEF DrainTest, Goto
  <2>2. CASE spins < SpinLimit /\ DataReady
    <3>1. pc' = "discard" /\ spins' = spins + 1
      BY <1>2, <2>2 DEF DrainTest, Goto
    <3> QED BY <2>1, <2>2, <3>1 DEF device, past, Moves
  <2>3. CASE ~(spins < SpinLimit /\ DataReady)
    <3>1. pc' = "send" /\ spins' = 0
      BY <1>2, <2>3 DEF DrainTest, Goto
    <3> QED BY <2>1, <2>3, <3>1 DEF device, past, Moves
  <2> QED BY <2>2, <2>3
<1>3. CASE AwaitProbe
  <2>1. UNCHANGED device /\ UNCHANGED past /\ pc = "await" /\ WaitFor(DataReady, "compare", "restore late")
    BY <1>3 DEF AwaitProbe
  <2>2. /\ result' = result /\ spins' \in Nat
        /\ (pc' = "compare" /\ DataReady) \/ pc' \in {"await", "restore late"}
    BY <2>1, Waiting
  <2> QED BY <2>1, <2>2 DEF device, past, Moves
<1>4. CASE StartInit
  BY <1>4 DEF StartInit, Goto, device, Moves
<1>5. CASE \E n \in 1 .. 2 : StartWrite(n)
  BY <1>5 DEF StartWrite, device, past, Moves
<1>6. CASE WaitWrite
  <2>1. UNCHANGED device /\ UNCHANGED past /\ pc = "wait write" /\ WaitFor(TransmitterEmpty, "put", "timed out")
    BY <1>6 DEF WaitWrite
  <2>2. /\ result' = result /\ spins' \in Nat
        /\ (pc' = "put" /\ TransmitterEmpty) \/ pc' \in {"wait write", "timed out"}
    BY <2>1, Waiting
  <2> QED BY <2>1, <2>2 DEF device, past, Moves
<1>7. CASE StartGet
  BY <1>7 DEF StartGet, Goto, device, past, Moves
<1>8. CASE WaitRead
  <2>1. UNCHANGED device /\ UNCHANGED past /\ pc = "wait read" /\ WaitFor(DataReady, "get", "timed out")
    BY <1>8 DEF WaitRead
  <2>2. /\ result' = result /\ spins' \in Nat
        /\ (pc' = "get" /\ DataReady) \/ pc' \in {"wait read", "timed out"}
    BY <2>1, Waiting
  <2> QED BY <2>1, <2>2 DEF device, past, Moves
<1>9. CASE TimedOut
  BY <1>9 DEF TimedOut, Return, device, past, Moves
<1> QED BY <1>1, <1>2, <1>3, <1>4, <1>5, <1>6, <1>7, <1>8, <1>9 DEF Elsewhere

(* Steps that write registers but DATA and FIFO_CONTROLLER.                 *)
Setting ==
    ProbeLineControl \/ ProbeLoopback \/ RestoreModemControl \/ InitModemControl \/ InitDivisor
    \/ InitLineControl("init dlab", TRUE, "init divisor") \/ InitLineControl("init lcr", FALSE, "init fifo")

LEMMA SettingMoves ==
    ASSUME Setting, TypeInv, PhaseInv
    PROVE  /\ UNCHANGED <<present, fifo, tx, rx, shifting>>
           /\ UNCHANGED <<wire, got, written, arrived>>
           /\ spins' \in Nat
           /\ pc # "probe loopback" => cut' = cut
           /\ \/ missed' = missed
              \/ present /\ pc \in {"restore other", "restore late"} /\ missed' = missed \cup {pc}
           /\ \/ /\ Moves("probe lcr", "probe loopback") /\ dlab' = FALSE
                 /\ UNCHANGED <<loopback, opened, result>>
              \/ /\ Moves("probe loopback", "drain") /\ loopback' = present /\ spins' = 0
                 /\ cut' = (cut \/ Busy)
                 /\ UNCHANGED <<dlab, opened, result>>
              \/ /\ pc \in {"restore found", "restore other", "restore late"} /\ pc' = "idle"
                 /\ loopback' = FALSE
                 /\ result' = (IF pc = "restore found" THEN "present" ELSE "absent")
                 /\ missed' = (IF present /\ pc # "restore found" THEN missed \cup {pc} ELSE missed)
                 /\ UNCHANGED <<dlab, opened>>
              \/ /\ Moves("init mcr", "idle") /\ loopback' = FALSE /\ opened' = TRUE /\ result' = "ok"
                 /\ UNCHANGED dlab
              \/ Moves("init divisor", "init lcr") /\ UNCHANGED <<dlab, loopback, opened, result>>
              \/ /\ Moves("init dlab", "init divisor") /\ dlab' = TRUE
                 /\ UNCHANGED <<loopback, opened, result>>
              \/ /\ Moves("init lcr", "init fifo") /\ dlab' = FALSE
                 /\ UNCHANGED <<loopback, opened, result>>
<1> spins \in Nat
  BY DEF TypeInv
<1>1. CASE ProbeLineControl
  BY <1>1 DEF ProbeLineControl, Goto, past, Moves
<1>2. CASE ProbeLoopback
  BY <1>2 DEF ProbeLoopback, Goto, Moves
<1>3. CASE RestoreModemControl
  BY <1>3 DEF RestoreModemControl, Return, Moves
<1>4. CASE InitModemControl
  BY <1>4 DEF InitModemControl, Return, Moves
<1>5. CASE InitDivisor
  <2>1. dlab
    BY <1>5 DEF InitDivisor, PhaseInv
  <2>2. UNCHANGED tx
    BY <1>5, <2>1 DEF InitDivisor, PutData
  <2> QED BY <1>5, <2>2 DEF InitDivisor, Goto, past, Moves
<1>6. CASE InitLineControl("init dlab", TRUE, "init divisor")
  BY <1>6 DEF InitLineControl, Goto, past, Moves
<1>7. CASE InitLineControl("init lcr", FALSE, "init fifo")
  BY <1>7 DEF InitLineControl, Goto, past, Moves
<1> QED BY <1>1, <1>2, <1>3, <1>4, <1>5, <1>6, <1>7 DEF Setting

(* Steps that read DATA. *)
Reading == Discard \/ CompareProbe \/ GetByte

LEMMA ReadingMoves ==
    ASSUME Reading, TypeInv, PhaseInv
    PROVE  /\ UNCHANGED <<present, dlab, loopback, fifo, opened, cut, missed>>
           /\ UNCHANGED <<tx, shifting, wire, written, arrived>>
           /\ spins' \in Nat /\ pc' \in Places
           /\ rx = <<>> => rx' = rx
           /\ rx # <<>> => Shrunk(rx, rx') /\ rx[1] = Head(rx) /\ 1 \in DOMAIN rx /\ rx[1] \in Byte
           /\ \/ Moves("discard", "drain") /\ UNCHANGED <<spins, result, got>>
              \/ /\ pc = "compare" /\ UNCHANGED <<result, got>>
                 /\ pc' = (IF DataRead = Probe THEN "restore found" ELSE "restore other")
              \/ /\ Moves("get", "idle") /\ result' = "ok" /\ opened
                 /\ ~present => got' = got
                 /\ present => rx # <<>> /\ got' = Append(got, rx[1])
<1> spins \in Nat
  BY DEF TypeInv
<1> TakeData
  BY DEF Reading, Discard, CompareProbe, GetByte
<1>0. /\ rx = <<>> => rx' = rx
      /\ rx # <<>> => Shrunk(rx, rx') /\ rx[1] = Head(rx) /\ 1 \in DOMAIN rx /\ rx[1] \in Byte
  BY Taking
<1>1. CASE Discard
  BY <1>0, <1>1 DEF Discard, Goto, past, Moves, Places, Looped
<1>2. CASE CompareProbe
  BY <1>0, <1>2 DEF CompareProbe, Goto, past, Places, Looped
<1>3. CASE GetByte
  <2>1. present => rx # <<>> /\ DataRead = rx[1]
    BY <1>0, <1>3 DEF GetByte, PhaseInv, DataRead
  <2>2. opened
    BY <1>3 DEF GetByte, PhaseInv
  <2> QED BY <1>0, <1>3, <2>1, <2>2 DEF GetByte, Return, Moves, Places
<1> QED BY <1>1, <1>2, <1>3 DEF Reading

(* Steps that write DATA, with DLAB off once init has returned.             *)
Writing == SendProbe \/ PutByte

LEMMA WritingMoves ==
    ASSUME Writing, TypeInv, PhaseInv
    PROVE  /\ UNCHANGED <<present, dlab, loopback, fifo, opened, cut, missed>>
           /\ UNCHANGED <<rx, shifting, wire, got, arrived>>
           /\ spins' \in Nat /\ pc' \in Places /\ (result' = result \/ result' = "ok")
           /\ ~present \/ dlab => tx' = tx
           /\ \/ /\ Moves("send", "await") /\ UNCHANGED written
                 /\ present /\ ~dlab => Grown(tx, Probe, tx')
              \/ /\ pc = "put" /\ pc' \in {"wait write", "idle"} /\ opened /\ ~dlab /\ ~(present /\ loopback)
                 /\ written' = written + 1
                 /\ present => tx = <<>> /\ Grown(tx, <<"out", written'>>, tx')
<1> spins \in Nat /\ written \in Nat
  BY DEF TypeInv
<1>1. CASE SendProbe
  <2>1. PutData(Probe) /\ Probe \in Byte
    BY <1>1, Bytes DEF SendProbe
  <2>2. (~present \/ dlab => tx' = tx) /\ (present /\ ~dlab => Grown(tx, Probe, tx'))
    BY <2>1, Putting
  <2> QED BY <1>1, <2>2 DEF SendProbe, Goto, past, Moves, Places, Looped
<1>2. CASE PutByte
  <2>1. PutData(<<"out", written'>>) /\ written' = written + 1 /\ <<"out", written'>> \in Byte /\ pc = "put"
    <3>1. PutData(<<"out", written'>>) /\ written' = written + 1 /\ pc = "put"
      BY <1>2 DEF PutByte
    <3>2. written' \in Nat
      BY <3>1
    <3> QED BY <3>1, <3>2, Numbered
  <2>2. (~present \/ dlab => tx' = tx) /\ (present /\ ~dlab => Grown(tx, <<"out", written'>>, tx'))
    BY <2>1, Putting
  <2>3. opened /\ ~dlab /\ (present => tx = <<>>) /\ ~(present /\ loopback)
    BY <2>1 DEF PhaseInv, Looped
  <2>4. UNCHANGED <<present, dlab, loopback, fifo, opened, cut, missed, rx, shifting, wire, got, arrived>>
    BY <1>2 DEF PutByte
  <2>5. spins' \in Nat /\ pc' \in {"wait write", "idle"} /\ (result' = result \/ result' = "ok")
    <3>1. CASE left > 1
      BY <1>2, <3>1 DEF PutByte
    <3>2. CASE ~(left > 1)
      BY <1>2, <3>2 DEF PutByte, Return
    <3> QED BY <3>1, <3>2
  <2>6. pc' \in Places
    BY <2>5 DEF Places
  <2> QED BY <2>1, <2>2, <2>3, <2>4, <2>5, <2>6
<1> QED BY <1>1, <1>2 DEF Writing

LEMMA ResetMoves ==
    ASSUME InitFifo, TypeInv
    PROVE  /\ UNCHANGED <<present, dlab, loopback, opened, missed, shifting, wire, got, written, arrived>>
           /\ spins' \in Nat /\ UNCHANGED result /\ Moves("init fifo", "init mcr") /\ fifo' = TRUE
           /\ tx' = <<>> /\ rx' = <<>> /\ cut' \in BOOLEAN /\ (cut' <=> cut \/ tx # <<>>)
           /\ <<>> \in Seq(Byte) /\ Len(<<>>) <= FifoDepth /\ \A origin : No(origin, <<>>)
<1>1. <<>> \in Seq(Byte) /\ Len(<<>>) <= FifoDepth /\ \A origin : No(origin, <<>>)
  BY Bytes DEF No
<1>2. cut' = (cut \/ tx # <<>>) /\ spins \in Nat
  BY DEF InitFifo, TypeInv
<1> QED BY <1>1, <1>2 DEF InitFifo, Goto, Moves

(* The UART's own steps. *)
LEMMA LoadMoves ==
    ASSUME LoadShifter, TypeInv
    PROVE  /\ UNCHANGED <<present, dlab, loopback, fifo, opened, cut, missed, pc, spins, result>>
           /\ UNCHANGED <<rx, wire, got, written, arrived>>
           /\ present /\ shifting = Nothing /\ shifting' \in Byte
           /\ Shrunk(tx, tx') /\ 1 \in DOMAIN tx /\ shifting' = tx[1] /\ tx # <<>> /\ tx' = Tail(tx)
<1>1. /\ tx \in Seq(Byte) /\ tx # <<>> /\ tx' = Tail(tx) /\ shifting' = Head(tx)
      /\ shifting = Nothing /\ present
  BY DEF LoadShifter, TypeInv
<1>2. Shrunk(tx, tx') /\ shifting' = tx[1] /\ 1 \in DOMAIN tx /\ shifting' \in Byte
  BY <1>1, Taken
<1> QED BY <1>1, <1>2 DEF LoadShifter, driver, past

LEMMA ShiftMoves ==
    ASSUME ShiftOut, TypeInv
    PROVE  /\ UNCHANGED <<present, dlab, loopback, fifo, opened, cut, missed, pc, spins, result>>
           /\ UNCHANGED <<tx, got, written, arrived>>
           /\ present /\ shifting \in Byte /\ shifting' = Nothing /\ shifting # Nothing
           /\ \/ loopback /\ Grown(rx, shifting, rx') /\ wire' = wire
              \/ ~loopback /\ wire' = Append(wire, shifting) /\ rx' = rx
<1>1. shifting \in Byte /\ shifting' = Nothing /\ shifting # Nothing /\ present
  BY DEF ShiftOut, TypeInv
<1>2. \/ loopback /\ Grown(rx, shifting, rx') /\ wire' = wire
      \/ ~loopback /\ wire' = Append(wire, shifting) /\ rx' = rx
  BY <1>1, Receiving DEF ShiftOut
<1> QED BY <1>1, <1>2 DEF ShiftOut, driver

LEMMA ArriveMoves ==
    ASSUME Arrive, TypeInv
    PROVE  /\ UNCHANGED <<present, dlab, loopback, fifo, opened, cut, missed, pc, spins, result>>
           /\ UNCHANGED <<tx, shifting, wire, got, written>>
           /\ present /\ ~loopback /\ arrived' = arrived + 1 /\ arrived' \in Nat
           /\ Grown(rx, <<"in", arrived'>>, rx')
<1>1. /\ arrived \in Nat /\ arrived' = arrived + 1 /\ arrived' \in Nat /\ rx' = Received(<<"in", arrived'>>)
  BY DEF Arrive, TypeInv
<1>2. Grown(rx, <<"in", arrived'>>, rx')
  BY <1>1, Receiving, Numbered
<1> QED BY <1>1, <1>2 DEF Arrive, driver

LEMMA Kinds ==
    ASSUME [Next]_vars
    PROVE  UNCHANGED vars \/ Elsewhere \/ Setting \/ Reading \/ Writing \/ InitFifo
           \/ LoadShifter \/ ShiftOut \/ Arrive
BY DEF Next, Uart, Driver, Client, Probing, Initing, Moving, Elsewhere, Setting, Reading, Writing

LEMMA Still ==
    ASSUME UNCHANGED vars
    PROVE  /\ UNCHANGED <<present, dlab, loopback, fifo, opened, cut, missed, pc, spins, result>>
           /\ UNCHANGED <<tx, rx, shifting, wire, got, written, arrived>>
BY DEF vars, device, driver, past

LEMMA TypeStep == ASSUME TypeInv, PhaseInv, [Next]_vars PROVE TypeInv'
<1>1. CASE UNCHANGED vars
  BY <1>1, Still DEF TypeInv
<1>2. CASE LoadShifter
  <2>1. No("in", tx') /\ shifting'[1] # "in"
    BY <1>2, LoadMoves, NoneNew DEF No, TypeInv
  <2>2. tx' \in Seq(Byte) /\ Len(tx') <= FifoDepth
    BY <1>2, LoadMoves, Bytes DEF Shrunk, TypeInv
  <2> QED BY <1>2, LoadMoves, <2>1, <2>2 DEF TypeInv
<1>3. CASE ShiftOut
  <2>1. Nothing[1] # "in" /\ shifting[1] # "in" /\ wire \in Seq(Byte) /\ No("in", wire)
    BY Bytes DEF TypeInv
  <2>2. rx' \in Seq(Byte) /\ Len(rx') <= FifoDepth
    BY <1>3, ShiftMoves DEF Grown, TypeInv
  <2>3. No("in", wire') /\ wire' \in Seq(Byte)
    BY <1>3, <2>1, ShiftMoves, NoneNew, Added
  <2> QED BY <1>3, <2>1, <2>2, <2>3, ShiftMoves DEF TypeInv
<1>4. CASE Arrive
  <2>1. rx' \in Seq(Byte) /\ Len(rx') <= FifoDepth
    BY <1>4, ArriveMoves DEF Grown
  <2> QED BY <1>4, <2>1, ArriveMoves DEF TypeInv
<1>5. ASSUME UNCHANGED <<present, tx, rx, shifting, wire, got, arrived>>,
             /\ dlab' \in BOOLEAN /\ loopback' \in BOOLEAN /\ fifo' \in BOOLEAN
             /\ opened' \in BOOLEAN /\ cut' \in BOOLEAN
             /\ pc' \in Places /\ spins' \in Nat /\ written' \in Nat
      PROVE  TypeInv'
  BY <1>5 DEF TypeInv
<1>6. CASE Elsewhere
  <2>1. /\ UNCHANGED <<present, tx, rx, shifting, wire, got, arrived, written>>
        /\ UNCHANGED <<dlab, loopback, fifo, opened, cut>>
        /\ pc' \in Places /\ spins' \in Nat
    BY <1>6, ElsewhereMoves DEF Moves, Places, Looped
  <2> QED BY <1>5, <2>1 DEF TypeInv
<1>7. CASE Setting
  <2>1. /\ UNCHANGED <<present, tx, rx, shifting, wire, got, arrived, written, fifo>>
        /\ pc' \in Places /\ spins' \in Nat
    BY <1>7, SettingMoves DEF Moves, Places, Looped
  <2>2. dlab' \in BOOLEAN /\ loopback' \in BOOLEAN /\ opened' \in BOOLEAN
    BY <1>7, SettingMoves DEF TypeInv
  <2>3. cut' \in BOOLEAN
    <3>1. cut \in BOOLEAN /\ (cut \/ Busy) \in BOOLEAN
      BY DEF TypeInv, Busy
    <3> QED BY <1>7, <3>1, SettingMoves DEF Moves
  <2> QED BY <1>5, <2>1, <2>2, <2>3 DEF TypeInv
<1>8. CASE Reading
  <2>0. rx \in Seq(Byte) /\ Len(rx) <= FifoDepth /\ got \in Seq(Byte) /\ (~present => rx = <<>>)
    BY DEF TypeInv
  <2>a. rx' = rx \/ Shrunk(rx, rx')
    BY <1>8, ReadingMoves
  <2>b. got' = got \/ (rx # <<>> /\ rx[1] \in Byte /\ got' = Append(got, rx[1]))
    BY <1>8, ReadingMoves
  <2>1. rx' \in Seq(Byte) /\ Len(rx') <= FifoDepth /\ (~present => rx' = <<>>)
    <3>1. present' = present /\ FifoDepth \in Nat /\ (rx = <<>> => rx' = rx)
      BY <1>8, ReadingMoves, Bytes
    <3> QED BY <2>0, <2>a, <3>1 DEF Shrunk
  <2>2. got' \in Seq(Byte)
    BY <2>0, <2>b, Added
  <2> QED BY <1>8, ReadingMoves, <2>1, <2>2 DEF TypeInv
<1>9. CASE Writing
  <2>0. written \in Nat
    BY DEF TypeInv
  <2>1. written' \in Nat
    <3>1. written' = written \/ written' = written + 1
      BY <1>9, WritingMoves, Zenon
    <3> QED BY <2>0, <3>1
  <2>2. \/ tx' = tx
        \/ present /\ Grown(tx, Probe, tx')
        \/ present /\ Grown(tx, <<"out", written'>>, tx')
    BY <1>9, WritingMoves, Zenon
  <2>3. Probe \in Byte /\ Probe[1] # "in" /\ <<"out", written'>> \in Byte /\ <<"out", written'>>[1] # "in"
    BY <2>1, Bytes, Numbered
  <2>4. tx \in Seq(Byte) /\ Len(tx) <= FifoDepth /\ No("in", tx) /\ (~present => tx = <<>>)
    BY DEF TypeInv
  <2>5. tx' \in Seq(Byte) /\ Len(tx') <= FifoDepth /\ No("in", tx') /\ (~present => tx' = <<>>)
    BY <2>2, <2>3, <2>4, NoneNew DEF Grown
  <2> QED BY <1>9, WritingMoves, <2>1, <2>5 DEF TypeInv
<1>10. CASE InitFifo
  <2>1. "init mcr" \in Places
    BY DEF Places
  <2> QED BY <1>10, <2>1, ResetMoves DEF TypeInv, Moves
<1> QED BY <1>1, <1>2, <1>3, <1>4, <1>6, <1>7, <1>8, <1>9, <1>10, Kinds

LEMMA PhaseStep == ASSUME TypeInv, PhaseInv, [Next]_vars PROVE PhaseInv'
<1> /\ present \in BOOLEAN /\ dlab \in BOOLEAN /\ loopback \in BOOLEAN /\ fifo \in BOOLEAN
    /\ opened \in BOOLEAN
  BY DEF TypeInv
<1>1. ASSUME UNCHANGED <<present, dlab, loopback, fifo, opened, pc, result, written>>,
             tx = <<>> => tx' = <<>>, rx # <<>> => rx' # <<>>, missed' = missed
      PROVE  PhaseInv'
  BY <1>1 DEF PhaseInv
<1>2. CASE UNCHANGED vars \/ LoadShifter \/ ShiftOut \/ Arrive
  <2>1. UNCHANGED <<present, dlab, loopback, fifo, opened, pc, result, written, missed>>
    BY <1>2, Still, LoadMoves, ShiftMoves, ArriveMoves
  <2>2. tx = <<>> => tx' = <<>>
    BY <1>2, Still, LoadMoves, ShiftMoves, ArriveMoves
  <2>3. rx # <<>> => rx' # <<>>
    <3>1. rx' = rx \/ Grown(rx, shifting, rx') \/ Grown(rx, <<"in", arrived'>>, rx')
      BY <1>2, Still, LoadMoves, ShiftMoves, ArriveMoves, Zenon
    <3> QED BY <3>1 DEF Grown
  <2> QED BY <1>1, <2>1, <2>2, <2>3
<1>5. CASE Elsewhere
  <2>1. UNCHANGED <<present, dlab, loopback, fifo, tx, rx, opened, written, missed>>
    BY <1>5, ElsewhereMoves
  <2>2. result' = result \/ result' = "timed out"
    BY <1>5, ElsewhereMoves
  <2>3. \/ /\ pc \in {"idle", "wait write", "wait read", "timed out"}
           /\ pc' \in {"probe lcr", "init dlab", "idle", "timed out"}
        \/ opened /\ pc = "idle" /\ pc' \in {"wait write", "wait read"}
        \/ pc \in {"drain", "await"} /\ pc' \in {"discard", "send", "await", "restore late"}
        \/ pc = "await" /\ pc' = "compare" /\ DataReady
        \/ pc = "wait write" /\ pc' \in {"put", "wait write"} /\ (pc' = "put" => TransmitterEmpty)
        \/ pc = "wait read" /\ pc' \in {"get", "wait read"} /\ (pc' = "get" => DataReady)
    BY <1>5, ElsewhereMoves DEF Moves
  <2>4. ASSUME UNCHANGED <<present, dlab, loopback, fifo, tx, rx, opened, written, missed>>,
               result' = result \/ result' = "timed out",
               pc \notin {"init divisor", "init lcr"},
               pc' \notin {"init divisor", "init lcr", "init fifo", "init mcr", "restore found"},
               pc \in Looped <=> pc' \in Looped,
               pc' \in {"wait write", "put", "wait read", "get"} => opened,
               present /\ pc' = "put" => tx = <<>>,
               present /\ pc' \in {"get", "compare"} => rx # <<>>
        PROVE  PhaseInv'
    BY <2>4 DEF PhaseInv
  <2>5. CASE pc \in {"idle", "wait write", "wait read", "timed out"}
    <3>1. pc \notin Looped /\ pc \notin {"init divisor", "init lcr"}
      BY <2>5 DEF Looped
    <3>2. /\ pc' \notin Looped
          /\ pc' \notin {"init divisor", "init lcr", "init fifo", "init mcr", "restore found", "compare"}
          /\ pc' \in {"wait write", "put", "wait read", "get"} => opened
          /\ pc' = "put" => TransmitterEmpty
          /\ pc' = "get" => DataReady
      BY <2>3, <2>5 DEF PhaseInv, Looped
    <3>3. "compare" \in Looped
      BY DEF Looped
    <3> QED BY <2>1, <2>2, <2>4, <3>1, <3>2, <3>3 DEF DataReady, TransmitterEmpty
  <2>6. CASE pc \in {"drain", "await"}
    <3>1. pc \in Looped /\ pc \notin {"init divisor", "init lcr"}
      BY <2>6 DEF Looped
    <3>2. pc' \in {"discard", "send", "await", "restore late"} \/ (pc' = "compare" /\ DataReady)
      BY <2>3, <2>6
    <3>3. /\ pc' \in Looped
          /\ pc' \notin {"init divisor", "init lcr", "init fifo", "init mcr", "restore found"}
          /\ pc' \notin {"wait write", "put", "wait read", "get"}
      BY <3>2 DEF Looped
    <3> QED BY <2>1, <2>2, <2>4, <3>1, <3>2, <3>3 DEF DataReady
  <2> QED BY <2>3, <2>5, <2>6
<1>6. CASE Setting
  <2>1. UNCHANGED <<present, fifo, tx, rx, written>> /\ (~present => missed' = missed)
    BY <1>6, SettingMoves
  <2>2. \/ pc = "probe lcr" /\ pc' = "probe loopback" /\ dlab' = FALSE /\ UNCHANGED <<loopback, opened, result>>
        \/ /\ pc = "probe loopback" /\ pc' = "drain" /\ loopback' = present
           /\ UNCHANGED <<dlab, opened, result>>
        \/ /\ pc \in Looped /\ pc' = "idle" /\ loopback' = FALSE /\ UNCHANGED <<dlab, opened>>
           /\ result' = (IF pc = "restore found" THEN "present" ELSE "absent")
        \/ /\ pc = "init mcr" /\ pc' = "idle" /\ loopback' = FALSE /\ opened' = TRUE /\ result' = "ok"
           /\ UNCHANGED dlab
        \/ pc = "init divisor" /\ pc' = "init lcr" /\ UNCHANGED <<dlab, loopback, opened, result>>
        \/ pc = "init dlab" /\ pc' = "init divisor" /\ dlab' = TRUE /\ UNCHANGED <<loopback, opened, result>>
        \/ pc = "init lcr" /\ pc' = "init fifo" /\ dlab' = FALSE /\ UNCHANGED <<loopback, opened, result>>
    BY <1>6, SettingMoves DEF Moves, Looped
  <2>3. CASE pc = "probe lcr" \/ pc = "init lcr"
    <3>1. pc' \in {"probe loopback", "init fifo"} /\ dlab' = FALSE /\ UNCHANGED <<loopback, opened, result>>
      BY <2>2, <2>3 DEF Looped
    <3>2. opened => ~loopback
      BY <2>3 DEF PhaseInv, Looped
    <3> QED BY <2>1, <3>1, <3>2 DEF PhaseInv, Looped
  <2>4. CASE pc = "probe loopback"
    <3>1. pc' = "drain" /\ loopback' = present /\ UNCHANGED <<dlab, opened, result>>
      BY <2>2, <2>4 DEF Looped
    <3>2. opened => ~dlab
      BY <2>4 DEF PhaseInv
    <3> QED BY <2>1, <3>1, <3>2 DEF PhaseInv, Looped
  <2>5. CASE pc \in Looped
    <3>1. /\ pc' = "idle" /\ loopback' = FALSE /\ UNCHANGED <<dlab, opened>>
          /\ result' = (IF pc = "restore found" THEN "present" ELSE "absent")
          /\ pc \notin {"init divisor", "init lcr"}
      BY <2>2, <2>5 DEF Looped
    <3>2. result' = "present" => present
      BY <3>1 DEF PhaseInv
    <3> QED BY <2>1, <3>1, <3>2 DEF PhaseInv, Looped
  <2>6. CASE pc = "init mcr"
    <3>1. /\ pc' = "idle" /\ loopback' = FALSE /\ opened' = TRUE /\ result' = "ok" /\ UNCHANGED dlab
      BY <2>2, <2>6 DEF Looped
    <3>2. ~dlab /\ fifo
      BY <2>6 DEF PhaseInv
    <3> QED BY <2>1, <3>1, <3>2 DEF PhaseInv, Looped
  <2>7. CASE pc = "init divisor" \/ pc = "init dlab"
    <3>1. pc' \in {"init divisor", "init lcr"} /\ UNCHANGED <<loopback, opened, result>>
      BY <2>2, <2>7 DEF Looped
    <3>2. pc' = "init divisor" => dlab'
      BY <2>2, <2>7 DEF Looped
    <3>3. opened => ~loopback
      BY <2>7 DEF PhaseInv, Looped
    <3> QED BY <2>1, <3>1, <3>2, <3>3 DEF PhaseInv, Looped
  <2> QED BY <2>2, <2>3, <2>4, <2>5, <2>6, <2>7
<1>7. CASE Reading
  <2>1. pc = "compare" /\ DataRead = Probe => present
    BY Bytes DEF DataRead
  <2>2. UNCHANGED <<present, dlab, loopback, fifo, tx, opened, written, missed>>
    BY <1>7, ReadingMoves
  <2>3. \/ pc = "discard" /\ pc' = "drain" /\ result' = result
        \/ /\ pc = "compare" /\ result' = result
           /\ pc' \in {"restore found", "restore other"} /\ (pc' = "restore found" => present)
        \/ pc = "get" /\ pc' = "idle" /\ result' = "ok" /\ opened
    BY <1>7, <2>1, ReadingMoves DEF Moves
  <2> QED BY <2>2, <2>3 DEF PhaseInv, Looped
<1>8. CASE Writing
  <2>1. \/ Moves("send", "await") /\ UNCHANGED written
        \/ pc = "put" /\ pc' \in {"wait write", "idle"} /\ opened /\ ~dlab /\ ~(present /\ loopback)
    BY <1>8, WritingMoves, Zenon
  <2>2. UNCHANGED <<present, dlab, loopback, fifo, opened, rx, missed>> /\ (result' = result \/ result' = "ok")
    BY <1>8, WritingMoves
  <2> QED BY <2>1, <2>2 DEF PhaseInv, Moves, Looped
<1>9. CASE InitFifo
  <2>1. /\ UNCHANGED <<present, dlab, loopback, opened, written, result, missed>>
        /\ pc = "init fifo" /\ pc' = "init mcr" /\ fifo' = TRUE
    BY <1>9, ResetMoves DEF Moves
  <2> QED BY <2>1 DEF PhaseInv, Looped
<1> QED BY <1>2, <1>5, <1>6, <1>7, <1>8, <1>9, Kinds

LEMMA Forever ==
    ASSUME TypeInv, PhaseInv, [Next]_vars
    PROVE  present' = present /\ (cut => cut') /\ missed \subseteq missed'
<1>1. CASE UNCHANGED vars \/ LoadShifter \/ ShiftOut \/ Arrive \/ Elsewhere \/ Reading \/ Writing
  <2>1. UNCHANGED <<present, cut, missed>>
    BY <1>1, Still, LoadMoves, ShiftMoves, ArriveMoves, ElsewhereMoves, ReadingMoves, WritingMoves
  <2> QED BY <2>1
<1>2. CASE InitFifo
  BY <1>2, ResetMoves
<1>3. CASE Setting
  <2>1. present' = present
    BY <1>3, SettingMoves
  <2>2. cut => cut'
    <3>1. CASE pc = "probe loopback"
      <4>1. cut' = (cut \/ Busy)
        BY <1>3, <3>1, SettingMoves DEF Moves
      <4> QED BY <4>1
    <3>2. CASE pc # "probe loopback"
      BY <1>3, <3>2, SettingMoves
    <3> QED BY <3>1, <3>2
  <2>3. missed \subseteq missed'
    BY <1>3, SettingMoves
  <2> QED BY <2>1, <2>2, <2>3
<1> QED BY <1>1, <1>2, <1>3, Kinds

LEMMA ProbeStep == ASSUME TypeInv, PhaseInv, ProbeInv, [Next]_vars PROVE ProbeInv'
<1> SUFFICES ASSUME present', ~cut'
             PROVE  /\ pc' \in {"drain", "discard", "send"} => tx' = <<>> /\ shifting' = Nothing
                    /\ pc' = "drain" => rx' = <<>> \/ Len(rx') + spins' <= FifoDepth
                    /\ pc' = "discard" => rx' = <<>> \/ Len(rx') + spins' <= FifoDepth + 1
                    /\ pc' = "send" => rx' = <<>>
                    /\ pc' \in {"await", "compare"} =>
                          /\ \A i \in DOMAIN tx' : tx'[i] = Probe
                          /\ \A i \in DOMAIN rx' : rx'[i] = Probe
                          /\ shifting' \in {Probe, Nothing}
                    /\ pc' # "restore other" /\ "restore other" \notin missed'
  BY DEF ProbeInv
<1>a. present /\ ~cut
  BY Forever
<1>b. /\ pc \in {"drain", "discard", "send"} => tx = <<>> /\ shifting = Nothing
      /\ pc = "drain" => rx = <<>> \/ Len(rx) + spins <= FifoDepth
      /\ pc = "discard" => rx = <<>> \/ Len(rx) + spins <= FifoDepth + 1
      /\ pc = "send" => rx = <<>>
      /\ pc \in {"await", "compare"} =>
            /\ \A i \in DOMAIN tx : tx[i] = Probe
            /\ \A i \in DOMAIN rx : rx[i] = Probe
            /\ shifting \in {Probe, Nothing}
      /\ pc # "restore other" /\ "restore other" \notin missed
  BY <1>a DEF ProbeInv
<1>c. pc \in {"drain", "discard", "send", "await", "compare"} => loopback
  BY <1>a DEF PhaseInv, Looped
<1>d. /\ FifoDepth \in Nat \ {0} /\ SpinLimit \in Nat /\ FifoDepth <= SpinLimit
      /\ Len(rx) \in Nat /\ Len(rx) <= FifoDepth /\ spins \in Nat /\ (rx # <<>> => Len(rx) > 0)
  <2>1. rx \in Seq(Byte) /\ Len(rx) <= FifoDepth /\ spins \in Nat
    BY DEF TypeInv
  <2>2. Len(rx) \in Nat /\ (rx # <<>> => Len(rx) > 0)
    BY <2>1
  <2> QED BY <2>1, <2>2, Bytes
<1>1. CASE UNCHANGED vars
  <2>1. UNCHANGED <<tx, rx, shifting, pc, spins, missed>>
    BY <1>1, Still
  <2> QED BY <1>b, <2>1
<1>2. CASE LoadShifter
  <2>1. UNCHANGED <<rx, pc, spins, missed>> /\ tx # <<>> /\ Shrunk(tx, tx') /\ shifting' = tx[1] /\ 1 \in DOMAIN tx
    BY <1>2, LoadMoves
  <2>2. pc \in {"await", "compare"} => \A i \in DOMAIN tx' : tx'[i] = Probe
    BY <1>b, <2>1 DEF Shrunk
  <2> QED BY <1>b, <2>1, <2>2
<1>3. CASE ShiftOut
  <2>1. /\ UNCHANGED <<tx, pc, spins, missed>> /\ shifting # Nothing /\ shifting' = Nothing
        /\ loopback => Grown(rx, shifting, rx')
    BY <1>3, ShiftMoves
  <2>2. pc \notin {"drain", "discard", "send"}
    BY <1>b, <2>1
  <2>3. pc \in {"await", "compare"} => \A i \in DOMAIN rx' : rx'[i] = Probe
    <3> SUFFICES ASSUME pc \in {"await", "compare"}
                 PROVE  \A i \in DOMAIN rx' : rx'[i] = Probe
      OBVIOUS
    <3>1. Grown(rx, Probe, rx') /\ \A i \in DOMAIN rx : rx[i] = Probe
      BY <1>b, <1>c, <2>1
    <3> QED BY <3>1 DEF Grown
  <2> QED BY <1>b, <2>1, <2>2, <2>3
<1>4. CASE Arrive
  <2>1. UNCHANGED <<tx, shifting, pc, spins, missed>> /\ ~loopback
    BY <1>4, ArriveMoves
  <2>2. pc \notin {"drain", "discard", "send", "await", "compare"}
    BY <1>c, <2>1
  <2> QED BY <1>b, <2>1, <2>2
<1>5. CASE Elsewhere
  <2>1. UNCHANGED <<tx, rx, shifting, missed>>
    BY <1>5, ElsewhereMoves
  <2>2. \/ pc' \notin {"drain", "discard", "send", "await", "compare", "restore other"}
        \/ pc = "drain" /\ pc' = "discard" /\ rx # <<>> /\ spins' = spins + 1
        \/ pc = "drain" /\ pc' = "send" /\ (rx = <<>> \/ spins >= SpinLimit)
        \/ pc = "await" /\ pc' \in {"await", "compare"}
    <3>1. \/ pc' \notin {"drain", "discard", "send", "await", "compare", "restore other"}
          \/ pc = "drain" /\ pc' = "discard" /\ DataReady /\ spins' = spins + 1
          \/ pc = "drain" /\ pc' = "send" /\ ~(spins < SpinLimit /\ DataReady)
          \/ pc = "await" /\ pc' \in {"await", "compare"}
      BY <1>5, ElsewhereMoves DEF Moves
    <3>2. (DataReady => rx # <<>>) /\ (~DataReady => rx = <<>>)
      BY <1>a DEF DataReady
    <3>3. ~(spins < SpinLimit) => spins >= SpinLimit
      BY <1>d
    <3> QED BY <3>1, <3>2, <3>3
  <2>3. CASE pc = "drain" /\ pc' = "discard" /\ rx # <<>> /\ spins' = spins + 1
    <3>1. Len(rx') + spins' <= FifoDepth + 1
      <4>1. Len(rx) + spins <= FifoDepth
        BY <1>b, <2>3
      <4>2. Len(rx') = Len(rx) /\ spins' = spins + 1
        BY <2>1, <2>3
      <4> QED BY <1>d, <4>1, <4>2
    <3>2. tx' = <<>> /\ shifting' = Nothing /\ "restore other" \notin missed'
      BY <1>b, <2>1, <2>3
    <3> QED BY <2>3, <3>1, <3>2
  <2>4. CASE pc = "drain" /\ pc' = "send" /\ (rx = <<>> \/ spins >= SpinLimit)
    <3>1. rx = <<>>
      <4>1. rx = <<>> \/ Len(rx) + spins <= FifoDepth
        BY <1>b, <2>4
      <4> QED BY <1>d, <2>4, <4>1
    <3> QED BY <1>b, <2>1, <2>4, <3>1
  <2>5. CASE pc = "await" /\ pc' \in {"await", "compare"}
    BY <1>b, <2>1, <2>5
  <2> QED BY <1>b, <2>1, <2>2, <2>3, <2>4, <2>5
<1>6. CASE Setting
  <2>1. UNCHANGED <<tx, rx, shifting>>
    BY <1>6, SettingMoves
  <2>2. "restore other" \notin missed'
    BY <1>6, <1>b, SettingMoves
  <2>3. pc' \notin {"discard", "send", "await", "compare", "restore other"}
    BY <1>6, SettingMoves DEF Moves
  <2>4. CASE pc' = "drain"
    <3>1. spins' = 0 /\ cut' = (cut \/ Busy)
      BY <1>6, <2>4, SettingMoves DEF Moves
    <3>2. tx = <<>> /\ shifting = Nothing
      BY <3>1 DEF Busy
    <3>3. Len(rx') + spins' <= FifoDepth
      BY <1>d, <2>1, <3>1
    <3> QED BY <2>1, <2>2, <2>4, <3>2, <3>3
  <2> QED BY <2>2, <2>3, <2>4
<1>7. CASE Reading
  <2>1. UNCHANGED <<tx, shifting, missed>>
    BY <1>7, ReadingMoves
  <2>2. \/ pc = "discard" /\ pc' = "drain" /\ spins' = spins
        \/ pc = "compare" /\ pc' = (IF DataRead = Probe THEN "restore found" ELSE "restore other")
        \/ pc = "get" /\ pc' = "idle"
    BY <1>7, ReadingMoves DEF Moves
  <2>3. CASE pc = "discard"
    <3>1. rx' = rx \/ (rx # <<>> /\ Shrunk(rx, rx'))
      BY <1>7, ReadingMoves
    <3>2. rx = <<>> => rx' = rx
      BY <1>7, ReadingMoves
    <3>3. rx # <<>> => Shrunk(rx, rx')
      BY <1>7, ReadingMoves
    <3>4. rx # <<>> => Len(rx') = Len(rx) - 1
      BY <3>3 DEF Shrunk
    <3>5. spins' = spins /\ pc' = "drain" /\ (rx # <<>> => Len(rx) + spins <= FifoDepth + 1)
      BY <1>b, <2>2, <2>3
    <3>6. rx' = <<>> \/ Len(rx') + spins' <= FifoDepth
      BY <1>d, <3>2, <3>4, <3>5
    <3> QED BY <1>b, <2>1, <2>3, <3>5, <3>6
  <2>4. CASE pc = "compare"
    <3>1. rx # <<>> /\ Head(rx) = rx[1] /\ 1 \in DOMAIN rx
      BY <1>a, <1>d, <2>4 DEF PhaseInv
    <3>2. DataRead = Probe
      BY <1>a, <1>b, <2>4, <3>1 DEF DataRead
    <3> QED BY <1>b, <2>1, <2>2, <2>4, <3>2
  <2> QED BY <1>b, <2>1, <2>2, <2>3, <2>4
<1>8. CASE Writing
  <2>1. UNCHANGED <<rx, shifting, missed>>
    BY <1>8, WritingMoves
  <2>2. pc' \in {"wait write", "idle"} \/ (pc = "send" /\ pc' = "await")
    BY <1>8, WritingMoves, Zenon DEF Moves
  <2>3. CASE pc = "send" /\ pc' = "await"
    <3>1. tx' = tx \/ Grown(tx, Probe, tx')
      BY <1>8, <1>a, <2>3, WritingMoves
    <3>2. tx = <<>> /\ rx = <<>> /\ shifting = Nothing
      BY <1>b, <2>3
    <3>3. \A i \in DOMAIN tx' : tx'[i] = Probe
      BY <3>1, <3>2 DEF Grown
    <3>4. \A i \in DOMAIN rx' : rx'[i] = Probe
      BY <2>1, <3>2
    <3> QED BY <1>b, <2>1, <2>3, <3>2, <3>3, <3>4
  <2> QED BY <1>b, <2>1, <2>2, <2>3
<1>9. CASE InitFifo
  <2>1. pc' = "init mcr" /\ UNCHANGED missed
    BY <1>9, ResetMoves DEF Moves
  <2> QED BY <1>b, <2>1
<1> QED BY <1>1, <1>2, <1>3, <1>4, <1>5, <1>6, <1>7, <1>8, <1>9, Kinds

LEMMA LoneKept ==
    ASSUME NEW q \in Seq(Byte), NEW b \in Byte, NEW r
    PROVE  /\ Lone(q) /\ Grown(q, b, r) /\ b # Probe => Lone(r)
           /\ No("probe", q) /\ Grown(q, b, r) => Lone(r)
           /\ Lone(q) /\ Shrunk(q, r) => Lone(r)
           /\ Lone(q) /\ Shrunk(q, r) /\ q # <<>> /\ q[1] = Probe => No("probe", r)
<1>1. Lone(q) /\ Grown(q, b, r) /\ b # Probe => Lone(r)
  BY DEF Lone, Grown
<1>2. No("probe", q) /\ Grown(q, b, r) => Lone(r)
  BY Bytes DEF Lone, Grown, No
<1>3. Lone(q) /\ Shrunk(q, r) => Lone(r)
  BY DEF Lone, Shrunk
<1>4. ASSUME Lone(q), Shrunk(q, r), q # <<>>, q[1] = Probe PROVE No("probe", r)
  <2> SUFFICES ASSUME NEW i \in DOMAIN r, r[i][1] = "probe" PROVE FALSE
    BY DEF No
  <2>1. r \in Seq(Byte) /\ i \in Nat /\ i >= 1 /\ r[i] \in Byte
    BY <1>4 DEF Shrunk
  <2>2. i + 1 \in DOMAIN q /\ q[i + 1] = r[i] /\ 1 \in DOMAIN q
    BY <1>4 DEF Shrunk
  <2>3. q[i + 1] = Probe
    BY <2>1, <2>2, Bytes
  <2> QED BY <1>4, <2>1, <2>2, <2>3 DEF Lone
<1> QED BY <1>1, <1>2, <1>3, <1>4

LEMMA EchoStep == ASSUME TypeInv, PhaseInv, EchoInv, [Next]_vars PROVE EchoInv'
<1> DEFINE Waits == pc \in {"await", "compare"}
           Failed == pc \in {"restore late", "restore other"}
<1> SUFFICES ASSUME missed' = {}
             PROVE  /\ No("probe", wire') /\ No("probe", got')
                    /\ present' /\ ~Waits' /\ ~Failed' => No("probe", tx') /\ No("probe", rx') /\ shifting' # Probe
                    /\ present' /\ Waits' =>
                          /\ Lone(tx') /\ Lone(rx')
                          /\ No("probe", tx') \/ No("probe", rx')
                          /\ shifting' = Probe => No("probe", tx') /\ No("probe", rx')
  BY DEF EchoInv
<1>a. /\ No("probe", wire) /\ No("probe", got)
      /\ present /\ ~Waits /\ ~Failed => No("probe", tx) /\ No("probe", rx) /\ shifting # Probe
      /\ present /\ Waits =>
            /\ Lone(tx) /\ Lone(rx)
            /\ No("probe", tx) \/ No("probe", rx)
            /\ shifting = Probe => No("probe", tx) /\ No("probe", rx)
  <2>1. missed = {}
    BY Forever
  <2> QED BY <2>1 DEF EchoInv
<1>b. /\ tx \in Seq(Byte) /\ rx \in Seq(Byte) /\ wire \in Seq(Byte) /\ got \in Seq(Byte)
      /\ written \in Nat /\ arrived \in Nat
  BY DEF TypeInv
<1>c. present /\ (Waits \/ Failed) => loopback
  BY DEF PhaseInv, Looped
<1>1. CASE UNCHANGED vars
  <2>1. UNCHANGED <<present, pc, tx, rx, shifting, wire, got>>
    BY <1>1, Still
  <2> QED BY <1>a, <2>1
<1>2. CASE LoadShifter
  <2>1. /\ UNCHANGED <<present, pc, rx, wire, got>> /\ tx # <<>> /\ Shrunk(tx, tx') /\ shifting' = tx[1]
        /\ 1 \in DOMAIN tx
    BY <1>2, LoadMoves
  <2>2. No("probe", tx) => No("probe", tx') /\ shifting' # Probe
    <3> SUFFICES ASSUME No("probe", tx) PROVE No("probe", tx') /\ shifting' # Probe
      OBVIOUS
    <3>1. No("probe", tx')
      BY <1>b, <2>1, Bytes, NoneNew
    <3>2. tx[1][1] # "probe"
      BY <2>1 DEF No
    <3> QED BY <2>1, <3>1, <3>2, Bytes
  <2>3. Lone(tx) => Lone(tx') /\ (shifting' = Probe => No("probe", tx'))
    BY <1>b, <2>1, Bytes, LoneKept
  <2> QED BY <1>a, <2>1, <2>2, <2>3
<1>3. CASE ShiftOut
  <2>1. /\ UNCHANGED <<present, pc, tx, got>> /\ present /\ shifting \in Byte /\ shifting' = Nothing
        /\ shifting' # Probe
    BY <1>3, ShiftMoves, Bytes
  <2>2. CASE loopback /\ Grown(rx, shifting, rx') /\ wire' = wire
    <3>1. No("probe", rx) /\ shifting # Probe => No("probe", rx')
      BY <1>b, <2>1, <2>2, Bytes, NoneNew
    <3>2. No("probe", rx) \/ (Lone(rx) /\ shifting # Probe) => Lone(rx')
      BY <1>b, <2>1, <2>2, LoneKept
    <3> QED BY <1>a, <2>1, <2>2, <3>1, <3>2
  <2>3. CASE ~loopback /\ wire' = Append(wire, shifting) /\ rx' = rx
    <3>1. ~Waits /\ ~Failed
      BY <1>c, <2>1, <2>3
    <3>2. No("probe", wire')
      BY <1>a, <1>b, <2>1, <2>3, <3>1, Bytes, NoneNew
    <3> QED BY <1>a, <2>1, <2>3, <3>1, <3>2
  <2> QED BY <1>3, <2>2, <2>3, ShiftMoves
<1>4. CASE Arrive
  <2>1. /\ UNCHANGED <<present, pc, tx, shifting, wire, got>> /\ present /\ ~loopback
        /\ arrived' \in Nat /\ Grown(rx, <<"in", arrived'>>, rx')
    BY <1>4, ArriveMoves
  <2>2. ~Waits /\ ~Failed
    BY <1>c, <2>1
  <2>3. No("probe", rx) => No("probe", rx')
    BY <1>b, <2>1, Numbered, NoneNew
  <2> QED BY <1>a, <2>1, <2>2, <2>3
<1>5. CASE Elsewhere
  <2>1. UNCHANGED <<present, tx, rx, shifting, wire, got>>
    BY <1>5, ElsewhereMoves
  <2>2. \/ pc = "await" /\ (Waits' \/ Failed')
        \/ ~Waits /\ ~Failed /\ ~Waits' /\ ~Failed'
    BY <1>5, ElsewhereMoves DEF Moves
  <2> QED BY <1>a, <2>1, <2>2
<1>6. CASE Setting
  <2>1. UNCHANGED <<present, tx, rx, shifting, wire, got>>
    BY <1>6, SettingMoves
  <2>2. ~Waits /\ ~Waits' /\ ~Failed'
    BY <1>6, SettingMoves DEF Moves
  <2>3. present => ~Failed
    <3>1. present /\ Failed => missed' # {}
      BY <1>6, SettingMoves DEF Moves
    <3> QED BY <3>1
  <2> QED BY <1>a, <2>1, <2>2, <2>3
<1>7. CASE Reading
  <2>1. /\ UNCHANGED <<present, tx, shifting, wire>>
        /\ rx = <<>> => rx' = rx
        /\ rx # <<>> => Shrunk(rx, rx') /\ rx[1] \in Byte /\ rx[1] = Head(rx) /\ 1 \in DOMAIN rx
    BY <1>7, ReadingMoves
  <2>2. No("probe", rx) => No("probe", rx')
    BY <1>b, <2>1, Bytes, NoneNew
  <2>3. CASE pc \in {"discard", "get"}
    <3>1. pc' \in {"drain", "idle"}
      BY <1>7, <2>3, ReadingMoves DEF Moves
    <3>2. present' = present /\ tx' = tx /\ shifting' = shifting /\ wire' = wire
      BY <2>1
    <3>3. No("probe", got')
      <4>1. got' = got \/ (present /\ rx # <<>> /\ got' = Append(got, rx[1]))
        BY <1>7, ReadingMoves
      <4>2. present /\ rx # <<>> => rx[1] \in Byte /\ rx[1][1] # "probe"
        BY <1>a, <2>1, <2>3 DEF No
      <4> QED BY <1>a, <1>b, <4>1, <4>2, NoneNew
    <3> QED BY <1>a, <2>2, <2>3, <3>1, <3>2, <3>3
  <2>4. CASE pc = "compare"
    <3>1. got' = got /\ pc' = (IF DataRead = Probe THEN "restore found" ELSE "restore other")
      BY <1>7, <2>4, ReadingMoves DEF Moves
    <3>2. CASE present /\ DataRead = Probe
      <4>1. rx # <<>> /\ rx[1] = Probe
        BY <2>1, <2>4, <3>2 DEF PhaseInv, DataRead
      <4>2. No("probe", rx') /\ ~No("probe", rx)
        BY <1>a, <1>b, <2>1, <2>4, <3>2, <4>1, LoneKept, Bytes DEF No
      <4> QED BY <1>a, <2>1, <2>4, <3>1, <3>2, <4>2
    <3>3. CASE ~(present /\ DataRead = Probe)
      <4>1. present' => Failed'
        BY <2>1, <3>1, <3>3
      <4> QED BY <1>a, <2>1, <3>1, <4>1
    <3> QED BY <3>2, <3>3
  <2> QED BY <1>7, <2>3, <2>4, ReadingMoves DEF Moves
<1>8. CASE Writing
  <2>1. UNCHANGED <<present, rx, shifting, wire, got>>
    BY <1>8, WritingMoves
  <2>2. CASE pc = "send"
    <3>1. pc' = "await" /\ (tx' = tx \/ Grown(tx, Probe, tx'))
      BY <1>8, <2>2, WritingMoves DEF Moves
    <3>2. No("probe", tx) => Lone(tx')
      BY <1>b, <3>1, LoneKept, Bytes DEF Lone, No
    <3>3. No("probe", rx) => Lone(rx)
      BY Bytes DEF Lone, No
    <3> QED BY <1>a, <2>1, <2>2, <3>1, <3>2, <3>3
  <2>3. CASE pc = "put"
    <3>1. pc' \in {"wait write", "idle"} /\ written' = written + 1
      BY <1>8, <2>3, WritingMoves DEF Moves
    <3>2. tx' = tx \/ Grown(tx, <<"out", written'>>, tx')
      BY <1>8, <2>3, WritingMoves DEF Moves
    <3>3. No("probe", tx) => No("probe", tx')
      <4>1. written' \in Nat
        <5>1. written \in Nat
          BY <1>b
        <5>2. written' = written + 1
          BY <3>1
        <5> QED BY <5>1, <5>2
      <4> QED BY <1>b, <3>2, <4>1, Numbered, NoneNew
    <3> QED BY <1>a, <2>1, <2>3, <3>1, <3>3
  <2> QED BY <1>8, <2>2, <2>3, WritingMoves DEF Moves
<1>9. CASE InitFifo
  <2>1. /\ UNCHANGED <<present, shifting, wire, got>> /\ No("probe", tx') /\ No("probe", rx')
        /\ pc = "init fifo" /\ pc' = "init mcr"
    BY <1>9, ResetMoves DEF Moves
  <2> QED BY <1>a, <2>1
<1> QED BY <1>1, <1>2, <1>3, <1>4, <1>5, <1>6, <1>7, <1>8, <1>9, Kinds

LEMMA OutStep ==
    ASSUME TypeInv, PhaseInv, OutInv, GotInv, [Next]_vars PROVE OutInv' /\ GotInv'
<1>b. /\ tx \in Seq(Byte) /\ rx \in Seq(Byte) /\ got \in Seq(Byte)
  BY DEF TypeInv
<1>w. written \in Nat
  BY DEF TypeInv
<1>n. Nothing[1] # "out" /\ Probe \in Byte /\ Probe[1] # "out"
  BY Bytes
<1>1. GotInv'
  <2> SUFFICES ASSUME ~cut' PROVE No("out", got')
    BY DEF GotInv
  <2>1. ~cut /\ No("out", got)
    BY Forever DEF GotInv
  <2>2. CASE got' = got
    BY <2>1, <2>2
  <2>3. CASE Reading
    <3>1. got' = got \/ (present /\ rx # <<>> /\ got' = Append(got, rx[1]))
      BY <2>3, ReadingMoves
    <3>2. CASE present /\ rx # <<>> /\ got' = Append(got, rx[1])
      <4>1. rx[1] \in Byte /\ 1 \in DOMAIN rx
        BY <2>3, <3>2, ReadingMoves
      <4>2. rx[1][1] # "out"
        BY <2>1, <3>2, <4>1 DEF OutInv, No
      <4> QED BY <1>b, <2>1, <3>2, <4>1, <4>2, NoneNew
    <3> QED BY <2>1, <3>1, <3>2
  <2> QED BY <2>2, <2>3, Kinds, Still, LoadMoves, ShiftMoves, ArriveMoves, ElsewhereMoves, SettingMoves,
             WritingMoves, ResetMoves
<1>2. OutInv'
  <2> SUFFICES ASSUME present', ~cut'
               PROVE  /\ loopback' => No("out", tx') /\ shifting'[1] # "out"
                      /\ No("out", rx')
    BY DEF OutInv
  <2>a. present /\ ~cut
    BY Forever
  <2>b. (loopback => No("out", tx) /\ shifting[1] # "out") /\ No("out", rx)
    BY <2>a DEF OutInv
  <2>1. CASE UNCHANGED vars \/ Elsewhere
    <3>1. UNCHANGED <<loopback, tx, rx, shifting>>
      BY <2>1, Still, ElsewhereMoves
    <3> QED BY <2>b, <3>1
  <2>2. CASE LoadShifter
    <3>1. UNCHANGED <<loopback, rx>> /\ Shrunk(tx, tx') /\ shifting' = tx[1] /\ 1 \in DOMAIN tx
      BY <2>2, LoadMoves
    <3>2. No("out", tx) => No("out", tx') /\ shifting'[1] # "out"
      BY <1>b, <1>n, <3>1, NoneNew DEF No
    <3> QED BY <2>b, <3>1, <3>2
  <2>3. CASE ShiftOut
    <3>1. UNCHANGED <<loopback, tx>> /\ shifting \in Byte /\ shifting' = Nothing
      BY <2>3, ShiftMoves
    <3>2. (loopback /\ Grown(rx, shifting, rx')) \/ rx' = rx
      BY <2>3, ShiftMoves
    <3>3. No("out", rx')
      BY <1>b, <2>b, <3>1, <3>2, NoneNew
    <3> QED BY <1>n, <2>b, <3>1, <3>3
  <2>4. CASE Arrive
    <3>1. UNCHANGED <<loopback, tx, shifting>> /\ arrived' \in Nat /\ Grown(rx, <<"in", arrived'>>, rx')
      BY <2>4, ArriveMoves
    <3>2. No("out", rx')
      BY <1>b, <2>b, <3>1, Numbered, NoneNew
    <3> QED BY <2>b, <3>1, <3>2
  <2>5. CASE Setting
    <3>1. UNCHANGED <<tx, rx, shifting>>
      BY <2>5, SettingMoves
    <3>2. CASE pc = "probe loopback"
      <4>1. cut' = (cut \/ Busy)
        BY <2>5, <3>2, SettingMoves DEF Moves
      <4>2. tx = <<>> /\ shifting = Nothing
        BY <4>1 DEF Busy
      <4> QED BY <1>n, <2>b, <3>1, <4>2 DEF No
    <3>3. CASE pc # "probe loopback"
      <4>1. loopback' => loopback
        BY <2>5, <3>3, SettingMoves DEF Moves
      <4> QED BY <2>b, <3>1, <4>1
    <3> QED BY <3>2, <3>3
  <2>6. CASE Reading
    <3>1. UNCHANGED <<loopback, tx, shifting>> /\ (rx' = rx \/ Shrunk(rx, rx'))
      BY <2>6, ReadingMoves
    <3>2. No("out", rx')
      BY <1>b, <1>n, <2>b, <3>1, NoneNew
    <3> QED BY <2>b, <3>1, <3>2
  <2>7. CASE Writing
    <3>1. UNCHANGED <<loopback, rx, shifting>>
      BY <2>7, WritingMoves
    <3>2. loopback => tx' = tx \/ Grown(tx, Probe, tx')
      BY <2>7, <2>a, WritingMoves DEF Moves
    <3>3. loopback => No("out", tx')
      BY <1>b, <1>n, <2>b, <3>2, NoneNew
    <3> QED BY <2>b, <3>1, <3>3
  <2>8. CASE InitFifo
    <3>1. UNCHANGED <<loopback, shifting>> /\ No("out", tx') /\ No("out", rx')
      BY <2>8, ResetMoves
    <3> QED BY <2>b, <3>1
  <2> QED BY <2>1, <2>2, <2>3, <2>4, <2>5, <2>6, <2>7, <2>8, Kinds
<1> QED BY <1>1, <1>2

(* What comes in is numbered in the order it comes. *)
LEMMA InStep == ASSUME TypeInv, PhaseInv, InInv, [Next]_vars PROVE InInv'
<1>b. /\ rx \in Seq(Byte) /\ got \in Seq(Byte) /\ tx \in Seq(Byte)
      /\ rx[1] \in Byte => rx[1][2] \in Nat
  BY Bytes DEF TypeInv
<1>w. arrived \in Nat
  BY DEF TypeInv
<1>x. /\ InOrder("in", rx) /\ InOrder("in", got)
      /\ \A i \in From("in", got), j \in From("in", rx) : got[i][2] < rx[j][2]
      /\ \A j \in From("in", rx) : rx[j][2] <= arrived
      /\ \A j \in From("in", got) : got[j][2] <= arrived
  BY DEF InInv
<1>1. ASSUME UNCHANGED <<rx, got, arrived>> PROVE InInv'
  BY <1>1 DEF InInv, InOrder, From
<1>2. ASSUME UNCHANGED <<got, arrived>>, rx' = <<>> PROVE InInv'
  BY <1>2, <1>x DEF InInv, InOrder, From
<1>3. CASE ShiftOut
  <2>1. UNCHANGED <<got, arrived>> /\ shifting \in Byte
    BY <1>3, ShiftMoves
  <2>2. shifting[1] # "in"
    BY DEF TypeInv
  <2>3. CASE Grown(rx, shifting, rx')
    <3>1. \A j \in From("in", rx') : j \in From("in", rx) /\ rx'[j] = rx[j]
      BY <2>2, <2>3 DEF Grown, From
    <3>2. InOrder("in", rx')
      BY <1>x, <3>1 DEF InOrder
    <3>3. \A i \in From("in", got), j \in From("in", rx') : got[i][2] < rx'[j][2]
      BY <1>x, <3>1
    <3>4. \A j \in From("in", rx') : rx'[j][2] <= arrived
      BY <1>x, <3>1
    <3> QED BY <1>x, <2>1, <3>2, <3>3, <3>4 DEF InInv, InOrder, From
  <2>4. CASE rx' = rx
    BY <1>1, <2>1, <2>4
  <2> QED BY <1>3, <2>3, <2>4, ShiftMoves
<1>4. CASE Arrive
  <2>1. /\ UNCHANGED got /\ arrived' = arrived + 1 /\ arrived' \in Nat
        /\ Grown(rx, <<"in", arrived'>>, rx')
    BY <1>4, ArriveMoves
  <2>2. <<"in", arrived'>>[2] = arrived'
    BY <2>1, Numbered
  <2>3. \A j \in From("in", rx') : \/ j \in From("in", rx) /\ rx'[j] = rx[j]
                                   \/ j = Len(rx') /\ rx'[j][2] = arrived'
    BY <2>1, <2>2 DEF Grown, From
  <2>4. \A j \in From("in", rx) : rx[j][2] \in Nat
    BY <1>b, Bytes DEF From
  <2>5. \A j \in From("in", got) : got[j][2] \in Nat
    BY <1>b, Bytes DEF From
  <2>6. InOrder("in", rx')
    <3> SUFFICES ASSUME NEW i \in From("in", rx'), NEW j \in From("in", rx'), i < j
                 PROVE  rx'[i][2] < rx'[j][2]
      BY DEF InOrder
    <3>1. Len(rx') \in Nat /\ i \in Nat /\ j \in Nat /\ i <= Len(rx') /\ j <= Len(rx')
      BY <2>1 DEF Grown, From
    <3>2. i \in From("in", rx) /\ rx'[i] = rx[i]
      BY <2>3, <3>1
    <3>3. CASE j \in From("in", rx) /\ rx'[j] = rx[j]
      BY <1>x, <3>2, <3>3 DEF InOrder
    <3>4. CASE rx'[j][2] = arrived'
      BY <1>w, <1>x, <2>1, <2>4, <3>2, <3>4
    <3> QED BY <2>3, <3>3, <3>4
  <2>7. \A i \in From("in", got), j \in From("in", rx') : got[i][2] < rx'[j][2]
    <3> SUFFICES ASSUME NEW i \in From("in", got), NEW j \in From("in", rx')
                 PROVE  got[i][2] < rx'[j][2]
      OBVIOUS
    <3>1. CASE j \in From("in", rx) /\ rx'[j] = rx[j]
      BY <1>x, <3>1
    <3>2. CASE rx'[j][2] = arrived'
      BY <1>w, <1>x, <2>1, <2>5, <3>2
    <3> QED BY <2>3, <3>1, <3>2
  <2>8. \A j \in From("in", rx') : rx'[j][2] <= arrived'
    <3> SUFFICES ASSUME NEW j \in From("in", rx') PROVE rx'[j][2] <= arrived'
      OBVIOUS
    <3>1. CASE j \in From("in", rx) /\ rx'[j] = rx[j]
      BY <1>w, <1>x, <2>1, <2>4, <3>1
    <3>2. CASE rx'[j][2] = arrived'
      BY <2>1, <3>2
    <3> QED BY <2>3, <3>1, <3>2
  <2>9. \A j \in From("in", got) : got[j][2] <= arrived'
    BY <1>w, <1>x, <2>1, <2>5
  <2> QED BY <1>x, <2>1, <2>6, <2>7, <2>8, <2>9 DEF InInv, InOrder, From
<1>5. CASE Reading
  <2>1. /\ UNCHANGED arrived /\ (rx = <<>> => rx' = rx)
        /\ rx # <<>> => Shrunk(rx, rx') /\ 1 \in DOMAIN rx /\ rx[1] \in Byte
        /\ got' = got \/ (rx # <<>> /\ got' = Append(got, rx[1]))
    BY <1>5, ReadingMoves
  <2>2. CASE rx = <<>>
    BY <1>1, <2>1, <2>2
  <2>3. CASE rx # <<>>
    <3>1. Shrunk(rx, rx') /\ 1 \in DOMAIN rx /\ rx[1] \in Byte
      BY <2>1, <2>3
    <3>2. \A j \in From("in", rx') : j \in Nat /\ j >= 1 /\ j + 1 \in From("in", rx) /\ rx'[j] = rx[j + 1]
      BY <3>1 DEF Shrunk, From
    <3>3. InOrder("in", rx')
      <4> SUFFICES ASSUME NEW i \in From("in", rx'), NEW j \in From("in", rx'), i < j
                   PROVE  rx'[i][2] < rx'[j][2]
        BY DEF InOrder
      <4>1. /\ i + 1 \in From("in", rx) /\ rx'[i] = rx[i + 1] /\ i + 1 < j + 1
            /\ j + 1 \in From("in", rx) /\ rx'[j] = rx[j + 1]
        BY <3>2
      <4> QED BY <1>x, <4>1 DEF InOrder
    <3>4. \A j \in From("in", rx') : rx'[j][2] <= arrived
      BY <1>x, <3>2
    <3>5. \A i \in From("in", got), j \in From("in", rx') : got[i][2] < rx'[j][2]
      BY <1>x, <3>2
    <3>6. CASE got' = got
      BY <1>x, <2>1, <3>3, <3>4, <3>5, <3>6 DEF InInv, InOrder, From
    <3>7. CASE got' = Append(got, rx[1])
      <4>1. \A j \in From("in", got') : \/ j \in From("in", got) /\ got'[j] = got[j]
                                        \/ j = Len(got') /\ got'[j] = rx[1] /\ 1 \in From("in", rx)
        BY <1>b, <3>1, <3>7, Added DEF From
      <4>2. Len(got') \in Nat /\ DOMAIN got' = 1 .. Len(got')
        BY <1>b, <3>1, <3>7, Added
      <4>3. \A i \in From("in", got') : i \in Nat /\ i <= Len(got')
        BY <4>2 DEF From
      <4>4. InOrder("in", got')
        <5> SUFFICES ASSUME NEW i \in From("in", got'), NEW j \in From("in", got'), i < j
                     PROVE  got'[i][2] < got'[j][2]
          BY DEF InOrder
        <5>1. i \in From("in", got) /\ got'[i] = got[i]
          BY <4>1, <4>2, <4>3
        <5>2. CASE j \in From("in", got) /\ got'[j] = got[j]
          BY <1>x, <5>1, <5>2 DEF InOrder
        <5>3. CASE got'[j] = rx[1] /\ 1 \in From("in", rx)
          BY <1>x, <5>1, <5>3
        <5> QED BY <4>1, <5>2, <5>3
      <4>5. \A i \in From("in", got'), j \in From("in", rx') : got'[i][2] < rx'[j][2]
        <5> SUFFICES ASSUME NEW i \in From("in", got'), NEW j \in From("in", rx')
                     PROVE  got'[i][2] < rx'[j][2]
          OBVIOUS
        <5>1. CASE i \in From("in", got) /\ got'[i] = got[i]
          BY <3>5, <5>1
        <5>2. CASE got'[i] = rx[1] /\ 1 \in From("in", rx)
          <6>1. j + 1 \in From("in", rx) /\ rx'[j] = rx[j + 1] /\ 1 < j + 1
            BY <3>2
          <6> QED BY <1>x, <5>2, <6>1 DEF InOrder
        <5> QED BY <4>1, <5>1, <5>2
      <4>6. \A j \in From("in", got') : got'[j][2] <= arrived
        BY <1>x, <4>1
      <4> QED BY <2>1, <3>3, <3>4, <4>4, <4>5, <4>6 DEF InInv, InOrder, From
    <3> QED BY <2>1, <3>6, <3>7
  <2> QED BY <2>2, <2>3
<1>6. CASE UNCHANGED vars \/ LoadShifter \/ Elsewhere \/ Setting \/ Writing
  <2>1. UNCHANGED <<rx, got, arrived>>
    BY <1>6, Still, LoadMoves, ElsewhereMoves, SettingMoves, WritingMoves
  <2> QED BY <1>1, <2>1
<1>7. CASE InitFifo
  <2>1. UNCHANGED <<got, arrived>> /\ rx' = <<>>
    BY <1>7, ResetMoves
  <2> QED BY <1>2, <2>1
<1> QED BY <1>3, <1>4, <1>5, <1>6, <1>7, Kinds

-----------------------------------------------------------------------------
(* What is put is sent. *)

Sent(bytes, n) == InOrder("out", bytes) /\ {bytes[i][2] : i \in From("out", bytes)} = 1 .. n

LEMMA Joined ==
    ASSUME NEW s \in Seq(Byte), NEW q \in Seq(Byte)
    PROVE  /\ s \o q \in Seq(Byte) /\ Len(s \o q) = Len(s) + Len(q) /\ DOMAIN (s \o q) = 1 .. Len(s) + Len(q)
           /\ \A i \in 1 .. Len(s) + Len(q) : (s \o q)[i] = IF i <= Len(s) THEN s[i] ELSE q[i - Len(s)]
OBVIOUS

(* Two sequences with the same bytes of clients at the same places. *)
LEMMA SameSent ==
    ASSUME NEW s, NEW r, NEW n, From("out", r) = From("out", s), \A i \in From("out", s) : r[i] = s[i]
    PROVE  Sent(r, n) <=> Sent(s, n)
<1>1. InOrder("out", r) <=> InOrder("out", s)
  BY DEF InOrder
<1>2. {r[i][2] : i \in From("out", r)} = {s[i][2] : i \in From("out", s)}
  OBVIOUS
<1> QED BY <1>1, <1>2 DEF Sent

LEMMA Silent ==
    ASSUME NEW s \in Seq(Byte), NEW q \in Seq(Byte), NEW n, No("out", q)
    PROVE  Sent(s \o q, n) <=> Sent(s, n)
<1>1. From("out", s \o q) = From("out", s)
  <2>1. ASSUME NEW i \in From("out", s \o q) PROVE i \in From("out", s)
    <3>1. i \in 1 .. Len(s) + Len(q) /\ (s \o q)[i][1] = "out"
      BY <2>1, Joined DEF From
    <3>2. CASE i <= Len(s)
      BY <3>1, <3>2, Joined DEF From
    <3>3. CASE ~(i <= Len(s))
      <4>1. i - Len(s) \in DOMAIN q /\ q[i - Len(s)] = (s \o q)[i]
        BY <3>1, <3>3, Joined
      <4> QED BY <3>1, <4>1 DEF No
    <3> QED BY <3>2, <3>3
  <2>2. ASSUME NEW i \in From("out", s) PROVE i \in From("out", s \o q)
    <3>1. i \in 1 .. Len(s) + Len(q) /\ i <= Len(s) /\ s[i][1] = "out"
      BY DEF From
    <3> QED BY <3>1, Joined DEF From
  <2> QED BY <2>1, <2>2
<1>2. \A i \in From("out", s) : (s \o q)[i] = s[i]
  <2> SUFFICES ASSUME NEW i \in From("out", s) PROVE (s \o q)[i] = s[i]
    OBVIOUS
  <2>1. i \in 1 .. Len(s) + Len(q) /\ i <= Len(s)
    BY DEF From
  <2> QED BY <2>1, Joined
<1> QED BY <1>1, <1>2, SameSent

LEMMA OneMore ==
    ASSUME NEW s \in Seq(Byte), NEW n \in Nat, Sent(s, n),
           NEW b \in Byte, b[1] = "out", b[2] = n + 1,
           NEW r, r = Append(s, b)
    PROVE  Sent(r, n + 1)
<1>1. b[1] = "out" /\ b[2] \in Nat /\ b[2] = n + 1
  OBVIOUS
<1>2. \A j \in From("out", r) : (j \in From("out", s) /\ r[j] = s[j]) \/ (j = Len(s) + 1 /\ r[j] = b)
  BY <1>1, Added DEF From
<1>3. \A j \in From("out", s) : j \in From("out", r) /\ r[j] = s[j] /\ j \in Nat /\ j <= Len(s)
  BY <1>1, Added DEF From
<1>4. Len(s) + 1 \in From("out", r) /\ r[Len(s) + 1] = b
  BY <1>1, Added DEF From
<1>5. \A j \in From("out", s) : s[j][2] \in 1 .. n
  BY DEF Sent
<1>6. InOrder("out", r)
  <2> SUFFICES ASSUME NEW i \in From("out", r), NEW j \in From("out", r), i < j
               PROVE  r[i][2] < r[j][2]
    BY DEF InOrder
  <2>1. i \in Nat /\ j \in Nat /\ Len(s) \in Nat /\ j <= Len(s) + 1
    <3>1. r \in Seq(Byte) /\ Len(r) = Len(s) + 1
      BY Added
    <3> QED BY <3>1 DEF From
  <2>2. i \in From("out", s) /\ r[i] = s[i]
    <3>1. i # Len(s) + 1
      BY <2>1
    <3> QED BY <1>2, <3>1
  <2>3. CASE j \in From("out", s) /\ r[j] = s[j]
    BY <2>2, <2>3 DEF Sent, InOrder
  <2>4. CASE r[j] = b
    <3>1. s[i][2] \in Nat /\ s[i][2] <= n
      BY <1>5, <2>2
    <3> QED BY <1>1, <2>2, <2>4, <3>1
  <2> QED BY <1>2, <2>3, <2>4
<1>7. {r[i][2] : i \in From("out", r)} = 1 .. n + 1
  <2>1. ASSUME NEW j \in From("out", r) PROVE r[j][2] \in 1 .. n + 1
    <3>1. CASE j \in From("out", s) /\ r[j] = s[j]
      <4>1. PICK m \in 1 .. n : m = r[j][2]
        BY <1>5, <3>1
      <4>2. m \in 1 .. n + 1
        OBVIOUS
      <4> QED BY <4>1, <4>2
    <3>2. CASE r[j] = b
      <4>1. r[j][2] = n + 1
        BY <3>2
      <4> QED BY <4>1
    <3> QED BY <1>2, <3>1, <3>2
  <2>2. ASSUME NEW k \in 1 .. n + 1 PROVE \E j \in From("out", r) : r[j][2] = k
    <3>1. CASE k = n + 1
      BY <1>1, <1>4, <3>1
    <3>2. CASE k \in 1 .. n
      <4>1. PICK j \in From("out", s) : s[j][2] = k
        BY <3>2 DEF Sent
      <4> QED BY <1>3, <4>1
    <3>3. k = n + 1 \/ k \in 1 .. n
      OBVIOUS
    <3> QED BY <3>1, <3>2, <3>3
  <2> QED BY <2>1, <2>2
<1> QED BY <1>6, <1>7 DEF Sent

(* What is in the transmitter, and the moves of a byte through it.          *)
LEMMA Transmitter ==
    ASSUME TypeInv
    PROVE  /\ InTransmitter \in Seq(Byte)
           /\ shifting = Nothing => InTransmitter = tx
           /\ shifting # Nothing => InTransmitter = <<shifting>> \o tx
BY DEF TypeInv, InTransmitter

LEMMA Through ==
    ASSUME NEW s \in Seq(Byte), NEW q \in Seq(Byte), NEW b \in Byte
    PROVE  /\ q # <<>> => <<Head(q)>> \o Tail(q) = q
           /\ s \o (<<b>> \o q) = Append(s, b) \o q
           /\ s \o <<b>> = Append(s, b) /\ s \o <<>> = s /\ <<b>> \o <<>> = <<b>>
           /\ s \o (q \o <<b>>) = Append(s \o q, b)
<1>1. q # <<>> => <<Head(q)>> \o Tail(q) = q
  OBVIOUS
<1>2. s \o (<<b>> \o q) = Append(s, b) \o q
  OBVIOUS
<1>3. s \o <<b>> = Append(s, b) /\ s \o <<>> = s /\ <<b>> \o <<>> = <<b>>
  OBVIOUS
<1>4. s \o (q \o <<b>>) = Append(s \o q, b)
  OBVIOUS
<1> QED BY <1>1, <1>2, <1>3, <1>4

SentInv == present /\ ~cut => Sent(wire \o InTransmitter, written)

LEMMA SentStep ==
    ASSUME TypeInv, PhaseInv, ProbeInv, OutInv, SentInv, [Next]_vars PROVE SentInv'
<1> SUFFICES ASSUME present', ~cut'
             PROVE  Sent(wire' \o InTransmitter', written')
  BY DEF SentInv
<1>a. present /\ ~cut
  BY Forever
<1>b. Sent(wire \o InTransmitter, written)
  BY <1>a DEF SentInv
<1>c. tx \in Seq(Byte) /\ wire \in Seq(Byte) /\ written \in Nat
  BY DEF TypeInv
<1>d. Nothing[1] # "out" /\ Probe \in Byte /\ Probe[1] # "out" /\ Probe # Nothing
  BY Bytes
<1>1. ASSUME UNCHANGED <<wire, tx, shifting, written>> PROVE Sent(wire' \o InTransmitter', written')
  <2>1. InTransmitter' = InTransmitter
    BY <1>1 DEF InTransmitter
  <2> QED BY <1>1, <1>b, <2>1
<1>2. CASE LoadShifter
  <2>1. /\ UNCHANGED <<wire, written>> /\ shifting = Nothing /\ shifting' \in Byte /\ tx # <<>>
        /\ shifting' = tx[1] /\ tx' = Tail(tx)
    BY <1>2, LoadMoves
  <2>2. shifting' # Nothing /\ tx[1] = Head(tx)
    BY <1>c, <2>1, Bytes
  <2>3. InTransmitter' = <<Head(tx)>> \o Tail(tx) /\ InTransmitter = tx
    BY <2>1, <2>2 DEF InTransmitter
  <2>4. InTransmitter' = InTransmitter
    BY <1>c, <2>1, <2>2, <2>3, Through
  <2> QED BY <1>b, <2>1, <2>4
<1>3. CASE ShiftOut
  <2>1. /\ UNCHANGED <<tx, written, loopback>> /\ shifting \in Byte /\ shifting # Nothing /\ shifting' = Nothing
        /\ \/ loopback /\ wire' = wire
           \/ ~loopback /\ wire' = Append(wire, shifting)
    BY <1>3, ShiftMoves
  <2>2. InTransmitter = <<shifting>> \o tx /\ InTransmitter' = tx
    BY <2>1 DEF InTransmitter
  <2>3. CASE ~loopback /\ wire' = Append(wire, shifting)
    <3>1. wire' \o InTransmitter' = wire \o InTransmitter
      BY <1>c, <2>1, <2>2, <2>3, Through
    <3> QED BY <1>b, <2>1, <3>1
  <2>4. CASE loopback /\ wire' = wire
    <3>1. No("out", tx) /\ shifting[1] # "out"
      BY <1>a, <2>4 DEF OutInv
    <3>2. <<shifting>> \o tx \in Seq(Byte) /\ No("out", <<shifting>> \o tx)
      <4>1. <<shifting>> \in Seq(Byte)
        BY <2>1
      <4>2. No("out", <<shifting>> \o tx)
        BY <1>c, <2>1, <3>1 DEF No
      <4> QED BY <1>c, <4>1, <4>2, Joined
    <3>3. Sent(wire, written)
      BY <1>b, <1>c, <2>2, <3>2, Silent
    <3>4. Sent(wire \o tx, written)
      BY <1>c, <3>1, <3>3, Silent
    <3> QED BY <2>1, <2>2, <2>4, <3>4
  <2> QED BY <2>1, <2>3, <2>4
<1>4. CASE SendProbe
  <2>1. /\ Writing /\ pc = "send"
    BY <1>4 DEF SendProbe, Writing
  <2>2. /\ UNCHANGED <<wire, shifting, written>>
        /\ tx' = tx \/ Grown(tx, Probe, tx')
    BY <1>a, <2>1, WritingMoves DEF Moves
  <2>3. tx = <<>> /\ shifting = Nothing
    BY <1>a, <2>1 DEF ProbeInv
  <2>4. InTransmitter = <<>> /\ InTransmitter' = tx'
    BY <2>2, <2>3 DEF InTransmitter
  <2>5. tx' \in Seq(Byte) /\ No("out", tx') /\ <<>> \in Seq(Byte) /\ No("out", <<>>)
    <3>1. No("out", <<>>) /\ <<>> \in Seq(Byte)
      BY DEF No
    <3> QED BY <1>c, <1>d, <2>2, <2>3, <3>1, NoneNew DEF Grown
  <2>6. Sent(wire, written)
    BY <1>b, <1>c, <2>4, <2>5, Silent
  <2>7. Sent(wire \o tx', written)
    BY <1>c, <2>5, <2>6, Silent
  <2> QED BY <2>2, <2>4, <2>7
<1>5. CASE PutByte
  <2>1. Writing /\ pc = "put"
    BY <1>5 DEF PutByte, Writing
  <2>2. /\ UNCHANGED <<wire, shifting>> /\ written' = written + 1
        /\ tx = <<>> /\ Grown(tx, <<"out", written'>>, tx')
    BY <1>a, <2>1, WritingMoves DEF Moves
  <2> DEFINE b == <<"out", written'>>
  <2>3. b \in Byte /\ b[1] = "out" /\ b[2] = written + 1
    <3>1. written' \in Nat
      BY <1>c, <2>2
    <3> QED BY <2>2, <3>1, Numbered
  <2>4. tx' = <<b>>
    BY <2>2 DEF Grown
  <2> HIDE DEF b
  <2>5. wire' \o InTransmitter' = Append(wire \o InTransmitter, b)
    <3>1. CASE shifting = Nothing
      <4>1. InTransmitter = <<>> /\ InTransmitter' = <<b>>
        BY <2>2, <2>4, <3>1 DEF InTransmitter
      <4> QED BY <1>c, <2>2, <2>3, <4>1, Through
    <3>2. CASE shifting # Nothing
      <4>1. shifting \in Byte
        BY <3>2 DEF TypeInv
      <4>2. InTransmitter = <<shifting>> \o tx /\ InTransmitter' = <<shifting>> \o <<b>>
        BY <2>2, <2>4, <3>2 DEF InTransmitter
      <4>3. InTransmitter = <<shifting>> /\ <<shifting>> \in Seq(Byte)
        BY <2>2, <4>1, <4>2
      <4> QED BY <1>c, <2>2, <2>3, <4>2, <4>3, Through
    <3> QED BY <3>1, <3>2
  <2>6. wire \o InTransmitter \in Seq(Byte)
    BY <1>c, Transmitter, Joined
  <2>7. Sent(Append(wire \o InTransmitter, b), written + 1)
    BY <1>b, <1>c, <2>3, <2>6, OneMore
  <2> QED BY <2>2, <2>5, <2>7
<1>6. CASE InitFifo
  <2>1. UNCHANGED <<wire, shifting, written>> /\ tx' = <<>> /\ (cut' <=> cut \/ tx # <<>>)
    BY <1>6, ResetMoves
  <2>2. tx' = tx
    BY <2>1
  <2> QED BY <1>1, <2>1, <2>2
<1>7. CASE UNCHANGED vars \/ Arrive \/ Elsewhere \/ Setting \/ Reading
  <2>1. UNCHANGED <<wire, tx, shifting, written>>
    BY <1>7, Still, ArriveMoves, ElsewhereMoves, SettingMoves, ReadingMoves
  <2> QED BY <1>1, <2>1
<1> QED BY <1>2, <1>3, <1>4, <1>5, <1>6, <1>7, Kinds DEF Writing

-----------------------------------------------------------------------------
(* What clients may rely on. *)

IInv == TypeInv /\ PhaseInv /\ ProbeInv /\ EchoInv /\ OutInv /\ GotInv /\ InInv /\ SentInv

LEMMA AlwaysIInv == Spec => []IInv
<1>1. Init => IInv
  <2> SUFFICES ASSUME Init PROVE SentInv
    BY StartsWell DEF IInv
  <2>1. wire \o InTransmitter = <<>> /\ written = 0
    BY DEF Init, InTransmitter
  <2>2. Sent(<<>>, 0)
    BY DEF Sent, InOrder, From
  <2> QED BY <2>1, <2>2 DEF SentInv
<1>2. IInv /\ [Next]_vars => IInv'
  BY TypeStep, PhaseStep, ProbeStep, EchoStep, OutStep, InStep, SentStep DEF IInv
<1> QED BY <1>1, <1>2, PTL DEF Spec

(* A probe that says yes was answered by a UART; one that hears another     *)
(* byte than it sent ran while bytes were on their way (probe).             *)
THEOREM ProbesTellTheTruth == Spec => []ProbeTellsTheTruth
<1>1. IInv => ProbeTellsTheTruth
  BY DEF IInv, PhaseInv, ProbeInv, ProbeTellsTheTruth
<1> QED BY <1>1, AlwaysIInv, PTL

(* The byte of a probe that got its answer is never sent or read, and what  *)
(* clients write is not read back (probe, putByte, getByte).                *)
THEOREM LoopbackAlwaysStaysInside == Spec => []LoopbackStaysInside
<1>1. ASSUME IInv PROVE LoopbackStaysInside
  <2>1. wire \in Seq(Byte) /\ got \in Seq(Byte)
    BY <1>1 DEF IInv, TypeInv
  <2>2. ASSUME missed = {}, NEW i \in From("probe", wire \o got) PROVE FALSE
    <3>1. i \in 1 .. Len(wire) + Len(got) /\ (wire \o got)[i][1] = "probe"
      BY <2>1, Joined DEF From
    <3>2. No("probe", wire) /\ No("probe", got)
      BY <1>1, <2>2 DEF IInv, EchoInv
    <3>3. CASE i <= Len(wire)
      BY <2>1, <3>1, <3>2, <3>3, Joined DEF No
    <3>4. CASE ~(i <= Len(wire))
      <4>1. i - Len(wire) \in DOMAIN got /\ got[i - Len(wire)] = (wire \o got)[i]
        BY <2>1, <3>1, <3>4, Joined
      <4> QED BY <3>1, <3>2, <4>1 DEF No
    <3> QED BY <3>3, <3>4
  <2>3. ~cut => From("out", got) = {}
    BY <1>1 DEF IInv, GotInv, No, From
  <2> QED BY <2>2, <2>3 DEF LoopbackStaysInside
<1> QED BY <1>1, AlwaysIInv, PTL

(* Bytes are sent once and in the order they were put, and read in the      *)
(* order they came (write, putByte, getByte).                               *)
THEOREM BytesStayInOrder == Spec => []BytesInOrder
<1>1. ASSUME IInv PROVE BytesInOrder
  <2>1. SentInOrder
    BY <1>1 DEF IInv, SentInv, SentInOrder, Sent
  <2>2. From("nothing", got) = {}
    <3> SUFFICES ASSUME NEW i \in From("nothing", got) PROVE FALSE
      OBVIOUS
    <3>1. got \in Seq(Byte)
      BY <1>1 DEF IInv, TypeInv
    <3>2. got[i] \in Byte /\ got[i][1] = "nothing"
      BY <3>1 DEF From
    <3> QED BY <3>2, Bytes
  <2>3. InOrder("in", got)
    BY <1>1 DEF IInv, InInv
  <2> QED BY <2>1, <2>2, <2>3 DEF BytesInOrder, ReadInOrder
<1> QED BY <1>1, AlwaysIInv, PTL
=============================================================================
