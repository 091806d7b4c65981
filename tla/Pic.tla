--------------------------------- MODULE Pic ---------------------------------
(***************************************************************************)
(* The two 8259 interrupt controllers and the driver that programs them   *)
(* (vaerk-x86_64/pic.cpp): init, disable, and ack, which every interrupt   *)
(* handler calls once.  The driver writes one register a step; in between  *)
(* devices raise and withdraw their lines and, unless init is running,     *)
(* the CPU takes interrupts on top of whatever it executes.                *)
(*                                                                         *)
(* The controllers, the CPU and the handlers are not in the repository;    *)
(* they are as the calls of the driver need them to be.  The lower         *)
(* controller hangs on line 2 of the upper one, lines are edge-triggered,  *)
(* and a request withdrawn before the CPU has acknowledged it becomes a    *)
(* spurious interrupt 7, with nothing in service.                          *)
(***************************************************************************)
EXTENDS Integers, Sequences, FiniteSets, FiniteSetsExt, SequencesExt

CONSTANTS
    Devices,     \* lines with a device on them
    MaxNested,   \* bound: handlers on top of each other
    MaxSetups    \* bound: calls of init and disable

ASSUME PicAssumption ==
    Devices \subseteq (0 .. 15) \ {2} /\ MaxNested \in Nat /\ MaxSetups \in Nat

VARIABLES
    chip,        \* the controllers
    high,        \* lines their devices hold high
    cpu,         \* "run", "intr": an interrupt is seen, "inta": PIC2 answers next
    frames,      \* the kernel and, on top of it, the handlers running
    phase,       \* "boot", "init", "on" or "off": which call the kernel made last
    nests,       \* handlers run with interrupts enabled
    overlapped,  \* history: a spurious interrupt was acknowledged for another one
    setups       \* history: calls of init and disable

vars == <<chip, high, cpu, frames, phase, nests, overlapped, setups>>

PIC1 == 1
PIC2 == 2
Lines == 0 .. 7
Cascade == 2

PIC1_OFFSET == 32
PIC2_OFFSET == 40

-----------------------------------------------------------------------------
(* The driver: the writes of each of its calls. *)

Cmd(pic, value)  == [pic |-> pic, reg |-> "cmd", value |-> value]
Data(pic, value) == [pic |-> pic, reg |-> "data", value |-> value]

Both(Write(_, _), one, two) == <<Write(PIC1, one), Write(PIC2, two)>>

(* Mutant: the wiring is written before the offsets. *)
InitWritesShuffled ==
    Both(Cmd, 17, 17) \o Both(Data, 4, 2) \o Both(Data, PIC1_OFFSET, PIC2_OFFSET)
        \o Both(Data, 1, 1) \o Both(Data, 0, 0)

InitWrites ==
    Both(Cmd, 17, 17) \o Both(Data, PIC1_OFFSET, PIC2_OFFSET) \o Both(Data, 4, 2)
        \o Both(Data, 1, 1) \o Both(Data, 0, 0)

(* Mutant: the first line of PIC2 is taken for one of PIC1. *)
AckWritesPast40(intno) ==
    (IF intno > 40 THEN <<Cmd(PIC2, 32)>> ELSE <<>>) \o <<Cmd(PIC1, 32)>>

(* Mutant: PIC1 is told only of its own interrupts. *)
AckWritesOne(intno) == IF intno >= 40 THEN <<Cmd(PIC2, 32)>> ELSE <<Cmd(PIC1, 32)>>

AckWrites(intno) ==
    (IF intno >= 40 THEN <<Cmd(PIC2, 32)>> ELSE <<>>) \o <<Cmd(PIC1, 32)>>

DisableWrites == Both(Data, 255, 255)

-----------------------------------------------------------------------------
(* A controller: requests, what is in service, the mask, what the next      *)
(* data writes mean, the vector of line 0, and how it is wired.             *)

Weight == <<1, 2, 4, 8, 16, 32, 64, 128>>   \* of the bits of a byte

Bit(value, n) == (value \div Weight[n + 1]) % 2 = 1
BitsOf(value) == {n \in Lines : Bit(value, n)}

Reset(c) == [c EXCEPT !.irr = {}, !.isr = {}, !.imr = {}, !.icw = <<"offset", "wired", "mode">>]
EndOfInterrupt(c) == [c EXCEPT !.isr = IF @ = {} THEN {} ELSE @ \ {Min(@)}]

Written(c, reg, value) ==
    IF reg = "cmd" THEN IF Bit(value, 4) THEN Reset(c) ELSE EndOfInterrupt(c)
    ELSE IF c.icw = <<>> THEN [c EXCEPT !.imr = BitsOf(value)]
    ELSE CASE Head(c.icw) = "offset" -> [c EXCEPT !.icw = Tail(@), !.offset = 8 * (value \div 8)]
           [] Head(c.icw) = "wired"  -> [c EXCEPT !.icw = Tail(@), !.wired = value]
           [] Head(c.icw) = "mode"   -> [c EXCEPT !.icw = Tail(@)]

(* What a controller asks for: unmasked requests above all in service.      *)
Asks(c, requests) ==
    IF c.icw # <<>> THEN {}
    ELSE {n \in requests \ c.imr : \A m \in c.isr : n < m}

LowerAsks == Asks(chip[PIC2], chip[PIC2].irr)
UpperAsks == Asks(chip[PIC1], chip[PIC1].irr \cup IF LowerAsks # {} THEN {Cascade} ELSE {})

PicOf(line) == IF line < 8 THEN PIC1 ELSE PIC2

Serve(c, n) == [c EXCEPT !.irr = @ \ {n}, !.isr = @ \cup {n}]

-----------------------------------------------------------------------------
(* Frames: the kernel at the bottom, handlers on top of it.  What the CPU   *)
(* executes is the last one.  took are the bits that were set in service    *)
(* for a handler, owes the controllers it has still to tell.                *)

Spurious == 16   \* the line of a handler no line asked for

Kernel == [vector |-> 0, line |-> Spurious, todo |-> <<>>, acked |-> TRUE, took |-> {}, owes |-> {}]

Handler(vector, line, took, owes) ==
    [vector |-> vector, line |-> line, todo |-> <<>>, acked |-> FALSE, took |-> took, owes |-> owes]

Top == frames[Len(frames)]
InKernel == Len(frames) = 1

Init ==
    /\ \E masked \in {{}, Lines} :
          chip = [pic \in {PIC1, PIC2} |->
                    [irr |-> {}, isr |-> {}, imr |-> masked, icw |-> <<>>,
                     offset |-> IF pic = PIC1 THEN 8 ELSE 112, wired |-> IF pic = PIC1 THEN 4 ELSE 2]]
    /\ high = {} /\ cpu = "run" /\ frames = <<Kernel>> /\ phase = "boot"
    /\ nests \in BOOLEAN
    /\ overlapped = FALSE /\ setups = 0

(* DualPic::init, called with interrupts disabled, and disable.             *)
CallInit ==
    /\ cpu = "run" /\ InKernel /\ Top.todo = <<>> /\ setups < MaxSetups
    /\ frames' = <<[Kernel EXCEPT !.todo = InitWrites]>>
    /\ phase' = "init" /\ setups' = setups + 1
    /\ UNCHANGED <<chip, high, cpu, nests, overlapped>>

CallDisable ==
    /\ cpu = "run" /\ InKernel /\ Top.todo = <<>> /\ setups < MaxSetups
    /\ frames' = <<[Kernel EXCEPT !.todo = DisableWrites]>>
    /\ setups' = setups + 1
    /\ UNCHANGED <<chip, high, cpu, phase, nests, overlapped>>

(* DualPic::ack, with the number of the interrupt. *)
CallAck ==
    /\ cpu = "run" /\ ~InKernel /\ ~Top.acked
    /\ frames' = [frames EXCEPT ![Len(frames)].todo = AckWrites(Top.vector),
                                ![Len(frames)].acked = TRUE]
    /\ UNCHANGED <<chip, high, cpu, phase, nests, overlapped, setups>>

(* One register write of the call. *)
Write ==
    LET write == Head(Top.todo)
        pic   == write.pic
    IN  /\ cpu = "run" /\ Top.todo # <<>>
        /\ chip' = [chip EXCEPT ![pic] = Written(@, write.reg, write.value)]
        /\ frames' = [frames EXCEPT ![Len(frames)].todo = Tail(@), ![Len(frames)].owes = @ \ {pic}]
        /\ overlapped' = \/ overlapped
                         \/ /\ ~InKernel /\ chip[pic].isr # {}
                            /\ \A bit \in Top.took : bit[1] # pic
        /\ phase' = IF InKernel /\ Len(Top.todo) = 1
                    THEN IF phase = "init" THEN "on" ELSE "off"
                    ELSE phase
        /\ UNCHANGED <<high, cpu, nests, setups>>

Return ==
    /\ cpu = "run" /\ ~InKernel /\ Top.acked /\ Top.todo = <<>>
    /\ frames' = Front(frames)
    /\ UNCHANGED <<chip, high, cpu, phase, nests, overlapped, setups>>

-----------------------------------------------------------------------------
(* Devices. *)

Raise(line) ==
    /\ line \notin high
    /\ high' = high \cup {line}
    /\ chip' = [chip EXCEPT ![PicOf(line)].irr = @ \cup {line % 8}]
    /\ UNCHANGED <<cpu, frames, phase, nests, overlapped, setups>>

Withdraw(line) ==
    /\ line \in high
    /\ high' = high \ {line}
    /\ chip' = [chip EXCEPT ![PicOf(line)].irr = @ \ {line % 8}]
    /\ UNCHANGED <<cpu, frames, phase, nests, overlapped, setups>>

(* The CPU sees that interrupts are asked for between two instructions,     *)
(* and acknowledges the one the controllers settle on by then.              *)
Enabled == IF InKernel THEN phase \in {"on", "off"} ELSE nests

See ==
    /\ cpu = "run" /\ Enabled /\ UpperAsks # {} /\ Len(frames) <= MaxNested
    /\ cpu' = "intr"
    /\ UNCHANGED <<chip, high, frames, phase, nests, overlapped, setups>>

Enter(handler) == cpu' = "run" /\ frames' = Append(frames, handler)

Acknowledge ==
    /\ cpu = "intr"
    /\ \/ /\ UpperAsks = {}
          /\ Enter(Handler(chip[PIC1].offset + 7, Spurious, {}, {PIC1}))
          /\ UNCHANGED chip
       \/ \E n \in {n \in UpperAsks : \A other \in UpperAsks : n <= other} :
             /\ chip' = [chip EXCEPT ![PIC1] = Serve(@, n)]
             /\ IF Bit(chip[PIC1].wired, n) THEN cpu' = "inta" /\ UNCHANGED frames
                ELSE Enter(Handler(chip[PIC1].offset + n, n, {<<PIC1, n>>}, {PIC1}))
    /\ UNCHANGED <<high, phase, nests, overlapped, setups>>

(* PIC2 answers for the line of PIC1 that it is wired to. *)
AcknowledgeLower ==
    LET offset == chip[PIC2].offset
        took   == {<<PIC1, chip[PIC2].wired>>}
        both   == {PIC1, PIC2}
    IN  /\ cpu = "inta"
        /\ \/ /\ LowerAsks = {}
              /\ Enter(Handler(offset + 7, Spurious, took, both))
              /\ UNCHANGED chip
           \/ \E n \in {n \in LowerAsks : \A other \in LowerAsks : n <= other} :
                 /\ chip' = [chip EXCEPT ![PIC2] = Serve(@, n)]
                 /\ Enter(Handler(offset + n, n + 8, took \cup {<<PIC2, n>>}, both))
        /\ UNCHANGED <<high, phase, nests, overlapped, setups>>

Driver == CallAck \/ Write \/ Return
Cpu    == See \/ Acknowledge \/ AcknowledgeLower

Next ==
    \/ CallInit \/ CallDisable \/ Driver \/ Cpu
    \/ \E line \in Devices : Raise(line) \/ Withdraw(line)

(* Calls and handlers run to their end, and the CPU takes interrupts.       *)
Spec == Init /\ [][Next]_vars /\ WF_vars(Driver) /\ WF_vars(Cpu)

-----------------------------------------------------------------------------

(* A handler whose interrupt came from one of the controllers tells that    *)
(* one once: what is in service is exactly what handlers have still to      *)
(* acknowledge, whatever nests in what.  After a spurious interrupt was     *)
(* acknowledged on top of another one, which ends that one too early,       *)
(* there is at least never more in service than that, so nothing stays      *)
(* blocked once the handlers have returned.                                 *)
InServiceIsOwed ==
    \A pic \in {PIC1, PIC2} :
        LET owing == {k \in DOMAIN frames : pic \in frames[k].owes}
            taken == UNION {{bit[2] : bit \in {b \in frames[k].took : b[1] = pic}} : k \in owing}
            now   == IF cpu = "inta" /\ pic = PIC1 THEN {Cascade} ELSE {}
        IN  /\ Cardinality(chip[pic].isr) <= Cardinality(owing) + Cardinality(now)
            /\ ~overlapped => chip[pic].isr = taken \cup now
            /\ overlapped => nests

(* An interrupt taken after init has the vector of its line, 32 to 47, or   *)
(* one of the two spurious ones, and so never that of an exception; once    *)
(* disable has returned the controllers ask for nothing.                    *)
VectorsTellTheLine ==
    /\ \A k \in 2 .. Len(frames) :
          IF frames[k].line = Spurious THEN frames[k].vector \in {39, 47}
          ELSE frames[k].vector = 32 + frames[k].line
    /\ phase = "off" /\ InKernel /\ Top.todo = <<>> => UpperAsks = {}

Requested(line) == phase = "on" /\ line % 8 \in chip[PicOf(line)].irr

(* The order in which the controllers serve: lower lines first, those of    *)
(* PIC2 in the place of the line it hangs on.                               *)
Rank(line) == IF line < 8 THEN 8 * line ELSE 8 * Cascade + (line % 8)
Before(line) == {other \in Devices : Rank(other) < Rank(line)}

(* Finitely many requests of some lines. *)
Calm(lines) == <>[][\A line \in lines : ~Raise(line)]_vars

(* While the controllers are on, a request is in the end taken, withdrawn   *)
(* by its device, or ended by a new init or by disable, provided that lines *)
(* before it make finitely many requests; with a fixed priority they starve *)
(* it otherwise.  Lines behind it may ask as often as they like, unless a   *)
(* spurious interrupt was acknowledged in the place of another one: they    *)
(* can then interrupt that one's handler again and again, and as long as    *)
(* it has not acknowledged its own, requests of its line wait.              *)
RequestsAreTaken ==
    \A line \in Devices :
        /\ Calm(Before(line))
        /\ []~overlapped \/ Calm(Devices \ {line})
        => (Requested(line) ~> ~Requested(line))
=============================================================================
