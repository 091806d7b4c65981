----------------------------- MODULE Pic_proofs -----------------------------
(***************************************************************************)
(* Interrupts keep their numbers, and the controllers and the handlers    *)
(* agree on what is in service, for any devices, however often they raise *)
(* and withdraw their lines and however deep handlers nest.               *)
(***************************************************************************)
EXTENDS Pic, SequenceTheorems, FiniteSetTheorems, TLAPS

-----------------------------------------------------------------------------
(* What is always true of the controllers, the kernel and the handlers.     *)

Pics == {PIC1, PIC2}
Writes == [pic : Pics, reg : {"cmd", "data"}, value : Nat]

Words == {<<>>, <<"mode">>, <<"wired", "mode">>, <<"offset", "wired", "mode">>}

ChipState ==
    [irr : SUBSET Lines, isr : SUBSET Lines, imr : SUBSET Lines, icw : Words,
     offset : Nat, wired : Nat]

Frame ==
    [vector : Nat, line : 0 .. 16, todo : Seq(Writes), acked : BOOLEAN,
     took : SUBSET (Pics \X Lines), owes : SUBSET Pics]

TypeInv ==
    /\ chip \in [Pics -> ChipState]
    /\ cpu \in {"run", "intr", "inta"}
    /\ frames \in Seq(Frame) /\ Len(frames) > 0
    /\ phase \in {"boot", "init", "on", "off"}
    /\ nests \in BOOLEAN /\ overlapped \in BOOLEAN

(* What is left of the call s when t is still to be written.                *)
IsEnd(t, s) ==
    /\ Len(t) <= Len(s)
    /\ \A k \in 1 .. Len(t) : t[k] = s[Len(s) - Len(t) + k]

(* The controllers when init has n writes to go.                            *)
InitToGo(n) ==
    /\ chip[PIC1].icw = IF n = 10 \/ n <= 3 THEN <<>>
                        ELSE IF n >= 8 THEN <<"offset", "wired", "mode">>
                        ELSE IF n >= 6 THEN <<"wired", "mode">> ELSE <<"mode">>
    /\ chip[PIC2].icw = IF n >= 9 \/ n <= 2 THEN <<>>
                        ELSE IF n >= 7 THEN <<"offset", "wired", "mode">>
                        ELSE IF n >= 5 THEN <<"wired", "mode">> ELSE <<"mode">>
    /\ n <= 7 => chip[PIC1].offset = PIC1_OFFSET
    /\ n <= 6 => chip[PIC2].offset = PIC2_OFFSET
    /\ n <= 5 => chip[PIC1].wired = 4
    /\ n <= 4 => chip[PIC2].wired = Cascade

Configured ==
    /\ chip[PIC1].offset = PIC1_OFFSET /\ chip[PIC2].offset = PIC2_OFFSET
    /\ chip[PIC1].wired = 4 /\ chip[PIC2].wired = Cascade

(* The kernel is in a call of init, of disable or in none; interrupts are   *)
(* taken only once init has returned.                                       *)
KernelInv ==
    /\ frames[1].took = {} /\ frames[1].owes = {}
    /\ phase = "init" =>
          /\ Len(frames) = 1 /\ cpu = "run"
          /\ frames[1].todo # <<>> /\ IsEnd(frames[1].todo, InitWrites)
          /\ InitToGo(Len(frames[1].todo))
    /\ phase # "init" =>
          /\ IsEnd(frames[1].todo, DisableWrites)
          /\ chip[PIC1].icw = <<>> /\ chip[PIC2].icw = <<>>
          /\ Len(frames[1].todo) = 1 => chip[PIC1].imr = Lines
    /\ phase = "off" => chip[PIC1].imr = Lines /\ chip[PIC2].imr = Lines
    /\ Len(frames) > 1 \/ cpu # "run" => phase = "on"
    /\ phase = "on" => Configured

(* What a handler was called for, ...                                       *)
Cause(f) ==
    \/ \E n \in Lines : f.vector = 32 + n /\ f.line = n /\ f.took = {<<PIC1, n>>}
    \/ f.vector = 39 /\ f.line = Spurious /\ f.took = {}
    \/ \E n \in Lines : f.vector = 40 + n /\ f.line = n + 8 /\ f.took = {<<PIC1, Cascade>>, <<PIC2, n>>}
    \/ f.vector = 47 /\ f.line = Spurious /\ f.took = {<<PIC1, Cascade>>}

(* ... and what it has still to tell the controllers.                       *)
Acking(f) ==
    \/ f.acked /\ f.todo = <<>> /\ f.owes = {}
    \/ f.acked /\ f.todo = <<Cmd(PIC1, 32)>> /\ f.owes = {PIC1}
    \/ f.acked /\ f.todo = <<Cmd(PIC2, 32), Cmd(PIC1, 32)>> /\ f.owes = Pics /\ f.vector >= 40
    \/ ~f.acked /\ f.todo = <<>> /\ f.owes = IF f.vector >= 40 THEN Pics ELSE {PIC1}

HandlersInv == \A k \in 2 .. Len(frames) : Cause(frames[k]) /\ Acking(frames[k])

NestInv ==
    /\ Len(frames) > 2 => nests
    /\ Len(frames) > 1 /\ cpu # "run" => nests
    /\ overlapped => nests

Owing(pic) == {k \in DOMAIN frames : pic \in frames[k].owes}
Now(pic) == IF cpu = "inta" /\ pic = PIC1 THEN {Cascade} ELSE {}
Taken(pic) == {n \in Lines : \E k \in Owing(pic) : <<pic, n>> \in frames[k].took}

(* No more is in service than handlers have to acknowledge; until a         *)
(* spurious interrupt is acknowledged for another, exactly that is, and a   *)
(* handler on top of another was called for a line above its own, so that   *)
(* what it acknowledges is the first that the controller has in service.    *)
Service(pic) ==
    /\ Cardinality(chip[pic].isr) <= Cardinality(Owing(pic)) + Cardinality(Now(pic))
    /\ ~overlapped =>
          /\ chip[pic].isr = Taken(pic) \cup Now(pic)
          /\ \A j, k \in Owing(pic) : \A n, m \in Lines :
                j < k /\ <<pic, n>> \in frames[j].took /\ <<pic, m>> \in frames[k].took => m < n
          /\ \A k \in Owing(pic), n \in Lines, m \in Now(pic) :
                <<pic, n>> \in frames[k].took => m < n

ServiceInv == \A pic \in Pics : Service(pic)

IInv == TypeInv /\ KernelInv /\ HandlersInv /\ NestInv /\ ServiceInv

-----------------------------------------------------------------------------
(* Bytes, lines and the writes of each call.                                *)

LEMMA Bits ==
    /\ Bit(17, 4) /\ ~Bit(32, 4)
    /\ \A n \in Lines : Bit(4, n) <=> n = 2
    /\ \A n \in Lines : Bit(255, n)
BY DEF Bit, Lines, Weight

LEMMA Masked == BitsOf(255) = Lines
BY Bits DEF BitsOf

LEMMA Least ==
    ASSUME NEW S \in SUBSET Lines, S # {}
    PROVE  Min(S) \in S /\ \A n \in S : Min(S) <= n
<1>1. PICK a \in S : TRUE
  OBVIOUS
<1>2. ASSUME NEW n \in Lines, n \in S, \A m \in Lines : m < n => m \notin S
      PROVE  \E l \in S : \A m \in S : l <= m
  BY <1>2 DEF Lines
<1>3. \/ 0 \in S \/ 1 \in S \/ 2 \in S \/ 3 \in S \/ 4 \in S \/ 5 \in S \/ 6 \in S \/ 7 \in S
  BY <1>1 DEF Lines
<1>4. \E n \in Lines : n \in S /\ \A m \in Lines : m < n => m \notin S
  BY <1>3 DEF Lines
<1>5. \E l \in S : \A m \in S : l <= m
  BY <1>2, <1>4
<1> QED BY <1>5 DEF Min

LEMMA WriteTypes ==
    \A pic \in Pics, v \in Nat : Cmd(pic, v) \in Writes /\ Data(pic, v) \in Writes
BY DEF Writes, Cmd, Data

LEMMA PicsAre == Pics = {1, 2} /\ PIC1 = 1 /\ PIC2 = 2 /\ PIC1 \in Pics /\ PIC2 \in Pics /\ PIC1 # PIC2
BY DEF Pics, PIC1, PIC2

LEMMA Pairs ==
    ASSUME NEW S, NEW a \in S, NEW b \in S
    PROVE  <<a>> \o <<b>> = <<a, b>>
<1>1. <<a>> \in Seq(S) /\ <<b>> \in Seq(S) /\ <<a, b>> \in Seq(S)
  OBVIOUS
<1>2. /\ <<a>> \o <<b>> \in Seq(S) /\ Len(<<a>> \o <<b>>) = 2
      /\ \A i \in 1 .. 2 : (<<a>> \o <<b>>)[i] = IF i <= 1 THEN <<a>>[i] ELSE <<b>>[i - 1]
  BY <1>1, ConcatProperties
<1>3. Len(<<a, b>>) = 2 /\ \A i \in 1 .. 2 : (<<a>> \o <<b>>)[i] = <<a, b>>[i]
  BY <1>2
<1> QED BY <1>1, <1>2, <1>3, SeqEqual

LEMMA AckList ==
    ASSUME NEW v \in Nat
    PROVE  AckWrites(v) = IF v >= 40 THEN <<Cmd(PIC2, 32), Cmd(PIC1, 32)>> ELSE <<Cmd(PIC1, 32)>>
<1>1. CASE v >= 40
  <2>1. Cmd(PIC2, 32) \in Writes /\ Cmd(PIC1, 32) \in Writes
    BY WriteTypes, PicsAre
  <2>2. <<Cmd(PIC2, 32)>> \o <<Cmd(PIC1, 32)>> = <<Cmd(PIC2, 32), Cmd(PIC1, 32)>>
    BY <2>1, Pairs
  <2> QED BY <1>1, <2>2 DEF AckWrites
<1>2. CASE ~(v >= 40)
  <2>1. <<>> \o <<Cmd(PIC1, 32)>> = <<Cmd(PIC1, 32)>>
    BY WriteTypes, PicsAre, ConcatEmptySeq
  <2> QED BY <1>2, <2>1 DEF AckWrites
<1> QED BY <1>1, <1>2

LEMMA DisableList ==
    /\ DisableWrites \in Seq(Writes) /\ Len(DisableWrites) = 2
    /\ DisableWrites[1] = Data(PIC1, 255) /\ DisableWrites[2] = Data(PIC2, 255)
BY WriteTypes, PicsAre DEF DisableWrites, Both

LEMMA Joined ==
    ASSUME NEW s \in Seq(Writes), NEW a \in Writes, NEW b \in Writes
    PROVE  /\ s \o <<a, b>> \in Seq(Writes) /\ Len(s \o <<a, b>>) = Len(s) + 2
           /\ \A i \in 1 .. Len(s) : (s \o <<a, b>>)[i] = s[i]
           /\ (s \o <<a, b>>)[Len(s) + 1] = a /\ (s \o <<a, b>>)[Len(s) + 2] = b
<1>1. PICK t : t = <<a, b>>
  OBVIOUS
<1>2. t \in Seq(Writes) /\ Len(t) = 2 /\ t[1] = a /\ t[2] = b /\ Len(s) \in Nat
  BY <1>1, LenProperties
<1>3. /\ s \o t \in Seq(Writes) /\ Len(s \o t) = Len(s) + Len(t)
      /\ \A i \in 1 .. Len(s) + Len(t) : (s \o t)[i] = IF i <= Len(s) THEN s[i] ELSE t[i - Len(s)]
  <2>1. s \in Seq(Writes) /\ t \in Seq(Writes)
    BY <1>2
  <2> QED BY <2>1, ConcatProperties
<1>4. \A i \in 1 .. Len(s) : (s \o t)[i] = s[i]
  BY <1>2, <1>3
<1>5. (s \o t)[Len(s) + 1] = a
  BY <1>2, <1>3
<1>6. (s \o t)[Len(s) + 2] = b
  BY <1>2, <1>3
<1> QED BY <1>1, <1>3, <1>4, <1>5, <1>6

LEMMA InitList ==
    /\ InitWrites \in Seq(Writes) /\ Len(InitWrites) = 10
    /\ InitWrites[1] = Cmd(PIC1, 17) /\ InitWrites[2] = Cmd(PIC2, 17)
    /\ InitWrites[3] = Data(PIC1, 32) /\ InitWrites[4] = Data(PIC2, 40)
    /\ InitWrites[5] = Data(PIC1, 4) /\ InitWrites[6] = Data(PIC2, 2)
    /\ InitWrites[7] = Data(PIC1, 1) /\ InitWrites[8] = Data(PIC2, 1)
    /\ InitWrites[9] = Data(PIC1, 0) /\ InitWrites[10] = Data(PIC2, 0)
<1>1. PICK a, b, c, d, e :
         /\ a = <<Cmd(PIC1, 17), Cmd(PIC2, 17)>>
         /\ b = a \o <<Data(PIC1, 32), Data(PIC2, 40)>>
         /\ c = b \o <<Data(PIC1, 4), Data(PIC2, 2)>>
         /\ d = c \o <<Data(PIC1, 1), Data(PIC2, 1)>>
         /\ e = d \o <<Data(PIC1, 0), Data(PIC2, 0)>>
  OBVIOUS
<1>2. InitWrites = e
  BY <1>1 DEF InitWrites, Both, PIC1_OFFSET, PIC2_OFFSET
<1>3. a \in Seq(Writes) /\ Len(a) = 2 /\ a[1] = Cmd(PIC1, 17) /\ a[2] = Cmd(PIC2, 17)
  BY <1>1, WriteTypes, PicsAre
<1>4. /\ b \in Seq(Writes) /\ Len(b) = 4 /\ b[1] = a[1] /\ b[2] = a[2]
      /\ b[3] = Data(PIC1, 32) /\ b[4] = Data(PIC2, 40)
  <2>1. Data(PIC1, 32) \in Writes /\ Data(PIC2, 40) \in Writes
    BY WriteTypes, PicsAre
  <2>2. /\ b \in Seq(Writes) /\ Len(b) = Len(a) + 2 /\ \A i \in 1 .. Len(a) : b[i] = a[i]
        /\ b[Len(a) + 1] = Data(PIC1, 32) /\ b[Len(a) + 2] = Data(PIC2, 40)
    BY <1>1, <1>3, <2>1, Joined
  <2> QED BY <1>3, <2>2
<1>5. /\ c \in Seq(Writes) /\ Len(c) = 6 /\ c[1] = b[1] /\ c[2] = b[2] /\ c[3] = b[3] /\ c[4] = b[4]
      /\ c[5] = Data(PIC1, 4) /\ c[6] = Data(PIC2, 2)
  <2>1. Data(PIC1, 4) \in Writes /\ Data(PIC2, 2) \in Writes
    BY WriteTypes, PicsAre
  <2>2. /\ c \in Seq(Writes) /\ Len(c) = Len(b) + 2 /\ \A i \in 1 .. Len(b) : c[i] = b[i]
        /\ c[Len(b) + 1] = Data(PIC1, 4) /\ c[Len(b) + 2] = Data(PIC2, 2)
    BY <1>1, <1>4, <2>1, Joined
  <2> QED BY <1>4, <2>2
<1>6. /\ d \in Seq(Writes) /\ Len(d) = 8 /\ d[1] = c[1] /\ d[2] = c[2] /\ d[3] = c[3] /\ d[4] = c[4]
      /\ d[5] = c[5] /\ d[6] = c[6] /\ d[7] = Data(PIC1, 1) /\ d[8] = Data(PIC2, 1)
  <2>1. Data(PIC1, 1) \in Writes /\ Data(PIC2, 1) \in Writes
    BY WriteTypes, PicsAre
  <2>2. /\ d \in Seq(Writes) /\ Len(d) = Len(c) + 2 /\ \A i \in 1 .. Len(c) : d[i] = c[i]
        /\ d[Len(c) + 1] = Data(PIC1, 1) /\ d[Len(c) + 2] = Data(PIC2, 1)
    BY <1>1, <1>5, <2>1, Joined
  <2> QED BY <1>5, <2>2
<1>7. /\ e \in Seq(Writes) /\ Len(e) = 10 /\ e[1] = d[1] /\ e[2] = d[2] /\ e[3] = d[3] /\ e[4] = d[4]
      /\ e[5] = d[5] /\ e[6] = d[6] /\ e[7] = d[7] /\ e[8] = d[8]
      /\ e[9] = Data(PIC1, 0) /\ e[10] = Data(PIC2, 0)
  <2>1. Data(PIC1, 0) \in Writes /\ Data(PIC2, 0) \in Writes
    BY WriteTypes, PicsAre
  <2>2. /\ e \in Seq(Writes) /\ Len(e) = Len(d) + 2 /\ \A i \in 1 .. Len(d) : e[i] = d[i]
        /\ e[Len(d) + 1] = Data(PIC1, 0) /\ e[Len(d) + 2] = Data(PIC2, 0)
    BY <1>1, <1>6, <2>1, Joined
  <2> QED BY <1>6, <2>2
<1> QED BY <1>2, <1>3, <1>4, <1>5, <1>6, <1>7

(* What is left of a call after one more of its writes.                     *)
LEMMA OneLess ==
    ASSUME NEW s \in Seq(Writes), NEW t \in Seq(Writes), IsEnd(t, s), t # <<>>
    PROVE  /\ Head(t) \in Writes /\ Head(t) = s[Len(s) - Len(t) + 1]
           /\ Tail(t) \in Seq(Writes) /\ Len(Tail(t)) = Len(t) - 1 /\ Len(t) \in 1 .. Len(s)
           /\ Len(s) \in Nat /\ IsEnd(Tail(t), s)
<1>1. /\ Head(t) \in Writes /\ Tail(t) \in Seq(Writes) /\ Len(Tail(t)) = Len(t) - 1
      /\ Head(t) = t[1] /\ \A k \in 1 .. Len(t) - 1 : Tail(t)[k] = t[k + 1]
  BY HeadTailProperties
<1>2. Len(s) \in Nat /\ Len(t) \in Nat /\ Len(t) > 0 /\ Len(t) <= Len(s)
  BY LenProperties, EmptySeq DEF IsEnd
<1>3. ASSUME NEW k \in 1 .. Len(Tail(t)) PROVE Tail(t)[k] = s[Len(s) - Len(Tail(t)) + k]
  <2>1. k + 1 \in 1 .. Len(t) /\ Len(s) - Len(t) + (k + 1) = Len(s) - Len(Tail(t)) + k
    BY <1>1, <1>2
  <2>2. t[k + 1] = s[Len(s) - Len(t) + (k + 1)]
    BY <2>1 DEF IsEnd
  <2> QED BY <1>1, <2>1, <2>2
<1>4. Head(t) = s[Len(s) - Len(t) + 1]
  BY <1>1, <1>2 DEF IsEnd
<1> QED BY <1>1, <1>2, <1>3, <1>4 DEF IsEnd

LEMMA WholeIsEnd == ASSUME NEW s \in Seq(Writes) PROVE IsEnd(s, s) /\ IsEnd(<<>>, s)
<1>1. Len(s) \in Nat
  BY LenProperties
<1>2. Len(s) - Len(s) = 0 /\ \A k \in 1 .. Len(s) : 0 + k = k
  BY <1>1
<1>3. IsEnd(s, s)
  BY <1>1, <1>2 DEF IsEnd
<1>4. IsEnd(<<>>, s)
  BY <1>1 DEF IsEnd
<1> QED BY <1>3, <1>4

-----------------------------------------------------------------------------
(* The frames after a call, a return or an entry.                           *)

LEMMA TopFrame ==
    ASSUME TypeInv
    PROVE  /\ Len(frames) \in Nat /\ Len(frames) > 0 /\ DOMAIN frames = 1 .. Len(frames)
           /\ Len(frames) \in 1 .. Len(frames) /\ 1 \in 1 .. Len(frames)
           /\ Top = frames[Len(frames)] /\ Top \in Frame
           /\ \A k \in 1 .. Len(frames) : frames[k] \in Frame
BY LenProperties, ElementOfSeq DEF TypeInv, Top

LEMMA TopReplaced ==
    ASSUME TypeInv, NEW f \in Frame, frames' = [frames EXCEPT ![Len(frames)] = f]
    PROVE  /\ frames' \in Seq(Frame) /\ Len(frames') = Len(frames) /\ DOMAIN frames' = DOMAIN frames
           /\ frames'[Len(frames)] = f
           /\ \A k \in 1 .. Len(frames) : k # Len(frames) => frames'[k] = frames[k]
<1>1. frames \in Seq(Frame) /\ Len(frames) \in 1 .. Len(frames)
  BY TopFrame DEF TypeInv
<1>2. /\ frames' \in Seq(Frame) /\ Len(frames') = Len(frames)
      /\ \A k \in 1 .. Len(frames) : frames'[k] = IF k = Len(frames) THEN f ELSE frames[k]
  BY <1>1, ExceptSeq
<1> QED BY <1>1, <1>2, LenProperties

LEMMA Entered ==
    ASSUME TypeInv, NEW f \in Frame, frames' = Append(frames, f)
    PROVE  /\ frames' \in Seq(Frame) /\ Len(frames') = Len(frames) + 1
           /\ DOMAIN frames' = DOMAIN frames \cup {Len(frames) + 1}
           /\ frames'[Len(frames) + 1] = f
           /\ \A k \in 1 .. Len(frames) : frames'[k] = frames[k]
<1>1. frames \in Seq(Frame) /\ Len(frames) \in Nat /\ DOMAIN frames = 1 .. Len(frames)
  BY TopFrame DEF TypeInv
<1>2. /\ frames' \in Seq(Frame) /\ Len(frames') = Len(frames) + 1
      /\ frames'[Len(frames) + 1] = f
      /\ \A k \in 1 .. Len(frames) : frames'[k] = frames[k]
  BY <1>1, AppendProperties
<1>3. DOMAIN frames' = 1 .. Len(frames) + 1
  BY <1>2, LenProperties
<1>4. 1 .. Len(frames) + 1 = (1 .. Len(frames)) \cup {Len(frames) + 1}
  BY <1>1
<1> QED BY <1>1, <1>2, <1>3, <1>4

LEMMA Left ==
    ASSUME TypeInv, Len(frames) > 1, frames' = Front(frames)
    PROVE  /\ frames' \in Seq(Frame) /\ Len(frames') = Len(frames) - 1
           /\ DOMAIN frames' = DOMAIN frames \ {Len(frames)}
           /\ \A k \in 1 .. Len(frames) - 1 : frames'[k] = frames[k]
<1>1. frames \in Seq(Frame) /\ Len(frames) \in Nat /\ DOMAIN frames = 1 .. Len(frames)
  BY TopFrame DEF TypeInv
<1>2. /\ frames' \in Seq(Frame) /\ Len(frames') = Len(frames) - 1
      /\ \A k \in 1 .. Len(frames) - 1 : frames'[k] = frames[k]
  <2>1. frames' = SubSeq(frames, 1, Len(frames) - 1)
    BY DEF Front
  <2> QED BY <1>1, <2>1
<1>3. DOMAIN frames' = 1 .. Len(frames) - 1
  BY <1>2, LenProperties
<1>4. 1 .. Len(frames) - 1 = (1 .. Len(frames)) \ {Len(frames)}
  BY <1>1
<1> QED BY <1>1, <1>2, <1>3, <1>4

(* The frames have as many to tell a controller as their number.            *)
LEMMA OwingIsFinite ==
    ASSUME TypeInv, NEW pic \in Pics
    PROVE  /\ IsFiniteSet(Owing(pic)) /\ Cardinality(Owing(pic)) \in Nat
           /\ Owing(pic) \subseteq 1 .. Len(frames)
           /\ chip[pic].isr \subseteq Lines
           /\ IsFiniteSet(chip[pic].isr) /\ Cardinality(chip[pic].isr) \in Nat
           /\ IsFiniteSet(Now(pic)) /\ Cardinality(Now(pic)) \in Nat
           /\ Cardinality({}) = 0 /\ Cardinality({Cascade}) = 1
           /\ Cardinality(chip[pic].isr) = 0 => chip[pic].isr = {}
<1>1. IsFiniteSet(1 .. Len(frames)) /\ IsFiniteSet(Lines)
  <2>1. Len(frames) \in Int /\ 1 \in Int /\ 0 \in Int /\ 7 \in Int
    BY TopFrame
  <2>2. IsFiniteSet(1 .. Len(frames)) /\ IsFiniteSet(0 .. 7)
    BY <2>1, FS_Interval
  <2> QED BY <2>2 DEF Lines
<1>2. Owing(pic) \in SUBSET (1 .. Len(frames))
  BY TopFrame DEF Owing
<1>3. chip[pic].isr \in SUBSET Lines
  BY DEF TypeInv, ChipState
<1>4. IsFiniteSet(Owing(pic)) /\ IsFiniteSet(chip[pic].isr)
  BY <1>1, <1>2, <1>3, FS_Subset
<1>5. Cardinality(Owing(pic)) \in Nat /\ Cardinality(chip[pic].isr) \in Nat
  BY <1>4, FS_CardinalityType
<1>6. IsFiniteSet(Now(pic))
  BY FS_EmptySet, FS_Singleton DEF Now
<1>7. Cardinality(Now(pic)) \in Nat
  BY <1>6, FS_CardinalityType
<1>8. Cardinality({}) = 0 /\ Cardinality({Cascade}) = 1
  BY FS_EmptySet, FS_Singleton
<1>9. Cardinality(chip[pic].isr) = 0 => chip[pic].isr = {}
  BY <1>4, FS_EmptySet
<1> QED BY <1>2, <1>3, <1>4, <1>5, <1>6, <1>7, <1>8, <1>9

LEMMA OneMore ==
    ASSUME NEW S, IsFiniteSet(S), NEW x
    PROVE  /\ x \notin S => Cardinality(S \cup {x}) = Cardinality(S) + 1
           /\ Cardinality(S \cup {x}) <= Cardinality(S) + 1
           /\ Cardinality(S \cup {x}) \in Nat /\ Cardinality(S) \in Nat
<1>1. IsFiniteSet(S \cup {x}) /\ Cardinality(S \cup {x}) = IF x \in S THEN Cardinality(S) ELSE Cardinality(S) + 1
  BY FS_AddElement
<1>2. Cardinality(S) \in Nat /\ Cardinality(S \cup {x}) \in Nat
  BY <1>1, FS_CardinalityType
<1>3. Cardinality(S) <= Cardinality(S) + 1
  BY <1>2
<1> QED BY <1>1, <1>2, <1>3

LEMMA OneFewer ==
    ASSUME NEW S, IsFiniteSet(S), NEW x \in S
    PROVE  /\ Cardinality(S \ {x}) = Cardinality(S) - 1
           /\ Cardinality(S \ {x}) \in Nat /\ Cardinality(S) \in Nat
<1>1. IsFiniteSet(S \ {x}) /\ Cardinality(S \ {x}) = Cardinality(S) - 1
  BY FS_RemoveElement
<1> QED BY <1>1, FS_CardinalityType

(* Nothing changes in what one controller is owed.                          *)
LEMMA ServiceSame ==
    ASSUME NEW pic \in Pics, Service(pic),
           chip'[pic].isr = chip[pic].isr, Now(pic)' = Now(pic), Owing(pic)' = Owing(pic),
           \A k \in Owing(pic) : frames'[k].took = frames[k].took,
           overlapped => overlapped'
    PROVE  Service(pic)'
<1>1. Taken(pic)' = Taken(pic)
  BY DEF Taken
<1>2. Cardinality(chip[pic].isr)' <= Cardinality(Owing(pic))' + Cardinality(Now(pic))'
  BY DEF Service
<1>3. ASSUME ~overlapped'
      PROVE  /\ chip'[pic].isr = Taken(pic)' \cup Now(pic)'
             /\ \A j, k \in Owing(pic)' : \A n, m \in Lines :
                  j < k /\ <<pic, n>> \in frames'[j].took /\ <<pic, m>> \in frames'[k].took => m < n
             /\ \A k \in Owing(pic)', n \in Lines, m \in Now(pic)' :
                  <<pic, n>> \in frames'[k].took => m < n
  BY <1>1, <1>3 DEF Service
<1> QED BY <1>2, <1>3 DEF Service

(* A handler is entered: what it has to tell whom.                          *)
LEMMA OwingOnEntry ==
    ASSUME TypeInv, NEW pic \in Pics, NEW f \in Frame, frames' = Append(frames, f)
    PROVE  /\ Owing(pic)' = IF pic \in f.owes THEN Owing(pic) \cup {Len(frames) + 1} ELSE Owing(pic)
           /\ \A k \in Owing(pic) : k \in 1 .. Len(frames) /\ frames'[k] = frames[k]
           /\ Len(frames) + 1 \notin Owing(pic)
           /\ frames'[Len(frames) + 1] = f /\ Len(frames) \in Nat
<1>1. /\ DOMAIN frames' = DOMAIN frames \cup {Len(frames) + 1} /\ frames'[Len(frames) + 1] = f
      /\ \A k \in 1 .. Len(frames) : frames'[k] = frames[k]
  BY Entered
<1>2. DOMAIN frames = 1 .. Len(frames) /\ Len(frames) \in Nat
  BY TopFrame
<1>3. Len(frames) + 1 \notin 1 .. Len(frames)
  BY <1>2
<1>4. Owing(pic)' = IF pic \in f.owes THEN Owing(pic) \cup {Len(frames) + 1} ELSE Owing(pic)
  BY <1>1, <1>2, <1>3 DEF Owing
<1> QED BY <1>1, <1>2, <1>3, <1>4 DEF Owing

LEMMA TakenOnEntry ==
    ASSUME TypeInv, NEW pic \in Pics, NEW f \in Frame, frames' = Append(frames, f), pic \in f.owes
    PROVE  Taken(pic)' = Taken(pic) \cup {n \in Lines : <<pic, n>> \in f.took}
<1>1. /\ Owing(pic)' = Owing(pic) \cup {Len(frames) + 1}
      /\ \A k \in Owing(pic) : frames'[k] = frames[k]
      /\ frames'[Len(frames) + 1] = f
  BY OwingOnEntry
<1> QED BY <1>1 DEF Taken

(* It is called for the first line the controller asks for, or for none.    *)
LEMMA ServiceOnEntry ==
    ASSUME TypeInv, NEW pic \in Pics, Service(pic), NEW f \in Frame, pic \in f.owes,
           frames' = Append(frames, f), overlapped' = overlapped, Now(pic) = {}, Now(pic)' = {},
           NEW new \in SUBSET Lines, new = {n \in Lines : <<pic, n>> \in f.took},
           chip'[pic].isr = chip[pic].isr \cup new,
           new = {} \/ \E n \in Lines : new = {n} /\ \A m \in chip[pic].isr : n < m
    PROVE  Service(pic)'
<1>1. /\ Owing(pic)' = Owing(pic) \cup {Len(frames) + 1} /\ Len(frames) + 1 \notin Owing(pic)
      /\ \A k \in Owing(pic) : k \in 1 .. Len(frames) /\ frames'[k] = frames[k]
      /\ frames'[Len(frames) + 1] = f /\ Len(frames) \in Nat
  BY OwingOnEntry
<1>2. /\ IsFiniteSet(Owing(pic)) /\ Cardinality(Owing(pic)) \in Nat
      /\ IsFiniteSet(chip[pic].isr) /\ Cardinality(chip[pic].isr) \in Nat /\ Cardinality({}) = 0
  BY OwingIsFinite
<1>3. Cardinality(chip[pic].isr)' <= Cardinality(Owing(pic))' + Cardinality(Now(pic))'
  <2>1. Cardinality(Owing(pic))' = Cardinality(Owing(pic)) + 1
    <3>1. Cardinality(Owing(pic) \cup {Len(frames) + 1}) = Cardinality(Owing(pic)) + 1
      BY <1>1, <1>2, OneMore
    <3> QED BY <3>1, <1>1
  <2>2. Cardinality(chip'[pic].isr) <= Cardinality(chip[pic].isr) + 1
    <3>1. CASE new = {}
      <4>1. chip'[pic].isr = chip[pic].isr
        BY <3>1
      <4>2. Cardinality(chip[pic].isr) <= Cardinality(chip[pic].isr) + 1
        BY <1>2
      <4> QED BY <4>1, <4>2
    <3>2. ASSUME NEW n \in Lines, new = {n} PROVE Cardinality(chip'[pic].isr) <= Cardinality(chip[pic].isr) + 1
      <4>1. chip'[pic].isr = chip[pic].isr \cup {n}
        BY <3>2
      <4>2. Cardinality(chip[pic].isr \cup {n}) <= Cardinality(chip[pic].isr) + 1
        BY <1>2, OneMore
      <4> QED BY <4>1, <4>2
    <3> QED BY <3>1, <3>2
  <2>3. Cardinality(chip[pic].isr) <= Cardinality(Owing(pic))
    BY <1>2 DEF Service
  <2>4. Cardinality(Now(pic))' = 0
    BY <1>2
  <2>5. Cardinality(chip'[pic].isr) \in Nat
    <3>1. new = {} \/ \E n : new = {n}
      OBVIOUS
    <3>2. CASE new = {}
      <4>1. chip'[pic].isr = chip[pic].isr
        BY <3>2
      <4> QED BY <4>1, <1>2
    <3>3. ASSUME NEW n, new = {n} PROVE Cardinality(chip'[pic].isr) \in Nat
      <4>1. chip'[pic].isr = chip[pic].isr \cup {n}
        BY <3>3
      <4>2. Cardinality(chip[pic].isr \cup {n}) \in Nat
        BY <1>2, OneMore
      <4> QED BY <4>1, <4>2
    <3> QED BY <3>1, <3>2, <3>3
  <2> QED BY <2>1, <2>2, <2>3, <2>4, <2>5, <1>2
<1>4. Taken(pic)' = Taken(pic) \cup new
  BY TakenOnEntry
<1>5. ASSUME ~overlapped'
      PROVE  /\ chip'[pic].isr = Taken(pic)' \cup Now(pic)'
             /\ \A j, k \in Owing(pic)' : \A n, m \in Lines :
                  j < k /\ <<pic, n>> \in frames'[j].took /\ <<pic, m>> \in frames'[k].took => m < n
             /\ \A k \in Owing(pic)', n \in Lines, m \in Now(pic)' :
                  <<pic, n>> \in frames'[k].took => m < n
  <2>1. chip[pic].isr = Taken(pic)
    BY <1>5 DEF Service
  <2>2. chip'[pic].isr = Taken(pic)' \cup Now(pic)'
    BY <2>1, <1>4
  <2>3. ASSUME NEW j \in Owing(pic)', NEW k \in Owing(pic)', NEW n \in Lines, NEW m \in Lines,
               j < k, <<pic, n>> \in frames'[j].took, <<pic, m>> \in frames'[k].took
        PROVE  m < n
    <3>1. j \in Owing(pic)
      BY <2>3, <1>1
    <3>2. <<pic, n>> \in frames[j].took
      BY <3>1, <2>3, <1>1
    <3>3. CASE k \in Owing(pic)
      <4>1. <<pic, m>> \in frames[k].took
        BY <3>3, <2>3, <1>1
      <4> QED BY <1>5, <2>3, <3>1, <3>2, <3>3, <4>1 DEF Service
    <3>4. CASE k = Len(frames) + 1
      <4>1. m \in new
        BY <3>4, <2>3, <1>1
      <4>2. n \in Taken(pic)
        BY <3>1, <3>2 DEF Taken
      <4> QED BY <4>1, <4>2, <2>1
    <3> QED BY <3>3, <3>4, <2>3, <1>1
  <2> QED BY <2>2, <2>3
<1> QED BY <1>3, <1>5 DEF Service

(* It is called for the line that PIC1 has set in service before PIC2       *)
(* answers for it.                                                          *)
LEMMA ServiceOnPromise ==
    ASSUME TypeInv, NEW pic \in Pics, Service(pic), NEW f \in Frame, pic \in f.owes,
           frames' = Append(frames, f), overlapped' = overlapped, Now(pic)' = {},
           Now(pic) = {Cascade}, Now(pic) = {n \in Lines : <<pic, n>> \in f.took},
           chip'[pic].isr = chip[pic].isr
    PROVE  Service(pic)'
<1>1. /\ Owing(pic)' = Owing(pic) \cup {Len(frames) + 1} /\ Len(frames) + 1 \notin Owing(pic)
      /\ \A k \in Owing(pic) : k \in 1 .. Len(frames) /\ frames'[k] = frames[k]
      /\ frames'[Len(frames) + 1] = f /\ Len(frames) \in Nat
  BY OwingOnEntry
<1>2. /\ IsFiniteSet(Owing(pic)) /\ Cardinality(Owing(pic)) \in Nat /\ Cardinality(chip[pic].isr) \in Nat
      /\ Cardinality({}) = 0 /\ Cardinality({Cascade}) = 1
  BY OwingIsFinite
<1>3. Cardinality(chip[pic].isr)' <= Cardinality(Owing(pic))' + Cardinality(Now(pic))'
  <2>1. Cardinality(Owing(pic))' = Cardinality(Owing(pic)) + 1
    <3>1. Cardinality(Owing(pic) \cup {Len(frames) + 1}) = Cardinality(Owing(pic)) + 1
      BY <1>1, <1>2, OneMore
    <3> QED BY <3>1, <1>1
  <2>2. Cardinality(chip[pic].isr) <= Cardinality(Owing(pic)) + 1
    BY <1>2 DEF Service
  <2>3. Cardinality(Now(pic))' = 0 /\ Cardinality(chip[pic].isr)' = Cardinality(chip[pic].isr)
    BY <1>2
  <2> QED BY <2>1, <2>2, <2>3, <1>2
<1>4. Taken(pic)' = Taken(pic) \cup Now(pic)
  BY TakenOnEntry
<1>5. ASSUME ~overlapped'
      PROVE  /\ chip'[pic].isr = Taken(pic)' \cup Now(pic)'
             /\ \A j, k \in Owing(pic)' : \A n, m \in Lines :
                  j < k /\ <<pic, n>> \in frames'[j].took /\ <<pic, m>> \in frames'[k].took => m < n
             /\ \A k \in Owing(pic)', n \in Lines, m \in Now(pic)' :
                  <<pic, n>> \in frames'[k].took => m < n
  <2>1. chip'[pic].isr = Taken(pic)' \cup Now(pic)'
    BY <1>4, <1>5 DEF Service
  <2>2. ASSUME NEW j \in Owing(pic)', NEW k \in Owing(pic)', NEW n \in Lines, NEW m \in Lines,
               j < k, <<pic, n>> \in frames'[j].took, <<pic, m>> \in frames'[k].took
        PROVE  m < n
    <3>1. j \in Owing(pic)
      BY <2>2, <1>1
    <3>2. <<pic, n>> \in frames[j].took
      BY <3>1, <2>2, <1>1
    <3>3. CASE k \in Owing(pic)
      <4>1. <<pic, m>> \in frames[k].took
        BY <3>3, <2>2, <1>1
      <4> QED BY <1>5, <2>2, <3>1, <3>2, <3>3, <4>1 DEF Service
    <3>4. CASE k = Len(frames) + 1
      <4>1. m \in Now(pic)
        BY <3>4, <2>2, <1>1
      <4> QED BY <1>5, <3>1, <3>2, <4>1 DEF Service
    <3> QED BY <3>3, <3>4, <2>2, <1>1
  <2> QED BY <2>1, <2>2
<1> QED BY <1>3, <1>5 DEF Service

(* A handler tells a controller that its interrupt has ended: it is the     *)
(* last of those that owe it, and so the first of what is in service, or    *)
(* it had nothing in service there, and a spurious interrupt was            *)
(* acknowledged for another.                                                *)
LEMMA ServiceOnEnd ==
    ASSUME TypeInv, NEW pic \in Pics, Service(pic), Now(pic) = {}, Now(pic)' = {},
           Len(frames) \in Owing(pic), Owing(pic)' = Owing(pic) \ {Len(frames)},
           \A k \in 1 .. Len(frames) : frames'[k].took = frames[k].took,
           \A n, m \in Lines : <<pic, n>> \in Top.took /\ <<pic, m>> \in Top.took => n = m,
           chip'[pic].isr = IF chip[pic].isr = {} THEN {} ELSE chip[pic].isr \ {Min(chip[pic].isr)},
           overlapped' = (\/ overlapped
                          \/ chip[pic].isr # {} /\ \A bit \in Top.took : bit[1] # pic)
    PROVE  Service(pic)'
<1>1. /\ IsFiniteSet(Owing(pic)) /\ Cardinality(Owing(pic)) \in Nat /\ Owing(pic) \subseteq 1 .. Len(frames)
      /\ IsFiniteSet(chip[pic].isr) /\ Cardinality(chip[pic].isr) \in Nat
      /\ Cardinality({}) = 0 /\ chip[pic].isr \in SUBSET Lines
  BY OwingIsFinite
<1>2. Top = frames[Len(frames)] /\ Len(frames) \in Nat /\ Top \in Frame
  BY TopFrame
<1>3. chip[pic].isr # {} => Min(chip[pic].isr) \in chip[pic].isr /\ \A n \in chip[pic].isr : Min(chip[pic].isr) <= n
  BY <1>1, Least
<1>4. Cardinality(chip[pic].isr)' <= Cardinality(Owing(pic))' + Cardinality(Now(pic))'
  <2>1. Cardinality(Owing(pic) \ {Len(frames)}) = Cardinality(Owing(pic)) - 1
    BY <1>1, OneFewer
  <2>2. Cardinality(Owing(pic) \ {Len(frames)}) \in Nat
    BY <1>1, OneFewer
  <2>3. Cardinality(chip[pic].isr) <= Cardinality(Owing(pic))
    BY <1>1 DEF Service
  <2>4. Cardinality(Now(pic))' = 0
    BY <1>1
  <2>5. CASE chip[pic].isr = {}
    <3>1. Cardinality(chip[pic].isr)' = 0
      BY <2>5, <1>1
    <3> QED BY <3>1, <2>2, <2>4
  <2>6. CASE chip[pic].isr # {}
    <3>1. PICK m \in chip[pic].isr : m = Min(chip[pic].isr)
      BY <2>6, <1>3
    <3>2. chip'[pic].isr = chip[pic].isr \ {m}
      BY <3>1, <2>6
    <3>3. Cardinality(chip[pic].isr \ {m}) = Cardinality(chip[pic].isr) - 1
      BY <1>1, OneFewer
    <3>4. Cardinality(chip'[pic].isr) = Cardinality(chip[pic].isr) - 1
      BY <3>2, <3>3
    <3>5. Cardinality(Owing(pic)') = Cardinality(Owing(pic)) - 1
      BY <2>1
    <3>6. \A a, b \in Nat : a <= b => a - 1 <= b - 1 + 0
      OBVIOUS
    <3> QED BY <3>4, <3>5, <3>6, <2>3, <2>4, <1>1
  <2> QED BY <2>5, <2>6
<1>5. ASSUME ~overlapped'
      PROVE  /\ chip'[pic].isr = Taken(pic)' \cup Now(pic)'
             /\ \A j, k \in Owing(pic)' : \A n, m \in Lines :
                  j < k /\ <<pic, n>> \in frames'[j].took /\ <<pic, m>> \in frames'[k].took => m < n
             /\ \A k \in Owing(pic)', n \in Lines, m \in Now(pic)' :
                  <<pic, n>> \in frames'[k].took => m < n
  <2>1. /\ chip[pic].isr = Taken(pic)
        /\ \A j, k \in Owing(pic) : \A n, m \in Lines :
              j < k /\ <<pic, n>> \in frames[j].took /\ <<pic, m>> \in frames[k].took => m < n
    BY <1>5 DEF Service
  <2>2. \A j, k \in Owing(pic)' : \A n, m \in Lines :
           j < k /\ <<pic, n>> \in frames'[j].took /\ <<pic, m>> \in frames'[k].took => m < n
    BY <2>1, <1>1
  <2>3. \A n \in Lines : n \in Taken(pic)' <=> \E k \in Owing(pic) \ {Len(frames)} : <<pic, n>> \in frames[k].took
    BY <1>1 DEF Taken
  <2>4. CASE chip[pic].isr = {}
    <3>1. \A n \in Lines : n \notin Taken(pic)'
      BY <2>1, <2>3, <2>4 DEF Taken
    <3>2. Taken(pic)' = {}
      BY <3>1 DEF Taken
    <3> QED BY <2>4, <2>2, <3>2
  <2>5. CASE chip[pic].isr # {}
    <3>1. PICK bit \in Top.took : bit[1] = pic
      BY <1>5, <2>5
    <3>2. PICK m \in Lines : bit = <<pic, m>>
      BY <3>1, <1>2 DEF Frame
    <3>3. ASSUME NEW n \in Lines, n \in Taken(pic)' PROVE m < n
      <4>1. PICK j \in Owing(pic) \ {Len(frames)} : <<pic, n>> \in frames[j].took
        BY <3>3, <2>3
      <4>2. j < Len(frames)
        BY <4>1, <1>1, <1>2
      <4>3. <<pic, m>> \in frames[Len(frames)].took
        BY <3>1, <3>2, <1>2
      <4> QED BY <2>1, <4>1, <4>2, <4>3
    <3>4. \A n \in Lines : n \in Taken(pic) <=> n = m \/ n \in Taken(pic)'
      BY <2>3, <1>2, <3>1, <3>2 DEF Taken
    <3>5. \A n \in chip[pic].isr : m <= n
      BY <2>1, <3>3, <3>4, <1>1 DEF Lines
    <3>6. m \in chip[pic].isr
      BY <2>1, <3>4
    <3>7. Min(chip[pic].isr) = m
      BY <3>5, <3>6, <1>3, <1>1, <2>5 DEF Lines
    <3>8. m \notin Taken(pic)'
      BY <3>3 DEF Lines
    <3>9. chip'[pic].isr = Taken(pic)'
      <4>1. Taken(pic)' \subseteq Lines /\ Taken(pic) \subseteq Lines
        BY DEF Taken
      <4> QED BY <2>1, <2>5, <3>4, <3>7, <3>8, <4>1
    <3> QED BY <2>2, <3>9
  <2> QED BY <2>4, <2>5
<1> QED BY <1>4, <1>5 DEF Service

-----------------------------------------------------------------------------
(* Writes to a controller, and what the kernel and the handlers keep.       *)

LEMMA WordsAre ==
    /\ \A icw \in Words : icw # <<>> => Head(icw) \in {"offset", "wired", "mode"} /\ Tail(icw) \in Words
    /\ Head(<<"offset", "wired", "mode">>) = "offset" /\ Tail(<<"offset", "wired", "mode">>) = <<"wired", "mode">>
    /\ Head(<<"wired", "mode">>) = "wired" /\ Tail(<<"wired", "mode">>) = <<"mode">>
    /\ Head(<<"mode">>) = "mode" /\ Tail(<<"mode">>) = <<>>
    /\ <<"offset", "wired", "mode">> # <<>> /\ <<"wired", "mode">> # <<>> /\ <<"mode">> # <<>>
<1>1. Head(<<"offset", "wired", "mode">>) = "offset" /\ Tail(<<"offset", "wired", "mode">>) = <<"wired", "mode">>
  OBVIOUS
<1>2. Head(<<"wired", "mode">>) = "wired" /\ Tail(<<"wired", "mode">>) = <<"mode">>
  OBVIOUS
<1>3. Head(<<"mode">>) = "mode" /\ Tail(<<"mode">>) = <<>>
  OBVIOUS
<1>4. <<"offset", "wired", "mode">> # <<>> /\ <<"wired", "mode">> # <<>> /\ <<"mode">> # <<>>
  OBVIOUS
<1> QED BY <1>1, <1>2, <1>3, <1>4 DEF Words

LEMMA WrittenType ==
    ASSUME NEW c \in ChipState, NEW reg, NEW value \in Nat
    PROVE  Written(c, reg, value) \in ChipState
<1>1. Reset(c) \in ChipState
  BY DEF Reset, ChipState, Words
<1>2. EndOfInterrupt(c) \in ChipState
  BY DEF EndOfInterrupt, ChipState
<1>3. [c EXCEPT !.imr = BitsOf(value)] \in ChipState
  BY DEF ChipState, BitsOf
<1>4. ASSUME c.icw # <<>>
      PROVE  /\ Head(c.icw) \in {"offset", "wired", "mode"}
             /\ [c EXCEPT !.icw = Tail(@), !.offset = 8 * (value \div 8)] \in ChipState
             /\ [c EXCEPT !.icw = Tail(@), !.wired = value] \in ChipState
             /\ [c EXCEPT !.icw = Tail(@)] \in ChipState
  <2>1. c.icw \in Words /\ Head(c.icw) \in {"offset", "wired", "mode"} /\ Tail(c.icw) \in Words
    BY <1>4, WordsAre DEF ChipState
  <2>2. 8 * (value \div 8) \in Nat
    OBVIOUS
  <2> QED BY <2>1, <2>2 DEF ChipState
<1> QED BY <1>1, <1>2, <1>3, <1>4 DEF Written

LEMMA WrittenService ==
    ASSUME NEW c \in ChipState, NEW reg, NEW value \in Nat
    PROVE  Written(c, reg, value).isr \subseteq c.isr
<1>1. Reset(c).isr = {} /\ EndOfInterrupt(c).isr \subseteq c.isr
  BY DEF Reset, EndOfInterrupt, ChipState
<1>2. ASSUME c.icw # <<>>
      PROVE  /\ Head(c.icw) \in {"offset", "wired", "mode"}
             /\ [c EXCEPT !.icw = Tail(@), !.offset = 8 * (value \div 8)].isr = c.isr
             /\ [c EXCEPT !.icw = Tail(@), !.wired = value].isr = c.isr
             /\ [c EXCEPT !.icw = Tail(@)].isr = c.isr
  BY <1>2, WordsAre DEF ChipState
<1>3. [c EXCEPT !.imr = BitsOf(value)].isr = c.isr
  BY DEF ChipState
<1> QED BY <1>1, <1>2, <1>3 DEF Written

LEMMA ServeType ==
    ASSUME NEW c \in ChipState, NEW n \in Lines
    PROVE  /\ Serve(c, n) \in ChipState /\ Serve(c, n).isr = c.isr \cup {n}
           /\ Serve(c, n).imr = c.imr /\ Serve(c, n).icw = c.icw
           /\ Serve(c, n).offset = c.offset /\ Serve(c, n).wired = c.wired
BY DEF Serve, ChipState

LEMMA EndType ==
    ASSUME NEW c \in ChipState
    PROVE  /\ EndOfInterrupt(c).isr = IF c.isr = {} THEN {} ELSE c.isr \ {Min(c.isr)}
           /\ EndOfInterrupt(c).imr = c.imr /\ EndOfInterrupt(c).icw = c.icw
           /\ EndOfInterrupt(c).offset = c.offset /\ EndOfInterrupt(c).wired = c.wired
BY DEF EndOfInterrupt, ChipState

LEMMA ChipTypes ==
    ASSUME TypeInv
    PROVE  \A pic \in Pics :
              /\ chip[pic] \in ChipState /\ chip[pic].irr \subseteq Lines /\ chip[pic].isr \subseteq Lines
              /\ chip[pic].imr \subseteq Lines /\ chip[pic].icw \in Words
              /\ chip[pic].offset \in Nat /\ chip[pic].wired \in Nat
BY DEF TypeInv, ChipState

LEMMA ChipReplaced ==
    ASSUME TypeInv, NEW pic \in Pics, NEW c \in ChipState, chip' = [chip EXCEPT ![pic] = c]
    PROVE  /\ chip' \in [Pics -> ChipState] /\ chip'[pic] = c
           /\ \A other \in Pics : other # pic => chip'[other] = chip[other]
BY DEF TypeInv

SameSettings(pic) ==
    /\ chip'[pic].imr = chip[pic].imr /\ chip'[pic].icw = chip[pic].icw
    /\ chip'[pic].offset = chip[pic].offset /\ chip'[pic].wired = chip[pic].wired

LEMMA KernelSame ==
    ASSUME KernelInv, frames'[1] = frames[1], phase' = phase,
           \A pic \in Pics : SameSettings(pic),
           phase = "init" => Len(frames') = 1 /\ cpu' = "run",
           Len(frames') > 1 \/ cpu' # "run" => phase = "on"
    PROVE  KernelInv'
<1>1. /\ chip'[PIC1].imr = chip[PIC1].imr /\ chip'[PIC1].icw = chip[PIC1].icw
      /\ chip'[PIC1].offset = chip[PIC1].offset /\ chip'[PIC1].wired = chip[PIC1].wired
      /\ chip'[PIC2].imr = chip[PIC2].imr /\ chip'[PIC2].icw = chip[PIC2].icw
      /\ chip'[PIC2].offset = chip[PIC2].offset /\ chip'[PIC2].wired = chip[PIC2].wired
  BY PicsAre DEF SameSettings
<1>2. Configured => Configured'
  BY <1>1 DEF Configured
<1>3. PICK todo : todo = frames[1].todo
  OBVIOUS
<1>4. frames'[1].todo = todo /\ frames'[1].took = frames[1].took /\ frames'[1].owes = frames[1].owes
  BY <1>3
<1>5. InitToGo(Len(todo)) => InitToGo(Len(frames[1].todo))'
  BY <1>1, <1>4 DEF InitToGo
<1>6. /\ IsEnd(frames[1].todo, InitWrites)' <=> IsEnd(todo, InitWrites)
      /\ IsEnd(frames[1].todo, DisableWrites)' <=> IsEnd(todo, DisableWrites)
  BY <1>4 DEF IsEnd, InitWrites, DisableWrites, Both, Cmd, Data
<1> QED BY <1>1, <1>2, <1>3, <1>4, <1>5, <1>6 DEF KernelInv

(* The CPU and the handlers wait while the kernel is in a call of init.     *)
LEMMA Waiting ==
    ASSUME KernelInv, Len(frames) # 1 \/ cpu # "run" \/ frames[1].todo = <<>>
    PROVE  phase # "init"
BY DEF KernelInv

LEMMA NotYet ==
    ASSUME TypeInv, KernelInv
    PROVE  \A pic \in Pics : \A k \in Owing(pic) : k \in 2 .. Len(frames)
<1>1. frames[1].owes = {} /\ DOMAIN frames = 1 .. Len(frames) /\ Len(frames) \in Nat
  BY TopFrame DEF KernelInv
<1> QED BY <1>1 DEF Owing

LEMMA OneFrame ==
    ASSUME TypeInv, KernelInv, Len(frames) = 1
    PROVE  \A pic \in Pics : Owing(pic) = {}
<1>1. \A pic \in Pics : \A k \in Owing(pic) : k \in 2 .. Len(frames)
  BY NotYet
<1> QED BY <1>1

LEMMA KernelIs ==
    /\ Kernel \in Frame /\ Kernel.todo = <<>> /\ Kernel.took = {} /\ Kernel.owes = {}
    /\ <<Kernel>> \in Seq(Frame) /\ Len(<<Kernel>>) = 1 /\ <<Kernel>>[1] = Kernel /\ DOMAIN <<Kernel>> = {1}
<1>1. Kernel \in Frame /\ Kernel.todo = <<>> /\ Kernel.took = {} /\ Kernel.owes = {}
  <2>1. <<>> \in Seq(Writes)
    OBVIOUS
  <2> QED BY <2>1 DEF Kernel, Frame, Spurious
<1>2. <<Kernel>> \in Seq(Frame) /\ Len(<<Kernel>>) = 1 /\ <<Kernel>>[1] = Kernel
  BY <1>1
<1>3. DOMAIN <<Kernel>> = {1}
  OBVIOUS
<1> QED BY <1>1, <1>2, <1>3

LEMMA KernelFrame ==
    ASSUME NEW todo \in Seq(Writes), NEW f, f = [Kernel EXCEPT !.todo = todo]
    PROVE  /\ f \in Frame /\ f.todo = todo /\ f.took = {} /\ f.owes = {}
           /\ <<f>> \in Seq(Frame) /\ Len(<<f>>) = 1 /\ <<f>>[1] = f /\ DOMAIN <<f>> = {1}
<1>1. Kernel \in Frame /\ Kernel.took = {} /\ Kernel.owes = {}
  <2>1. <<>> \in Seq(Writes)
    OBVIOUS
  <2> QED BY <2>1 DEF Kernel, Frame, Spurious
<1>2. f \in Frame /\ f.todo = todo /\ f.took = {} /\ f.owes = {}
  BY <1>1 DEF Kernel, Frame
<1>3. <<f>> \in Seq(Frame) /\ Len(<<f>>) = 1 /\ <<f>>[1] = f
  BY <1>2
<1>4. DOMAIN <<f>> = {1}
  OBVIOUS
<1> QED BY <1>2, <1>3, <1>4

-----------------------------------------------------------------------------
(* Every step keeps all of it.                                              *)

LEMMA InitHolds ==
    ASSUME Init
    PROVE  IInv
<1>1. /\ frames = <<Kernel>> /\ cpu = "run" /\ phase = "boot"
      /\ nests \in BOOLEAN /\ overlapped = FALSE
  BY DEF Init
<1>2. /\ chip \in [Pics -> ChipState]
      /\ \A pic \in Pics : chip[pic].isr = {} /\ chip[pic].icw = <<>>
  BY DEF Init, Pics, PIC1, PIC2, ChipState, Words
<1>4. /\ frames \in Seq(Frame) /\ Len(frames) = 1 /\ frames[1] = Kernel /\ DOMAIN frames = {1}
      /\ Kernel.todo = <<>> /\ Kernel.took = {} /\ Kernel.owes = {}
  BY <1>1, KernelIs
<1>5. TypeInv
  <2>1. Len(frames) > 0
    BY <1>4
  <2>2. overlapped \in BOOLEAN
    BY <1>1, Zenon
  <2> QED BY <1>1, <1>2, <1>4, <2>1, <2>2, Zenon DEF TypeInv
<1>6. KernelInv
  <2>1. IsEnd(<<>>, DisableWrites) /\ Len(<<>>) = 0
    BY WholeIsEnd, DisableList
  <2>2. chip[PIC1].icw = <<>> /\ chip[PIC2].icw = <<>>
    BY <1>2, PicsAre
  <2>3. frames[1].todo = <<>> /\ frames[1].took = {} /\ frames[1].owes = {}
    BY <1>4
  <2>4. ~(Len(frames) > 1) /\ Len(frames[1].todo) # 1 /\ IsEnd(frames[1].todo, DisableWrites)
    BY <1>4, <2>1, <2>3
  <2>5. phase # "init" /\ phase # "on" /\ phase # "off"
    BY <1>1
  <2> QED BY <1>1, <2>2, <2>3, <2>4, <2>5, Zenon DEF KernelInv
<1>7. HandlersInv
  BY <1>4 DEF HandlersInv
<1>8. NestInv
  BY <1>1, <1>4 DEF NestInv
<1>9. ASSUME NEW pic \in Pics PROVE Service(pic)
  <2>1. Owing(pic) = {} /\ Now(pic) = {}
    BY <1>1, <1>5, <1>6, <1>4, OneFrame DEF Now
  <2>2. Taken(pic) = {}
    BY <2>1 DEF Taken
  <2>3. Cardinality({}) = 0
    BY FS_EmptySet
  <2>4. Cardinality(chip[pic].isr) = 0 /\ Cardinality(Owing(pic)) = 0 /\ Cardinality(Now(pic)) = 0
    BY <1>2, <2>1, <2>3
  <2>5. Cardinality(chip[pic].isr) <= Cardinality(Owing(pic)) + Cardinality(Now(pic))
    BY <2>4
  <2> QED BY <1>2, <2>1, <2>2, <2>5 DEF Service
<1> QED BY <1>5, <1>6, <1>7, <1>8, <1>9 DEF IInv, ServiceInv

(* What only changes requests, or what the CPU is about to see.             *)
LEMMA FramesUnchanged ==
    ASSUME IInv, frames' = frames, phase' = phase, nests' = nests, overlapped' = overlapped,
           chip' \in [Pics -> ChipState], cpu' \in {"run", "intr", "inta"},
           \A pic \in Pics : SameSettings(pic) /\ chip'[pic].isr = chip[pic].isr,
           cpu' = cpu \/ (cpu = "run" /\ cpu' = "intr" /\ phase = "on" /\ (Len(frames) > 1 => nests))
    PROVE  IInv'
<1>1. TypeInv /\ KernelInv /\ HandlersInv /\ NestInv /\ ServiceInv
  BY DEF IInv
<1>2. TypeInv'
  BY <1>1 DEF TypeInv
<1>3. KernelInv'
  <2>1. /\ Len(frames') > 1 \/ cpu' # "run" => phase = "on"
        /\ phase = "init" => Len(frames') = 1 /\ cpu' = "run"
    BY <1>1 DEF KernelInv
  <2> QED BY <1>1, <2>1, KernelSame
<1>4. HandlersInv'
  BY <1>1 DEF HandlersInv, Cause, Acking
<1>5. NestInv'
  BY <1>1 DEF NestInv
<1>6. ASSUME NEW pic \in Pics PROVE Service(pic)'
  <2>1. Owing(pic)' = Owing(pic) /\ Now(pic)' = Now(pic)
    BY DEF Owing, Now
  <2> QED BY <1>1, <2>1, ServiceSame DEF ServiceInv
<1> QED BY <1>2, <1>3, <1>4, <1>5, <1>6 DEF IInv, ServiceInv

LEMMA RaiseKeeps ==
    ASSUME IInv, NEW line \in 0 .. 15, Raise(line)
    PROVE  IInv'
<1>1. PICK pic \in Pics, n \in Lines : pic = PicOf(line) /\ n = line % 8
  BY DEF PicOf, Pics, Lines
<1>2. PICK c : c = [chip[pic] EXCEPT !.irr = @ \cup {n}]
  OBVIOUS
<1>3. c \in ChipState /\ c.isr = chip[pic].isr /\ c.imr = chip[pic].imr /\ c.icw = chip[pic].icw
      /\ c.offset = chip[pic].offset /\ c.wired = chip[pic].wired
  BY <1>2, ChipTypes DEF IInv, ChipState
<1>4. chip' = [chip EXCEPT ![pic] = c]
  BY <1>1, <1>2 DEF Raise
<1>5. /\ chip' \in [Pics -> ChipState] /\ chip'[pic] = c
      /\ \A other \in Pics : other # pic => chip'[other] = chip[other]
  BY <1>3, <1>4, ChipReplaced DEF IInv
<1>6. \A other \in Pics : SameSettings(other) /\ chip'[other].isr = chip[other].isr
  BY <1>3, <1>5 DEF SameSettings
<1>7. frames' = frames /\ phase' = phase /\ nests' = nests /\ overlapped' = overlapped /\ cpu' = cpu
  BY DEF Raise
<1>8. cpu' \in {"run", "intr", "inta"}
  BY <1>7 DEF IInv, TypeInv
<1> QED BY <1>5, <1>6, <1>7, <1>8, FramesUnchanged

LEMMA WithdrawKeeps ==
    ASSUME IInv, NEW line \in 0 .. 15, Withdraw(line)
    PROVE  IInv'
<1>1. PICK pic \in Pics, n \in Lines : pic = PicOf(line) /\ n = line % 8
  BY DEF PicOf, Pics, Lines
<1>2. PICK c : c = [chip[pic] EXCEPT !.irr = @ \ {n}]
  OBVIOUS
<1>3. c \in ChipState /\ c.isr = chip[pic].isr /\ c.imr = chip[pic].imr /\ c.icw = chip[pic].icw
      /\ c.offset = chip[pic].offset /\ c.wired = chip[pic].wired
  BY <1>2, ChipTypes DEF IInv, ChipState
<1>4. chip' = [chip EXCEPT ![pic] = c]
  BY <1>1, <1>2 DEF Withdraw
<1>5. /\ chip' \in [Pics -> ChipState] /\ chip'[pic] = c
      /\ \A other \in Pics : other # pic => chip'[other] = chip[other]
  BY <1>3, <1>4, ChipReplaced DEF IInv
<1>6. \A other \in Pics : SameSettings(other) /\ chip'[other].isr = chip[other].isr
  BY <1>3, <1>5 DEF SameSettings
<1>7. frames' = frames /\ phase' = phase /\ nests' = nests /\ overlapped' = overlapped /\ cpu' = cpu
  BY DEF Withdraw
<1>8. cpu' \in {"run", "intr", "inta"}
  BY <1>7 DEF IInv, TypeInv
<1> QED BY <1>5, <1>6, <1>7, <1>8, FramesUnchanged

(* Nothing is asked for once disable has masked every line.                 *)
LEMMA MaskedAsksNothing ==
    ASSUME TypeInv, chip[PIC1].imr = Lines
    PROVE  UpperAsks = {}
<1>1. chip[PIC1].irr \subseteq Lines /\ Cascade \in Lines
  BY ChipTypes, PicsAre DEF Cascade, Lines
<1> QED BY <1>1 DEF UpperAsks, Asks

LEMMA SeeKeeps ==
    ASSUME IInv, See
    PROVE  IInv'
<1>1. TypeInv /\ KernelInv
  BY DEF IInv
<1>2. phase = "on"
  <2>1. phase # "off"
    BY <1>1, MaskedAsksNothing DEF See, KernelInv
  <2>2. CASE InKernel
    BY <2>1, <2>2 DEF See, Enabled
  <2>3. CASE ~InKernel
    BY <2>3, <1>1, TopFrame DEF InKernel, KernelInv
  <2> QED BY <2>2, <2>3
<1>3. Len(frames) > 1 => nests
  <2>1. Len(frames) > 1 => ~InKernel
    BY <1>1, TopFrame DEF InKernel
  <2> QED BY <2>1, Zenon DEF See, Enabled
<1>4. /\ frames' = frames /\ phase' = phase /\ nests' = nests /\ overlapped' = overlapped
      /\ chip' = chip /\ cpu = "run" /\ cpu' = "intr"
  BY DEF See
<1>5. \A pic \in Pics : SameSettings(pic) /\ chip'[pic].isr = chip[pic].isr
  BY <1>4 DEF SameSettings
<1>6. chip' \in [Pics -> ChipState]
  BY <1>1, <1>4 DEF TypeInv
<1> QED BY <1>2, <1>3, <1>4, <1>5, <1>6, FramesUnchanged

(* A step of the kernel, with no handler on top.                            *)
LEMMA InTheKernel ==
    ASSUME IInv, cpu = "run", cpu' = "run", Len(frames) = 1,
           frames' \in Seq(Frame), Len(frames') = 1, frames'[1].owes = {},
           chip' \in [Pics -> ChipState], \A pic \in Pics : chip'[pic].isr \subseteq chip[pic].isr,
           nests' = nests, overlapped' = overlapped, phase' \in {"boot", "init", "on", "off"}
    PROVE  TypeInv' /\ HandlersInv' /\ NestInv' /\ ServiceInv'
<1>1. TypeInv /\ KernelInv /\ NestInv /\ ServiceInv
  BY DEF IInv
<1>2. TypeInv'
  <2>1. Len(frames') > 0
    OBVIOUS
  <2> QED BY <1>1, <2>1 DEF TypeInv
<1>3. HandlersInv'
  BY DEF HandlersInv
<1>4. NestInv'
  BY <1>1 DEF NestInv
<1>5. ASSUME NEW pic \in Pics PROVE Service(pic)'
  <2>1. Owing(pic) = {} /\ Now(pic) = {}
    BY <1>1, OneFrame DEF Now
  <2>2. Cardinality({}) = 0
    BY FS_EmptySet
  <2>3. chip[pic].isr = {}
    <3>1. Cardinality(chip[pic].isr) \in Nat /\ (Cardinality(chip[pic].isr) = 0 => chip[pic].isr = {})
      BY <1>1, OwingIsFinite
    <3>2. Cardinality(chip[pic].isr) <= Cardinality({}) + Cardinality({})
      BY <1>1, <2>1 DEF ServiceInv, Service
    <3> QED BY <2>2, <3>1, <3>2
  <2>4. chip'[pic].isr = {}
    BY <2>3
  <2>5. DOMAIN frames' = {1}
    BY LenProperties
  <2>6. Owing(pic)' = {} /\ Now(pic)' = {}
    BY <2>5 DEF Owing, Now
  <2>7. Taken(pic)' = {}
    BY <2>6 DEF Taken
  <2>8. Cardinality(chip[pic].isr)' <= Cardinality(Owing(pic))' + Cardinality(Now(pic))'
    <3>1. Cardinality(chip[pic].isr)' = 0 /\ Cardinality(Owing(pic))' = 0 /\ Cardinality(Now(pic))' = 0
      BY <2>2, <2>4, <2>6
    <3> QED BY <3>1
  <2> QED BY <2>4, <2>6, <2>7, <2>8 DEF Service
<1> QED BY <1>2, <1>3, <1>4, <1>5 DEF ServiceInv

LEMMA CallInitKeeps ==
    ASSUME IInv, CallInit
    PROVE  IInv'
<1>1. TypeInv /\ KernelInv /\ Len(frames) = 1 /\ cpu = "run" /\ frames[1].todo = <<>>
  BY TopFrame DEF IInv, CallInit, InKernel
<1>2. PICK f : f = [Kernel EXCEPT !.todo = InitWrites]
  OBVIOUS
<1>3. /\ frames' \in Seq(Frame) /\ Len(frames') = 1 /\ frames'[1] = f
      /\ f.todo = InitWrites /\ f.took = {} /\ f.owes = {}
  <2>1. /\ <<f>> \in Seq(Frame) /\ Len(<<f>>) = 1 /\ <<f>>[1] = f
        /\ f.todo = InitWrites /\ f.took = {} /\ f.owes = {}
    <3>1. PICK todo \in Seq(Writes) : todo = InitWrites
      BY InitList
    <3>2. f = [Kernel EXCEPT !.todo = todo]
      BY <1>2, <3>1
    <3>3. f.todo = todo /\ f.took = {} /\ f.owes = {} /\ <<f>> \in Seq(Frame) /\ Len(<<f>>) = 1 /\ <<f>>[1] = f
      BY <3>2, KernelFrame
    <3> QED BY <3>1, <3>3
  <2>2. frames' = <<f>>
    BY <1>2 DEF CallInit
  <2> QED BY <2>1, <2>2
<1>4. /\ cpu' = "run" /\ chip' = chip /\ nests' = nests /\ overlapped' = overlapped /\ phase' = "init"
  BY <1>1 DEF CallInit
<1>5. TypeInv' /\ HandlersInv' /\ NestInv' /\ ServiceInv'
  <2>1. frames'[1].owes = {} /\ phase' \in {"boot", "init", "on", "off"}
    BY <1>3, <1>4
  <2>2. chip' \in [Pics -> ChipState] /\ \A pic \in Pics : chip'[pic].isr \subseteq chip[pic].isr
    BY <1>1, <1>4 DEF TypeInv
  <2> QED BY <1>1, <1>3, <1>4, <2>1, <2>2, InTheKernel
<1>6. phase # "init"
  BY <1>1, Waiting
<1>7. KernelInv'
  <2>1. frames'[1].todo = InitWrites /\ frames'[1].took = {} /\ frames'[1].owes = {}
    BY <1>3
  <2>2. Len(frames'[1].todo) = 10 /\ frames'[1].todo # <<>>
    <3>0. \A s : Len(s) = 10 => s # <<>>
      OBVIOUS
    <3>1. Len(InitWrites) = 10 /\ InitWrites # <<>>
      BY <3>0, InitList
    <3> QED BY <2>1, <3>1
  <2>3. IsEnd(frames[1].todo, InitWrites)'
    <3>1. IsEnd(InitWrites, InitWrites)
      BY InitList, WholeIsEnd
    <3> QED BY <3>1, <2>1 DEF IsEnd, InitWrites, Both, Cmd, Data
  <2>4. chip'[PIC1].icw = <<>> /\ chip'[PIC2].icw = <<>>
    BY <1>1, <1>4, <1>6 DEF KernelInv
  <2>5. InitToGo(Len(frames[1].todo))'
    BY <2>2, <2>4 DEF InitToGo
  <2> QED BY <1>3, <1>4, <2>1, <2>2, <2>3, <2>5 DEF KernelInv
<1> QED BY <1>5, <1>7 DEF IInv

LEMMA CallDisableKeeps ==
    ASSUME IInv, CallDisable
    PROVE  IInv'
<1>1. TypeInv /\ KernelInv /\ Len(frames) = 1 /\ cpu = "run" /\ frames[1].todo = <<>>
  BY TopFrame DEF IInv, CallDisable, InKernel
<1>2. PICK f : f = [Kernel EXCEPT !.todo = DisableWrites]
  OBVIOUS
<1>3. /\ frames' \in Seq(Frame) /\ Len(frames') = 1 /\ frames'[1] = f
      /\ f.todo = DisableWrites /\ f.took = {} /\ f.owes = {}
  <2>1. /\ <<f>> \in Seq(Frame) /\ Len(<<f>>) = 1 /\ <<f>>[1] = f
        /\ f.todo = DisableWrites /\ f.took = {} /\ f.owes = {}
    <3>1. PICK todo \in Seq(Writes) : todo = DisableWrites
      BY DisableList
    <3>2. f = [Kernel EXCEPT !.todo = todo]
      BY <1>2, <3>1
    <3>3. f.todo = todo /\ f.took = {} /\ f.owes = {} /\ <<f>> \in Seq(Frame) /\ Len(<<f>>) = 1 /\ <<f>>[1] = f
      BY <3>2, KernelFrame
    <3> QED BY <3>1, <3>3
  <2>2. frames' = <<f>>
    BY <1>2 DEF CallDisable
  <2> QED BY <2>1, <2>2
<1>4. /\ cpu' = "run" /\ chip' = chip /\ nests' = nests /\ overlapped' = overlapped /\ phase' = phase
  BY <1>1 DEF CallDisable
<1>5. TypeInv' /\ HandlersInv' /\ NestInv' /\ ServiceInv'
  <2>1. frames'[1].owes = {} /\ phase' \in {"boot", "init", "on", "off"}
    BY <1>1, <1>3, <1>4 DEF TypeInv
  <2>2. chip' \in [Pics -> ChipState] /\ \A pic \in Pics : chip'[pic].isr \subseteq chip[pic].isr
    BY <1>1, <1>4 DEF TypeInv
  <2> QED BY <1>1, <1>3, <1>4, <2>1, <2>2, InTheKernel
<1>6. phase # "init"
  BY <1>1, Waiting
<1>7. KernelInv'
  <2>1. frames'[1].todo = DisableWrites /\ frames'[1].took = {} /\ frames'[1].owes = {}
    BY <1>3
  <2>2. Len(frames'[1].todo) = 2
    BY <2>1, DisableList
  <2>3. IsEnd(frames[1].todo, DisableWrites)'
    <3>1. IsEnd(DisableWrites, DisableWrites)
      BY DisableList, WholeIsEnd
    <3> QED BY <3>1, <2>1 DEF IsEnd, DisableWrites, Both, Cmd, Data
  <2>4. chip'[PIC1].icw = <<>> /\ chip'[PIC2].icw = <<>>
    BY <1>1, <1>4, <1>6 DEF KernelInv
  <2>5. phase = "off" => chip'[PIC1].imr = Lines /\ chip'[PIC2].imr = Lines
    BY <1>1, <1>4 DEF KernelInv
  <2>6. phase = "on" => Configured'
    BY <1>1, <1>4 DEF KernelInv, Configured
  <2> QED BY <1>3, <1>4, <1>6, <2>1, <2>2, <2>3, <2>4, <2>5, <2>6 DEF KernelInv
<1> QED BY <1>5, <1>7 DEF IInv

(* The handlers but the last stay as they are.                              *)
LEMMA InAHandler ==
    ASSUME IInv, ~InKernel
    PROVE  /\ Len(frames) \in Nat /\ Len(frames) > 1 /\ Len(frames) \in 2 .. Len(frames)
           /\ Top = frames[Len(frames)] /\ Top \in Frame /\ Cause(Top) /\ Acking(Top)
           /\ phase = "on" /\ Configured
<1>1. Len(frames) \in Nat /\ Len(frames) > 0 /\ Top = frames[Len(frames)] /\ Top \in Frame
  BY TopFrame DEF IInv
<1>2. Len(frames) > 1 /\ Len(frames) \in 2 .. Len(frames)
  BY <1>1 DEF InKernel
<1>3. Cause(Top) /\ Acking(Top)
  BY <1>1, <1>2 DEF IInv, HandlersInv
<1>4. phase = "on" /\ Configured
  BY <1>2 DEF IInv, KernelInv
<1> QED BY <1>1, <1>2, <1>3, <1>4

LEMMA CallAckKeeps ==
    ASSUME IInv, CallAck
    PROVE  IInv'
<1>1. TypeInv /\ KernelInv /\ HandlersInv /\ NestInv /\ ServiceInv
  BY DEF IInv
<1>2. /\ Len(frames) \in Nat /\ Len(frames) > 1 /\ Top = frames[Len(frames)] /\ Top \in Frame
      /\ Cause(Top) /\ Acking(Top) /\ phase = "on" /\ ~Top.acked
  BY InAHandler DEF CallAck
<1>3. Top.todo = <<>> /\ Top.owes = (IF Top.vector >= 40 THEN Pics ELSE {PIC1}) /\ Top.vector \in Nat
  BY <1>2 DEF Acking, Frame
<1>4. PICK f : f = [Top EXCEPT !.todo = AckWrites(Top.vector), !.acked = TRUE]
  OBVIOUS
<1>5. AckWrites(Top.vector) = IF Top.vector >= 40 THEN <<Cmd(PIC2, 32), Cmd(PIC1, 32)>> ELSE <<Cmd(PIC1, 32)>>
  BY <1>3, AckList
<1>6. AckWrites(Top.vector) \in Seq(Writes)
  <2>1. Cmd(PIC1, 32) \in Writes /\ Cmd(PIC2, 32) \in Writes
    BY WriteTypes, PicsAre
  <2> QED BY <1>5, <2>1
<1>7. /\ f \in Frame /\ f.took = Top.took /\ f.owes = Top.owes /\ f.acked = TRUE
      /\ f.vector = Top.vector /\ f.line = Top.line /\ f.todo = AckWrites(Top.vector)
  BY <1>2, <1>4, <1>6 DEF Frame
<1>8. Cause(f) /\ Acking(f)
  <2>1. Cause(f)
    BY <1>2, <1>7 DEF Cause
  <2>2. CASE Top.vector >= 40
    <3>1. f.todo = <<Cmd(PIC2, 32), Cmd(PIC1, 32)>> /\ f.owes = Pics /\ f.acked /\ f.vector >= 40
      BY <1>3, <1>5, <1>7, <2>2
    <3> QED BY <2>1, <3>1 DEF Acking
  <2>3. CASE ~(Top.vector >= 40)
    <3>1. f.todo = <<Cmd(PIC1, 32)>> /\ f.owes = {PIC1} /\ f.acked
      BY <1>3, <1>5, <1>7, <2>3
    <3> QED BY <2>1, <3>1 DEF Acking
  <2> QED BY <2>1, <2>2, <2>3
<1>9. frames' = [frames EXCEPT ![Len(frames)] = f]
  BY <1>2, <1>4 DEF CallAck
<1>10. /\ frames' \in Seq(Frame) /\ Len(frames') = Len(frames) /\ DOMAIN frames' = DOMAIN frames
       /\ frames'[Len(frames)] = f /\ DOMAIN frames = 1 .. Len(frames)
       /\ \A k \in 1 .. Len(frames) : k # Len(frames) => frames'[k] = frames[k]
  BY <1>1, <1>7, <1>9, TopReplaced, TopFrame
<1>11. chip' = chip /\ cpu' = cpu /\ phase' = phase /\ nests' = nests /\ overlapped' = overlapped
  BY DEF CallAck
<1>12. TypeInv'
  BY <1>1, <1>10, <1>11 DEF TypeInv
<1>13. KernelInv'
  <2>1. \A pic \in Pics : SameSettings(pic)
    BY <1>11 DEF SameSettings
  <2>2. 1 \in 1 .. Len(frames) /\ 1 # Len(frames)
    BY <1>2
  <2>3. frames'[1] = frames[1]
    BY <2>2, <1>10
  <2> QED BY <1>1, <1>2, <1>11, <2>1, <2>3, KernelSame
<1>14. ASSUME NEW k \in 2 .. Len(frames') PROVE Cause(frames'[k]) /\ Acking(frames'[k])
  <2>1. k \in 2 .. Len(frames)
    BY <1>10
  <2>2. CASE k = Len(frames)
    BY <2>2, <1>8, <1>10
  <2>3. CASE k # Len(frames)
    <3>1. k \in 1 .. Len(frames)
      BY <2>1, <1>2
    <3>2. frames'[k] = frames[k]
      BY <2>3, <3>1, <1>10
    <3> QED BY <2>1, <3>2, <1>1 DEF HandlersInv
  <2> QED BY <2>2, <2>3
<1>15. NestInv'
  BY <1>1, <1>10, <1>11 DEF NestInv
<1>16. ASSUME NEW pic \in Pics PROVE Service(pic)'
  <2>1. \A k \in 1 .. Len(frames) : frames'[k].owes = frames[k].owes /\ frames'[k].took = frames[k].took
    BY <1>2, <1>7, <1>10
  <2>2. Owing(pic)' = Owing(pic) /\ Now(pic)' = Now(pic) /\ \A k \in Owing(pic) : frames'[k].took = frames[k].took
    BY <2>1, <1>10, <1>11 DEF Owing, Now
  <2> QED BY <1>1, <1>11, <2>2, ServiceSame DEF ServiceInv
<1> QED BY <1>12, <1>13, <1>14, <1>15, <1>16 DEF IInv, HandlersInv, ServiceInv

LEMMA ReturnKeeps ==
    ASSUME IInv, Return
    PROVE  IInv'
<1>1. TypeInv /\ KernelInv /\ HandlersInv /\ NestInv /\ ServiceInv
  BY DEF IInv
<1>2. /\ Len(frames) \in Nat /\ Len(frames) > 1 /\ Top = frames[Len(frames)] /\ Top \in Frame
      /\ Acking(Top) /\ phase = "on" /\ Top.acked /\ Top.todo = <<>>
  BY InAHandler DEF Return
<1>3. Top.owes = {}
  BY <1>2 DEF Acking
<1>4. /\ frames' \in Seq(Frame) /\ Len(frames') = Len(frames) - 1
      /\ DOMAIN frames' = DOMAIN frames \ {Len(frames)}
      /\ \A k \in 1 .. Len(frames) - 1 : frames'[k] = frames[k]
  BY <1>1, <1>2, Left DEF Return
<1>5. chip' = chip /\ cpu' = cpu /\ phase' = phase /\ nests' = nests /\ overlapped' = overlapped
  BY DEF Return
<1>6. TypeInv'
  <2>1. Len(frames') > 0
    BY <1>2, <1>4
  <2> QED BY <1>1, <1>4, <1>5, <2>1 DEF TypeInv
<1>7. KernelInv'
  <2>1. frames'[1] = frames[1] /\ \A pic \in Pics : SameSettings(pic)
    BY <1>2, <1>4, <1>5 DEF SameSettings
  <2> QED BY <1>1, <1>2, <1>5, <2>1, KernelSame
<1>8. ASSUME NEW k \in 2 .. Len(frames') PROVE Cause(frames'[k]) /\ Acking(frames'[k])
  <2>1. k \in 2 .. Len(frames) /\ frames'[k] = frames[k]
    BY <1>2, <1>4
  <2> QED BY <2>1, <1>1 DEF HandlersInv
<1>9. NestInv'
  <2>1. Len(frames') > 2 => Len(frames) > 2
    BY <1>2, <1>4
  <2>2. Len(frames') > 1 => Len(frames) > 1
    BY <1>2
  <2> QED BY <1>1, <1>5, <2>1, <2>2 DEF NestInv
<1>10. ASSUME NEW pic \in Pics PROVE Service(pic)'
  <2>1. DOMAIN frames = 1 .. Len(frames) /\ DOMAIN frames' = 1 .. Len(frames) - 1
    BY <1>1, <1>4, TopFrame, LenProperties
  <2>2. Owing(pic)' = Owing(pic)
    BY <1>2, <1>3, <1>4, <2>1 DEF Owing
  <2>3. Now(pic)' = Now(pic) /\ \A k \in Owing(pic) : frames'[k].took = frames[k].took
    BY <1>4, <1>5, <2>1, <2>2 DEF Owing, Now
  <2> QED BY <1>1, <1>5, <2>2, <2>3, ServiceSame DEF ServiceInv
<1> QED BY <1>6, <1>7, <1>8, <1>9, <1>10 DEF IInv, HandlersInv, ServiceInv

-----------------------------------------------------------------------------
(* The writes of a call.                                                    *)

(* What a write of init does to a controller.                               *)
LEMMA WrittenInInit ==
    ASSUME NEW c \in ChipState, NEW v \in Nat
    PROVE  /\ /\ Written(c, "cmd", 17).icw = <<"offset", "wired", "mode">>
              /\ Written(c, "cmd", 17).offset = c.offset /\ Written(c, "cmd", 17).wired = c.wired
           /\ c.icw = <<"offset", "wired", "mode">> =>
                 /\ Written(c, "data", v).icw = <<"wired", "mode">>
                 /\ Written(c, "data", v).offset = 8 * (v \div 8) /\ Written(c, "data", v).wired = c.wired
           /\ c.icw = <<"wired", "mode">> =>
                 /\ Written(c, "data", v).icw = <<"mode">>
                 /\ Written(c, "data", v).offset = c.offset /\ Written(c, "data", v).wired = v
           /\ c.icw = <<"mode">> =>
                 /\ Written(c, "data", v).icw = <<>>
                 /\ Written(c, "data", v).offset = c.offset /\ Written(c, "data", v).wired = c.wired
           /\ c.icw = <<>> =>
                 /\ Written(c, "data", v).icw = <<>>
                 /\ Written(c, "data", v).offset = c.offset /\ Written(c, "data", v).wired = c.wired
                 /\ Written(c, "data", v).imr = BitsOf(v)
<1>1. /\ Written(c, "cmd", 17).icw = <<"offset", "wired", "mode">>
      /\ Written(c, "cmd", 17).offset = c.offset /\ Written(c, "cmd", 17).wired = c.wired
  <2>1. Written(c, "cmd", 17) = Reset(c)
    BY Bits DEF Written
  <2> QED BY <2>1 DEF Reset, ChipState
<1>2. ASSUME c.icw = <<"offset", "wired", "mode">>
      PROVE  /\ Written(c, "data", v).icw = <<"wired", "mode">>
             /\ Written(c, "data", v).offset = 8 * (v \div 8) /\ Written(c, "data", v).wired = c.wired
  <2>1. Written(c, "data", v) = [c EXCEPT !.icw = <<"wired", "mode">>, !.offset = 8 * (v \div 8)]
    BY <1>2, WordsAre DEF Written
  <2> QED BY <2>1 DEF ChipState
<1>3. ASSUME c.icw = <<"wired", "mode">>
      PROVE  /\ Written(c, "data", v).icw = <<"mode">>
             /\ Written(c, "data", v).offset = c.offset /\ Written(c, "data", v).wired = v
  <2>1. Written(c, "data", v) = [c EXCEPT !.icw = <<"mode">>, !.wired = v]
    BY <1>3, WordsAre DEF Written
  <2> QED BY <2>1 DEF ChipState
<1>4. ASSUME c.icw = <<"mode">>
      PROVE  /\ Written(c, "data", v).icw = <<>>
             /\ Written(c, "data", v).offset = c.offset /\ Written(c, "data", v).wired = c.wired
  <2>1. Written(c, "data", v) = [c EXCEPT !.icw = <<>>]
    BY <1>4, WordsAre DEF Written
  <2> QED BY <2>1 DEF ChipState
<1>5. ASSUME c.icw = <<>>
      PROVE  /\ Written(c, "data", v).icw = <<>>
             /\ Written(c, "data", v).offset = c.offset /\ Written(c, "data", v).wired = c.wired
             /\ Written(c, "data", v).imr = BitsOf(v)
  <2>1. Written(c, "data", v) = [c EXCEPT !.imr = BitsOf(v)]
    BY <1>5 DEF Written
  <2> QED BY <2>1, <1>5 DEF ChipState
<1> QED BY <1>1, <1>2, <1>3, <1>4, <1>5

(* A write of init, with n to go, is one of ten.                            *)
LEMMA InitWriteKeeps ==
    ASSUME TypeInv, NEW n \in 1 .. 10, InitToGo(n),
           NEW w, w = InitWrites[10 - n + 1],
           chip' = [chip EXCEPT ![w.pic] = Written(@, w.reg, w.value)]
    PROVE  /\ n > 1 => InitToGo(n - 1)'
           /\ n = 1 => Configured' /\ chip'[PIC1].icw = <<>> /\ chip'[PIC2].icw = <<>>
<1>1. PICK c1, c2 : c1 = chip[PIC1] /\ c2 = chip[PIC2]
  OBVIOUS
<1>2. c1 \in ChipState /\ c2 \in ChipState /\ DOMAIN chip = {PIC1, PIC2}
  BY <1>1, PicsAre, ChipTypes DEF TypeInv, Pics
<1>3. ASSUME NEW v, w = Cmd(PIC1, v)
      PROVE  chip'[PIC1] = Written(c1, "cmd", v) /\ chip'[PIC2] = c2
  BY <1>1, <1>2, <1>3, PicsAre DEF Cmd
<1>4. ASSUME NEW v, w = Cmd(PIC2, v)
      PROVE  chip'[PIC1] = c1 /\ chip'[PIC2] = Written(c2, "cmd", v)
  BY <1>1, <1>2, <1>4, PicsAre DEF Cmd
<1>5. ASSUME NEW v, w = Data(PIC1, v)
      PROVE  chip'[PIC1] = Written(c1, "data", v) /\ chip'[PIC2] = c2
  BY <1>1, <1>2, <1>5, PicsAre DEF Data
<1>6. ASSUME NEW v, w = Data(PIC2, v)
      PROVE  chip'[PIC1] = c1 /\ chip'[PIC2] = Written(c2, "data", v)
  BY <1>1, <1>2, <1>6, PicsAre DEF Data
<1>7. CASE n = 10
  <2>1. w = Cmd(PIC1, 17)
    BY <1>7, InitList
  <2>2. chip'[PIC1] = Written(c1, "cmd", 17) /\ chip'[PIC2] = c2
    BY <1>3, <2>1
  <2>3. Written(c1, "cmd", 17).icw = <<"offset", "wired", "mode">> /\ Written(c1, "cmd", 17).offset = c1.offset /\ Written(c1, "cmd", 17).wired = c1.wired
    BY <1>2, WrittenInInit
  <2>4. InitToGo(n - 1)'
    BY <1>1, <1>7, <2>2, <2>3 DEF InitToGo, PIC1_OFFSET, PIC2_OFFSET, Cascade
  <2> QED BY <1>7, <2>4
<1>8. CASE n = 9
  <2>1. w = Cmd(PIC2, 17)
    BY <1>8, InitList
  <2>2. chip'[PIC1] = c1 /\ chip'[PIC2] = Written(c2, "cmd", 17)
    BY <1>4, <2>1
  <2>3. Written(c2, "cmd", 17).icw = <<"offset", "wired", "mode">> /\ Written(c2, "cmd", 17).offset = c2.offset /\ Written(c2, "cmd", 17).wired = c2.wired
    BY <1>2, WrittenInInit
  <2>4. InitToGo(n - 1)'
    BY <1>1, <1>8, <2>2, <2>3 DEF InitToGo, PIC1_OFFSET, PIC2_OFFSET, Cascade
  <2> QED BY <1>8, <2>4
<1>9. CASE n = 8
  <2>1. w = Data(PIC1, 32)
    BY <1>9, InitList
  <2>2. chip'[PIC1] = Written(c1, "data", 32) /\ chip'[PIC2] = c2
    BY <1>5, <2>1
  <2>3. Written(c1, "data", 32).icw = <<"wired", "mode">> /\ Written(c1, "data", 32).offset = 32 /\ Written(c1, "data", 32).wired = c1.wired
    <3>1. c1.icw = <<"offset", "wired", "mode">>
      BY <1>1, <1>9 DEF InitToGo
    <3> QED BY <1>2, <3>1, WrittenInInit
  <2>4. InitToGo(n - 1)'
    BY <1>1, <1>9, <2>2, <2>3 DEF InitToGo, PIC1_OFFSET, PIC2_OFFSET, Cascade
  <2> QED BY <1>9, <2>4
<1>10. CASE n = 7
  <2>1. w = Data(PIC2, 40)
    BY <1>10, InitList
  <2>2. chip'[PIC1] = c1 /\ chip'[PIC2] = Written(c2, "data", 40)
    BY <1>6, <2>1
  <2>3. Written(c2, "data", 40).icw = <<"wired", "mode">> /\ Written(c2, "data", 40).offset = 40 /\ Written(c2, "data", 40).wired = c2.wired
    <3>1. c2.icw = <<"offset", "wired", "mode">>
      BY <1>1, <1>10 DEF InitToGo
    <3> QED BY <1>2, <3>1, WrittenInInit
  <2>4. InitToGo(n - 1)'
    BY <1>1, <1>10, <2>2, <2>3 DEF InitToGo, PIC1_OFFSET, PIC2_OFFSET, Cascade
  <2> QED BY <1>10, <2>4
<1>11. CASE n = 6
  <2>1. w = Data(PIC1, 4)
    BY <1>11, InitList
  <2>2. chip'[PIC1] = Written(c1, "data", 4) /\ chip'[PIC2] = c2
    BY <1>5, <2>1
  <2>3. Written(c1, "data", 4).icw = <<"mode">> /\ Written(c1, "data", 4).offset = c1.offset /\ Written(c1, "data", 4).wired = 4
    <3>1. c1.icw = <<"wired", "mode">>
      BY <1>1, <1>11 DEF InitToGo
    <3> QED BY <1>2, <3>1, WrittenInInit
  <2>4. InitToGo(n - 1)'
    BY <1>1, <1>11, <2>2, <2>3 DEF InitToGo, PIC1_OFFSET, PIC2_OFFSET, Cascade
  <2> QED BY <1>11, <2>4
<1>12. CASE n = 5
  <2>1. w = Data(PIC2, 2)
    BY <1>12, InitList
  <2>2. chip'[PIC1] = c1 /\ chip'[PIC2] = Written(c2, "data", 2)
    BY <1>6, <2>1
  <2>3. Written(c2, "data", 2).icw = <<"mode">> /\ Written(c2, "data", 2).offset = c2.offset /\ Written(c2, "data", 2).wired = 2
    <3>1. c2.icw = <<"wired", "mode">>
      BY <1>1, <1>12 DEF InitToGo
    <3> QED BY <1>2, <3>1, WrittenInInit
  <2>4. InitToGo(n - 1)'
    BY <1>1, <1>12, <2>2, <2>3 DEF InitToGo, PIC1_OFFSET, PIC2_OFFSET, Cascade
  <2> QED BY <1>12, <2>4
<1>13. CASE n = 4
  <2>1. w = Data(PIC1, 1)
    BY <1>13, InitList
  <2>2. chip'[PIC1] = Written(c1, "data", 1) /\ chip'[PIC2] = c2
    BY <1>5, <2>1
  <2>3. Written(c1, "data", 1).icw = <<>> /\ Written(c1, "data", 1).offset = c1.offset /\ Written(c1, "data", 1).wired = c1.wired
    <3>1. c1.icw = <<"mode">>
      BY <1>1, <1>13 DEF InitToGo
    <3> QED BY <1>2, <3>1, WrittenInInit
  <2>4. InitToGo(n - 1)'
    BY <1>1, <1>13, <2>2, <2>3 DEF InitToGo, PIC1_OFFSET, PIC2_OFFSET, Cascade
  <2> QED BY <1>13, <2>4
<1>14. CASE n = 3
  <2>1. w = Data(PIC2, 1)
    BY <1>14, InitList
  <2>2. chip'[PIC1] = c1 /\ chip'[PIC2] = Written(c2, "data", 1)
    BY <1>6, <2>1
  <2>3. Written(c2, "data", 1).icw = <<>> /\ Written(c2, "data", 1).offset = c2.offset /\ Written(c2, "data", 1).wired = c2.wired
    <3>1. c2.icw = <<"mode">>
      BY <1>1, <1>14 DEF InitToGo
    <3> QED BY <1>2, <3>1, WrittenInInit
  <2>4. InitToGo(n - 1)'
    BY <1>1, <1>14, <2>2, <2>3 DEF InitToGo, PIC1_OFFSET, PIC2_OFFSET, Cascade
  <2> QED BY <1>14, <2>4
<1>15. CASE n = 2
  <2>1. w = Data(PIC1, 0)
    BY <1>15, InitList
  <2>2. chip'[PIC1] = Written(c1, "data", 0) /\ chip'[PIC2] = c2
    BY <1>5, <2>1
  <2>3. Written(c1, "data", 0).icw = <<>> /\ Written(c1, "data", 0).offset = c1.offset /\ Written(c1, "data", 0).wired = c1.wired
    <3>1. c1.icw = <<>>
      BY <1>1, <1>15 DEF InitToGo
    <3> QED BY <1>2, <3>1, WrittenInInit
  <2>4. InitToGo(n - 1)'
    BY <1>1, <1>15, <2>2, <2>3 DEF InitToGo, PIC1_OFFSET, PIC2_OFFSET, Cascade
  <2> QED BY <1>15, <2>4
<1>16. CASE n = 1
  <2>1. w = Data(PIC2, 0)
    BY <1>16, InitList
  <2>2. chip'[PIC1] = c1 /\ chip'[PIC2] = Written(c2, "data", 0)
    BY <1>6, <2>1
  <2>3. Written(c2, "data", 0).icw = <<>> /\ Written(c2, "data", 0).offset = c2.offset /\ Written(c2, "data", 0).wired = c2.wired
    <3>1. c2.icw = <<>>
      BY <1>1, <1>16 DEF InitToGo
    <3> QED BY <1>2, <3>1, WrittenInInit
  <2>4. Configured' /\ chip'[PIC1].icw = <<>> /\ chip'[PIC2].icw = <<>>
    BY <1>1, <1>16, <2>2, <2>3 DEF InitToGo, Configured
  <2> QED BY <1>16, <2>4
<1> QED BY <1>7, <1>8, <1>9, <1>10, <1>11, <1>12, <1>13, <1>14, <1>15, <1>16

(* The frame and the controller after one write.                            *)
LEMMA Writing ==
    ASSUME TypeInv, Write
    PROVE  \E w \in Writes, f \in Frame :
              /\ Top.todo \in Seq(Writes) /\ Top.todo # <<>> /\ Tail(Top.todo) \in Seq(Writes)
              /\ w = Head(Top.todo) /\ w.pic \in Pics /\ w.value \in Nat
              /\ f.todo = Tail(Top.todo) /\ f.owes = Top.owes \ {w.pic}
              /\ f.took = Top.took /\ f.acked = Top.acked /\ f.vector = Top.vector /\ f.line = Top.line
              /\ frames' \in Seq(Frame) /\ Len(frames') = Len(frames) /\ DOMAIN frames' = DOMAIN frames
              /\ frames'[Len(frames)] = f
              /\ \A k \in 1 .. Len(frames) : k # Len(frames) => frames'[k] = frames[k]
              /\ chip' \in [Pics -> ChipState] /\ chip'[w.pic] = Written(chip[w.pic], w.reg, w.value)
              /\ chip' = [chip EXCEPT ![w.pic] = Written(@, w.reg, w.value)]
              /\ \A other \in Pics : other # w.pic => chip'[other] = chip[other]
              /\ \A pic \in Pics : chip'[pic].isr \subseteq chip[pic].isr
<1>1. Top \in Frame /\ Top = frames[Len(frames)] /\ Len(frames) \in 1 .. Len(frames)
  BY TopFrame
<1>2. Top.todo \in Seq(Writes) /\ Top.todo # <<>>
  BY <1>1 DEF Frame, Write
<1>3. PICK w : w = Head(Top.todo)
  OBVIOUS
<1>4. w \in Writes /\ Tail(Top.todo) \in Seq(Writes)
  BY <1>2, <1>3, HeadTailProperties
<1>5. w.pic \in Pics /\ w.value \in Nat
  BY <1>4 DEF Writes
<1>6. PICK f : f = [Top EXCEPT !.todo = Tail(@), !.owes = @ \ {w.pic}]
  OBVIOUS
<1>7. /\ f \in Frame /\ f.todo = Tail(Top.todo) /\ f.owes = Top.owes \ {w.pic}
      /\ f.took = Top.took /\ f.acked = Top.acked /\ f.vector = Top.vector /\ f.line = Top.line
  BY <1>1, <1>4, <1>6 DEF Frame
<1>8. frames' = [frames EXCEPT ![Len(frames)] = f]
  BY <1>1, <1>3, <1>6 DEF Write
<1>9. /\ frames' \in Seq(Frame) /\ Len(frames') = Len(frames) /\ DOMAIN frames' = DOMAIN frames
      /\ frames'[Len(frames)] = f
      /\ \A k \in 1 .. Len(frames) : k # Len(frames) => frames'[k] = frames[k]
  BY <1>7, <1>8, TopReplaced
<1>10. PICK c : c = Written(chip[w.pic], w.reg, w.value)
  OBVIOUS
<1>11. c \in ChipState /\ c.isr \subseteq chip[w.pic].isr
  <2>1. chip[w.pic] \in ChipState
    BY <1>5, ChipTypes
  <2> QED BY <2>1, <1>5, <1>10, WrittenType, WrittenService
<1>12. chip' = [chip EXCEPT ![w.pic] = Written(@, w.reg, w.value)]
  BY <1>3 DEF Write
<1>13. /\ chip' \in [Pics -> ChipState] /\ chip'[w.pic] = c
       /\ \A other \in Pics : other # w.pic => chip'[other] = chip[other]
  <2>1. chip' = [chip EXCEPT ![w.pic] = c]
    BY <1>10, <1>12
  <2> QED BY <2>1, <1>5, <1>11, ChipReplaced
<1>14. \A pic \in Pics : chip'[pic].isr \subseteq chip[pic].isr
  BY <1>11, <1>13
<1> QED BY <1>2, <1>3, <1>4, <1>5, <1>7, <1>9, <1>10, <1>12, <1>13, <1>14

LEMMA KernelWriteKeeps ==
    ASSUME IInv, Write, InKernel
    PROVE  IInv'
<1>1. /\ TypeInv /\ KernelInv /\ Len(frames) = 1 /\ Top = frames[1]
      /\ cpu = "run" /\ cpu' = "run" /\ nests' = nests /\ overlapped' = overlapped
      /\ Top.took = {} /\ Top.owes = {} /\ Top.todo # <<>>
  <2>1. TypeInv /\ KernelInv /\ overlapped \in BOOLEAN
    BY DEF IInv, TypeInv
  <2>2. overlapped' = overlapped
    BY <2>1, Zenon DEF Write
  <2> QED BY <2>1, <2>2, TopFrame DEF Write, InKernel, KernelInv
<1>2. PICK w \in Writes, f \in Frame :
         /\ Top.todo \in Seq(Writes) /\ Top.todo # <<>> /\ Tail(Top.todo) \in Seq(Writes)
         /\ w = Head(Top.todo) /\ w.pic \in Pics /\ w.value \in Nat
         /\ f.todo = Tail(Top.todo) /\ f.owes = Top.owes \ {w.pic} /\ f.took = Top.took
         /\ frames' \in Seq(Frame) /\ Len(frames') = Len(frames) /\ frames'[Len(frames)] = f
         /\ chip' \in [Pics -> ChipState] /\ chip'[w.pic] = Written(chip[w.pic], w.reg, w.value)
         /\ chip' = [chip EXCEPT ![w.pic] = Written(@, w.reg, w.value)]
         /\ \A other \in Pics : other # w.pic => chip'[other] = chip[other]
         /\ \A pic \in Pics : chip'[pic].isr \subseteq chip[pic].isr
  BY <1>1, Writing
<1>3. chip' = [chip EXCEPT ![w.pic] = Written(@, w.reg, w.value)]
  BY <1>2
<1>4. phase' = IF Len(Top.todo) = 1 THEN IF phase = "init" THEN "on" ELSE "off" ELSE phase
  BY DEF Write
<1>5. /\ w \in Writes /\ w.pic \in Pics /\ w.value \in Nat
      /\ Top.todo \in Seq(Writes) /\ Tail(Top.todo) \in Seq(Writes)
      /\ f \in Frame /\ f.todo = Tail(Top.todo) /\ f.owes = {} /\ f.took = {}
      /\ chip' \in [Pics -> ChipState] /\ chip'[w.pic] = Written(chip[w.pic], w.reg, w.value)
      /\ \A other \in Pics : other # w.pic => chip'[other] = chip[other]
      /\ \A pic \in Pics : chip'[pic].isr \subseteq chip[pic].isr
  BY <1>1, <1>2
<1>6. frames' \in Seq(Frame) /\ Len(frames') = 1 /\ frames'[1] = f
  BY <1>1, <1>2
<1>7. TypeInv' /\ HandlersInv' /\ NestInv' /\ ServiceInv'
  <2>1. phase' \in {"boot", "init", "on", "off"}
    BY <1>1, <1>4 DEF TypeInv
  <2>2. frames'[1].owes = {}
    BY <1>5, <1>6
  <2>3. \A pic \in Pics : chip'[pic].isr \subseteq chip[pic].isr
    BY <1>5
  <2> QED BY <1>1, <1>5, <1>6, <2>1, <2>2, <2>3, InTheKernel
<1>8. PICK todo, rest : todo = Top.todo /\ rest = Tail(Top.todo)
  OBVIOUS
<1>9. /\ todo \in Seq(Writes) /\ todo # <<>> /\ w = Head(todo) /\ rest = Tail(todo) /\ rest \in Seq(Writes)
      /\ frames'[1].todo = rest /\ frames'[1].took = {} /\ frames'[1].owes = {}
  BY <1>1, <1>2, <1>5, <1>6, <1>8
<1>10. CASE phase = "init"
  <2>1. IsEnd(todo, InitWrites) /\ InitToGo(Len(todo))
    BY <1>1, <1>8, <1>10 DEF KernelInv
  <2>2. /\ Len(todo) \in 1 .. 10 /\ w = InitWrites[10 - Len(todo) + 1]
        /\ Len(rest) = Len(todo) - 1 /\ IsEnd(rest, InitWrites)
    BY <1>9, <2>1, InitList, OneLess
  <2>3. /\ Len(todo) > 1 => InitToGo(Len(todo) - 1)'
        /\ Len(todo) = 1 => Configured' /\ chip'[PIC1].icw = <<>> /\ chip'[PIC2].icw = <<>>
    <3>1. PICK n \in 1 .. 10 : n = Len(todo)
      BY <2>2
    <3>2. InitToGo(n) /\ w = InitWrites[10 - n + 1]
      BY <2>1, <2>2, <3>1
    <3>3. /\ n > 1 => InitToGo(n - 1)'
          /\ n = 1 => Configured' /\ chip'[PIC1].icw = <<>> /\ chip'[PIC2].icw = <<>>
      BY <1>1, <1>3, <3>2, InitWriteKeeps
    <3> QED BY <3>1, <3>3
  <2>4. CASE Len(todo) > 1
    <3>1. phase' = "init" /\ Len(rest) > 0 /\ rest # <<>>
      <4>1. \A s : s = <<>> => Len(s) = 0
        OBVIOUS
      <4>2. Len(rest) > 0
        BY <2>2, <2>4
      <4>3. Len(todo) # 1
        <5>1. PICK n \in 1 .. 10 : n = Len(todo)
          BY <2>2
        <5>2. n > 1
          BY <2>4, <5>1
        <5>3. n # 1
          BY <5>2
        <5> QED BY <5>1, <5>3
      <4>4. phase' = "init"
        BY <1>4, <1>8, <1>10, <4>3
      <4> QED BY <4>1, <4>2, <4>4
    <3>2. InitToGo(Len(frames[1].todo))'
      <4>1. Len(frames'[1].todo) = Len(todo) - 1
        BY <1>9, <2>2
      <4> QED BY <2>3, <2>4, <4>1 DEF InitToGo
    <3>3. IsEnd(frames[1].todo, InitWrites)'
      BY <1>9, <2>2 DEF IsEnd, InitWrites, Both, Cmd, Data
    <3> QED BY <1>1, <1>6, <1>7, <1>9, <3>1, <3>2, <3>3 DEF KernelInv, IInv
  <2>5. CASE Len(todo) = 1
    <3>1. phase' = "on" /\ Len(rest) = 0
      BY <1>4, <1>8, <1>10, <2>2, <2>5
    <3>2. rest = <<>>
      BY <1>9, <3>1, EmptySeq
    <3>3. IsEnd(frames[1].todo, DisableWrites)'
      <4>1. IsEnd(rest, DisableWrites)
        BY <3>2, WholeIsEnd, DisableList
      <4> QED BY <1>9, <4>1 DEF IsEnd, DisableWrites, Both, Cmd, Data
    <3>4. Len(frames'[1].todo) # 1
      BY <1>9, <3>1
    <3> QED BY <1>1, <1>6, <1>7, <1>9, <2>3, <2>5, <3>1, <3>3, <3>4 DEF KernelInv, IInv
  <2> QED BY <2>2, <2>4, <2>5
<1>11. CASE phase # "init"
  <2>1. IsEnd(todo, DisableWrites) /\ chip[PIC1].icw = <<>> /\ chip[PIC2].icw = <<>>
    BY <1>1, <1>8, <1>11 DEF KernelInv
  <2>2. /\ Len(todo) \in 1 .. 2 /\ w = DisableWrites[2 - Len(todo) + 1]
        /\ Len(rest) = Len(todo) - 1 /\ IsEnd(rest, DisableWrites)
    <3>1. DisableWrites \in Seq(Writes) /\ Len(DisableWrites) = 2
      BY DisableList
    <3>2. /\ Len(todo) \in 1 .. Len(DisableWrites) /\ w = DisableWrites[Len(DisableWrites) - Len(todo) + 1]
          /\ Len(rest) = Len(todo) - 1 /\ IsEnd(rest, DisableWrites)
      BY <1>9, <2>1, <3>1, OneLess
    <3> QED BY <3>1, <3>2
  <2>3. w.reg = "data" /\ w.value = 255
    <3>1. 2 - Len(todo) + 1 = 1 \/ 2 - Len(todo) + 1 = 2
      <4>1. PICK n \in 1 .. 2 : n = Len(todo)
        BY <2>2
      <4>2. 2 - n + 1 = 1 \/ 2 - n + 1 = 2
        OBVIOUS
      <4> QED BY <4>1, <4>2
    <3>2. w = Data(PIC1, 255) \/ w = Data(PIC2, 255)
      BY <2>2, <3>1, DisableList
    <3> QED BY <3>2 DEF Data
  <2>4. chip[w.pic] \in ChipState /\ chip[w.pic].icw = <<>>
    BY <1>1, <1>5, <2>1, ChipTypes DEF Pics
  <2>5. PICK c, d : c = chip[w.pic] /\ d = chip'[w.pic]
    OBVIOUS
  <2>6. d.icw = <<>> /\ d.offset = c.offset /\ d.wired = c.wired /\ d.imr = Lines
    <3>1. d = Written(c, "data", 255)
      BY <1>5, <2>3, <2>5
    <3>2. c \in ChipState /\ c.icw = <<>>
      BY <2>4, <2>5
    <3> QED BY <3>1, <3>2, WrittenInInit, Masked
  <2>7. chip'[PIC1].icw = <<>> /\ chip'[PIC2].icw = <<>>
    BY <1>5, <2>1, <2>5, <2>6, PicsAre
  <2>8. Configured => Configured'
    <3>1. \A pic \in Pics : chip'[pic].offset = chip[pic].offset /\ chip'[pic].wired = chip[pic].wired
      BY <1>5, <2>5, <2>6
    <3> QED BY <3>1, PicsAre DEF Configured
  <2>9. /\ chip[PIC1].imr = Lines => chip'[PIC1].imr = Lines
        /\ chip[PIC2].imr = Lines => chip'[PIC2].imr = Lines
    BY <1>5, <2>5, <2>6, PicsAre
  <2>10. IsEnd(frames[1].todo, DisableWrites)' /\ Len(frames'[1].todo) = Len(rest)
    BY <1>9, <2>2 DEF IsEnd, DisableWrites, Both, Cmd, Data
  <2>11. CASE Len(todo) = 2
    <3>1. w.pic = PIC1
      BY <2>2, <2>11, DisableList DEF Data
    <3>2. chip'[PIC1].imr = Lines /\ phase' = phase
      BY <1>4, <1>8, <2>5, <2>6, <2>11, <3>1
    <3>3. phase = "off" => chip'[PIC1].imr = Lines /\ chip'[PIC2].imr = Lines
      BY <1>1, <2>9 DEF KernelInv
    <3>4. phase = "on" => Configured'
      BY <1>1, <2>8 DEF KernelInv
    <3> QED BY <1>1, <1>6, <1>7, <1>9, <1>11, <2>7, <2>10, <3>2, <3>3, <3>4 DEF KernelInv, IInv
  <2>12. CASE Len(todo) = 1
    <3>1. w.pic = PIC2
      BY <2>2, <2>12, DisableList DEF Data
    <3>2. chip'[PIC2].imr = Lines /\ phase' = "off" /\ Len(rest) = 0
      BY <1>4, <1>8, <1>11, <2>2, <2>5, <2>6, <2>12, <3>1
    <3>3. chip'[PIC1].imr = Lines
      BY <1>1, <1>8, <1>11, <2>9, <2>12 DEF KernelInv
    <3> QED BY <1>1, <1>6, <1>7, <1>9, <2>7, <2>10, <3>2, <3>3 DEF KernelInv, IInv
  <2> QED BY <2>2, <2>11, <2>12
<1> QED BY <1>10, <1>11

LEMMA CauseTells ==
    ASSUME NEW f, Cause(f)
    PROVE  IF f.line = Spurious THEN f.vector \in {39, 47} ELSE f.vector = 32 + f.line
<1>1. ASSUME NEW n \in Lines, f.vector = 32 + n, f.line = n
      PROVE  f.line # Spurious /\ f.vector = 32 + f.line
  BY <1>1 DEF Lines, Spurious
<1>2. ASSUME NEW n \in Lines, f.vector = 40 + n, f.line = n + 8
      PROVE  f.line # Spurious /\ f.vector = 32 + f.line
  <2>1. n + 8 # 16 /\ 40 + n = 32 + (n + 8)
    BY DEF Lines
  <2> QED BY <1>2, <2>1 DEF Spurious
<1>3. CASE f.vector \in {39, 47} /\ f.line = Spurious
  BY <1>3
<1> QED BY <1>1, <1>2, <1>3 DEF Cause

LEMMA Firsts ==
    ASSUME NEW a, NEW b
    PROVE  Head(<<a>>) = a /\ Tail(<<a>>) = <<>> /\ Head(<<a, b>>) = a /\ Tail(<<a, b>>) = <<b>>
<1>1. Head(<<a>>) = a /\ Head(<<a, b>>) = a
  OBVIOUS
<1>2. Tail(<<a>>) = <<>>
  OBVIOUS
<1>3. Tail(<<a, b>>) = <<b>>
  OBVIOUS
<1> QED BY <1>1, <1>2, <1>3

(* A handler takes a bit of a controller at most once.                      *)
LEMMA OneBit ==
    ASSUME NEW f, Cause(f), NEW pic, NEW n, NEW m, <<pic, n>> \in f.took, <<pic, m>> \in f.took
    PROVE  n = m
BY PicsAre DEF Cause

LEMMA HandlerWriteKeeps ==
    ASSUME IInv, Write, ~InKernel
    PROVE  IInv'
<1>1. TypeInv /\ KernelInv /\ HandlersInv /\ NestInv /\ ServiceInv
  BY DEF IInv
<1>2. /\ Len(frames) \in Nat /\ Len(frames) > 1 /\ Top = frames[Len(frames)] /\ Top \in Frame
      /\ Cause(Top) /\ Acking(Top) /\ phase = "on"
  BY InAHandler
<1>3. PICK w \in Writes, f \in Frame :
         /\ Top.todo \in Seq(Writes) /\ Top.todo # <<>> /\ Tail(Top.todo) \in Seq(Writes)
         /\ w = Head(Top.todo) /\ w.pic \in Pics /\ w.value \in Nat
         /\ f.todo = Tail(Top.todo) /\ f.owes = Top.owes \ {w.pic}
         /\ f.took = Top.took /\ f.acked = Top.acked /\ f.vector = Top.vector /\ f.line = Top.line
         /\ frames' \in Seq(Frame) /\ Len(frames') = Len(frames) /\ DOMAIN frames' = DOMAIN frames
         /\ frames'[Len(frames)] = f
         /\ \A k \in 1 .. Len(frames) : k # Len(frames) => frames'[k] = frames[k]
         /\ chip' \in [Pics -> ChipState] /\ chip'[w.pic] = Written(chip[w.pic], w.reg, w.value)
         /\ \A other \in Pics : other # w.pic => chip'[other] = chip[other]
  BY <1>1, Writing
<1>4. PICK pic \in Pics : pic = w.pic
  BY <1>3
<1>5. w = Cmd(pic, 32) /\ pic \in Top.owes /\ Acking(f)
  <2>1. CASE Top.acked /\ Top.todo = <<Cmd(PIC1, 32)>> /\ Top.owes = {PIC1}
    <3>1. w = Cmd(PIC1, 32) /\ f.todo = <<>>
      <4>1. PICK one : one = Cmd(PIC1, 32)
        OBVIOUS
      <4>2. Head(<<one>>) = one /\ Tail(<<one>>) = <<>>
        BY Firsts
      <4>3. w = Head(<<one>>) /\ f.todo = Tail(<<one>>)
        BY <1>3, <2>1, <4>1
      <4> QED BY <4>1, <4>2, <4>3
    <3>2. pic = PIC1
      BY <1>4, <3>1 DEF Cmd
    <3>3. f.acked /\ f.todo = <<>> /\ f.owes = {}
      BY <1>3, <1>4, <2>1, <3>1, <3>2
    <3> QED BY <2>1, <3>1, <3>2, <3>3 DEF Acking
  <2>2. CASE /\ Top.acked /\ Top.todo = <<Cmd(PIC2, 32), Cmd(PIC1, 32)>> /\ Top.owes = Pics
    <3>1. w = Cmd(PIC2, 32) /\ f.todo = <<Cmd(PIC1, 32)>>
      <4>1. PICK two, one : two = Cmd(PIC2, 32) /\ one = Cmd(PIC1, 32)
        OBVIOUS
      <4>2. Head(<<two, one>>) = two /\ Tail(<<two, one>>) = <<one>>
        BY Firsts
      <4>3. w = Head(<<two, one>>) /\ f.todo = Tail(<<two, one>>)
        BY <1>3, <2>2, <4>1
      <4> QED BY <4>1, <4>2, <4>3
    <3>2. pic = PIC2
      BY <1>4, <3>1 DEF Cmd
    <3>3. f.acked /\ f.todo = <<Cmd(PIC1, 32)>> /\ f.owes = {PIC1}
      BY <1>3, <1>4, <2>2, <3>1, <3>2, PicsAre DEF Pics
    <3> QED BY <2>2, <3>1, <3>2, <3>3 DEF Acking
  <2> QED BY <1>2, <1>3, <2>1, <2>2 DEF Acking
<1>6. Cause(f)
  BY <1>2, <1>3 DEF Cause
<1>7. PICK c, d : c = chip[pic] /\ d = chip'[pic]
  OBVIOUS
<1>8. /\ d.isr = IF c.isr = {} THEN {} ELSE c.isr \ {Min(c.isr)}
      /\ d.imr = c.imr /\ d.icw = c.icw /\ d.offset = c.offset /\ d.wired = c.wired
  <2>1. w.reg = "cmd" /\ w.value = 32
    BY <1>5 DEF Cmd
  <2>2. d = EndOfInterrupt(c)
    BY <1>3, <1>4, <1>7, <2>1, Bits DEF Written
  <2>3. c \in ChipState
    BY <1>1, <1>7, ChipTypes
  <2> QED BY <2>2, <2>3, EndType
<1>9. /\ cpu = "run" /\ cpu' = cpu /\ phase' = phase /\ nests' = nests
      /\ overlapped' = (\/ overlapped
                        \/ chip[pic].isr # {} /\ \A bit \in Top.took : bit[1] # pic)
  BY <1>3, <1>4 DEF Write
<1>10. \A k \in 1 .. Len(frames) : frames'[k].took = frames[k].took
  BY <1>2, <1>3
<1>11. TypeInv'
  <2>1. overlapped' \in BOOLEAN
    BY <1>9
  <2> QED BY <1>1, <1>2, <1>3, <1>9, <2>1 DEF TypeInv
<1>12. KernelInv'
  <2>1. 1 \in 1 .. Len(frames) /\ 1 # Len(frames)
    BY <1>2
  <2>2. frames'[1] = frames[1]
    BY <1>3, <2>1
  <2>3. \A other \in Pics : SameSettings(other)
    BY <1>3, <1>4, <1>7, <1>8 DEF SameSettings
  <2> QED BY <1>1, <1>2, <1>9, <2>2, <2>3, KernelSame
<1>13. ASSUME NEW k \in 2 .. Len(frames') PROVE Cause(frames'[k]) /\ Acking(frames'[k])
  <2>1. k \in 2 .. Len(frames)
    BY <1>3
  <2>2. CASE k = Len(frames)
    BY <2>2, <1>3, <1>5, <1>6
  <2>3. CASE k # Len(frames)
    <3>1. k \in 1 .. Len(frames)
      BY <2>1, <1>2
    <3>2. frames'[k] = frames[k]
      BY <2>3, <3>1, <1>3
    <3> QED BY <2>1, <3>2, <1>1 DEF HandlersInv
  <2> QED BY <2>2, <2>3
<1>14. /\ Len(frames) \in Owing(pic) /\ Owing(pic)' = Owing(pic) \ {Len(frames)}
       /\ \A other \in Pics : other # pic => Owing(other)' = Owing(other)
  <2>1. DOMAIN frames = 1 .. Len(frames) /\ Len(frames) \in 1 .. Len(frames)
    BY <1>1, TopFrame
  <2>2. \A k \in 1 .. Len(frames) : k # Len(frames) => frames'[k].owes = frames[k].owes
    BY <1>3
  <2>3. frames'[Len(frames)].owes = frames[Len(frames)].owes \ {pic}
    BY <1>2, <1>3, <1>4
  <2>4. pic \in frames[Len(frames)].owes /\ DOMAIN frames' = 1 .. Len(frames)
    BY <1>2, <1>3, <1>5, <2>1
  <2> QED BY <2>1, <2>2, <2>3, <2>4 DEF Owing
<1>15. Now(pic) = {} /\ Now(pic)' = {} /\ \A other \in Pics : Now(other)' = Now(other)
  BY <1>9 DEF Now
<1>16. NestInv'
  <2>1. ASSUME ~overlapped, chip[pic].isr # {}, \A bit \in Top.took : bit[1] # pic
        PROVE  nests
    <3>1. chip[pic].isr = Taken(pic) \cup Now(pic)
      BY <1>1, <2>1 DEF ServiceInv, Service
    <3>2. PICK k \in Owing(pic), n \in Lines : <<pic, n>> \in frames[k].took
      BY <2>1, <3>1, <1>15 DEF Taken
    <3>3. k # Len(frames)
      BY <1>2, <2>1, <3>2
    <3>4. k \in 2 .. Len(frames)
      BY <1>1, NotYet
    <3>5. Len(frames) > 2
      BY <1>2, <3>3, <3>4
    <3> QED BY <1>1, <3>5 DEF NestInv
  <2>2. overlapped' => nests
    BY <1>1, <1>9, <2>1 DEF NestInv
  <2> QED BY <1>1, <1>3, <1>9, <2>2 DEF NestInv
<1>17. ASSUME NEW other \in Pics PROVE Service(other)'
  <2>1. CASE other = pic
    <3>1. \A n, m \in Lines : <<pic, n>> \in Top.took /\ <<pic, m>> \in Top.took => n = m
      BY <1>2, OneBit
    <3>2. chip'[pic].isr = IF chip[pic].isr = {} THEN {} ELSE chip[pic].isr \ {Min(chip[pic].isr)}
      BY <1>7, <1>8
    <3>3. Service(pic)
      BY <1>1 DEF ServiceInv
    <3>4. Service(pic)'
      BY <1>1, <1>9, <1>10, <1>14, <1>15, <3>1, <3>2, <3>3, ServiceOnEnd
    <3> QED BY <2>1, <3>4
  <2>2. CASE other # pic
    <3>1. Service(other) /\ chip'[other].isr = chip[other].isr
      BY <1>1, <1>3, <1>4, <2>2 DEF ServiceInv
    <3>2. Owing(other)' = Owing(other) /\ Now(other)' = Now(other)
      BY <1>14, <1>15, <2>2
    <3>3. \A k \in Owing(other) : frames'[k].took = frames[k].took
      BY <1>1, <1>10, OwingIsFinite
    <3>4. overlapped => overlapped'
      BY <1>9
    <3> QED BY <3>1, <3>2, <3>3, <3>4, ServiceSame
  <2> QED BY <2>1, <2>2
<1> QED BY <1>11, <1>12, <1>13, <1>16, <1>17 DEF IInv, HandlersInv, ServiceInv

-----------------------------------------------------------------------------
(* The CPU acknowledges an interrupt.                                       *)

LEMMA HandlerIs ==
    ASSUME NEW vector \in Nat, NEW line \in 0 .. 16, NEW took \in SUBSET (Pics \X Lines),
           NEW owes \in SUBSET Pics, NEW f, f = Handler(vector, line, took, owes)
    PROVE  /\ f \in Frame /\ f.vector = vector /\ f.line = line /\ f.took = took /\ f.owes = owes
           /\ ~f.acked /\ f.todo = <<>>
<1>1. <<>> \in Seq(Writes)
  OBVIOUS
<1> QED BY <1>1 DEF Handler, Frame

LEMMA Entering ==
    ASSUME IInv, cpu # "run", cpu' = "run", NEW f \in Frame, Cause(f), Acking(f),
           frames' = Append(frames, f), chip' \in [Pics -> ChipState], \A pic \in Pics : SameSettings(pic),
           phase' = phase, nests' = nests, overlapped' = overlapped
    PROVE  TypeInv' /\ KernelInv' /\ HandlersInv' /\ NestInv'
<1>1. TypeInv /\ KernelInv /\ HandlersInv /\ NestInv
  BY DEF IInv
<1>2. /\ frames' \in Seq(Frame) /\ Len(frames') = Len(frames) + 1
      /\ frames'[Len(frames) + 1] = f
      /\ \A k \in 1 .. Len(frames) : frames'[k] = frames[k]
  BY <1>1, Entered
<1>3. Len(frames) \in Nat /\ Len(frames) > 0 /\ phase = "on"
  BY <1>1, TopFrame DEF KernelInv
<1>4. TypeInv'
  <2>1. Len(frames') > 0
    BY <1>2, <1>3
  <2> QED BY <1>1, <1>2, <2>1 DEF TypeInv
<1>5. KernelInv'
  <2>1. frames'[1] = frames[1]
    BY <1>2, <1>3
  <2> QED BY <1>1, <1>3, <2>1, KernelSame
<1>6. ASSUME NEW k \in 2 .. Len(frames') PROVE Cause(frames'[k]) /\ Acking(frames'[k])
  <2>1. k \in 2 .. Len(frames) \/ k = Len(frames) + 1
    BY <1>2, <1>3
  <2>2. CASE k \in 2 .. Len(frames)
    <3>1. k \in 1 .. Len(frames)
      BY <1>3, <2>2
    <3>2. frames'[k] = frames[k]
      BY <1>2, <3>1
    <3> QED BY <1>1, <2>2, <3>2 DEF HandlersInv
  <2>3. CASE k = Len(frames) + 1
    BY <1>2, <2>3
  <2> QED BY <2>1, <2>2, <2>3
<1>7. NestInv'
  <2>1. Len(frames') > 2 => Len(frames) > 1
    BY <1>2, <1>3
  <2> QED BY <1>1, <2>1 DEF NestInv
<1> QED BY <1>4, <1>5, <1>6, <1>7 DEF HandlersInv

(* A controller that a new handler has nothing to tell.                     *)
LEMMA NotEntered ==
    ASSUME TypeInv, NEW pic \in Pics, Service(pic), NEW f \in Frame, pic \notin f.owes,
           frames' = Append(frames, f), overlapped' = overlapped,
           chip'[pic].isr = chip[pic].isr, Now(pic)' = Now(pic)
    PROVE  Service(pic)'
<1>1. Owing(pic)' = Owing(pic) /\ \A k \in Owing(pic) : frames'[k].took = frames[k].took
  BY OwingOnEntry
<1> QED BY <1>1, ServiceSame

LEMMA AsksAre ==
    ASSUME TypeInv
    PROVE  /\ UpperAsks \subseteq Lines /\ LowerAsks \subseteq Lines
           /\ \A n \in UpperAsks : \A m \in chip[PIC1].isr : n < m
           /\ \A n \in LowerAsks : \A m \in chip[PIC2].isr : n < m
<1>1. chip[PIC1].irr \subseteq Lines /\ chip[PIC2].irr \subseteq Lines /\ Cascade \in Lines
  BY ChipTypes, PicsAre DEF Cascade, Lines
<1> QED BY <1>1 DEF UpperAsks, LowerAsks, Asks

LEMMA AcknowledgeKeeps ==
    ASSUME IInv, Acknowledge
    PROVE  IInv'
<1>1. TypeInv /\ KernelInv /\ HandlersInv /\ NestInv /\ ServiceInv
  BY DEF IInv
<1>2. /\ cpu = "intr" /\ phase' = phase /\ nests' = nests /\ overlapped' = overlapped
  BY DEF Acknowledge
<1>3. phase = "on" /\ chip[PIC1].offset = 32 /\ chip[PIC1].wired = 4
  BY <1>1, <1>2 DEF KernelInv, Configured, PIC1_OFFSET
<1>4. Now(PIC1) = {} /\ Now(PIC2) = {} /\ Service(PIC1) /\ Service(PIC2)
  BY <1>1, <1>2, PicsAre DEF Now, ServiceInv
<1>5. ASSUME frames' = Append(frames, Handler(32 + 7, Spurious, {}, {PIC1})), cpu' = "run", chip' = chip
      PROVE  IInv'
  <2>1. PICK f : f = Handler(32 + 7, Spurious, {}, {PIC1})
    OBVIOUS
  <2>2. /\ f \in Frame /\ f.vector = 39 /\ f.line = Spurious /\ f.took = {} /\ f.owes = {PIC1}
        /\ ~f.acked /\ f.todo = <<>>
    <3>1. PICK vector, took, owes : vector = 32 + 7 /\ took = {} /\ owes = {PIC1}
      OBVIOUS
    <3>2. vector = 39 /\ vector \in Nat /\ Spurious \in 0 .. 16
      BY <3>1 DEF Spurious
    <3>3. took \in SUBSET (Pics \X Lines) /\ owes \in SUBSET Pics
      BY <3>1, PicsAre
    <3>4. f = Handler(vector, Spurious, took, owes)
      BY <2>1, <3>1
    <3>5. /\ f \in Frame /\ f.vector = vector /\ f.line = Spurious /\ f.took = took /\ f.owes = owes
          /\ ~f.acked /\ f.todo = <<>>
      BY <3>2, <3>3, <3>4, HandlerIs
    <3> QED BY <3>1, <3>2, <3>5
  <2>3. Cause(f) /\ Acking(f)
    BY <2>2 DEF Cause, Acking
  <2>4. frames' = Append(frames, f) /\ chip' \in [Pics -> ChipState] /\ \A pic \in Pics : SameSettings(pic)
    BY <1>1, <1>5, <2>1 DEF TypeInv, SameSettings
  <2>5. TypeInv' /\ KernelInv' /\ HandlersInv' /\ NestInv'
    BY <1>2, <1>5, <2>2, <2>3, <2>4, Entering
  <2>6. Now(PIC1)' = {} /\ Now(PIC2)' = {}
    BY <1>5 DEF Now
  <2>7. Service(PIC1)'
    <3>1. {} = {n \in Lines : <<PIC1, n>> \in f.took} /\ chip'[PIC1].isr = chip[PIC1].isr \cup {}
      BY <1>5, <2>2
    <3>2. {} \in SUBSET Lines /\ PIC1 \in Pics /\ PIC1 \in f.owes
      BY <2>2, PicsAre
    <3> QED BY <1>1, <1>2, <1>4, <2>2, <2>4, <2>6, <3>1, <3>2, ServiceOnEntry
  <2>8. Service(PIC2)'
    <3>1. PIC2 \in Pics /\ PIC2 \notin f.owes /\ chip'[PIC2].isr = chip[PIC2].isr /\ Now(PIC2)' = Now(PIC2)
      BY <1>4, <1>5, <2>2, <2>6, PicsAre
    <3> QED BY <1>1, <1>2, <1>4, <2>2, <2>4, <3>1, NotEntered
  <2> QED BY <2>5, <2>7, <2>8 DEF IInv, ServiceInv, Pics
<1>6. ASSUME NEW n \in UpperAsks, chip' = [chip EXCEPT ![PIC1] = Serve(@, n)]
      PROVE  /\ n \in Lines /\ chip' \in [Pics -> ChipState] /\ \A pic \in Pics : SameSettings(pic)
             /\ chip'[PIC1].isr = chip[PIC1].isr \cup {n} /\ chip'[PIC2].isr = chip[PIC2].isr
             /\ \A m \in chip[PIC1].isr : n < m
  <2>1. n \in Lines /\ \A m \in chip[PIC1].isr : n < m
    BY <1>1, AsksAre
  <2>2. PICK c : c = Serve(chip[PIC1], n)
    OBVIOUS
  <2>3. /\ c \in ChipState /\ c.isr = chip[PIC1].isr \cup {n}
        /\ c.imr = chip[PIC1].imr /\ c.icw = chip[PIC1].icw
        /\ c.offset = chip[PIC1].offset /\ c.wired = chip[PIC1].wired
    <3>1. chip[PIC1] \in ChipState
      BY <1>1, ChipTypes, PicsAre
    <3> QED BY <2>1, <2>2, <3>1, ServeType
  <2>4. /\ chip' \in [Pics -> ChipState] /\ chip'[PIC1] = c
        /\ \A other \in Pics : other # PIC1 => chip'[other] = chip[other]
    <3>1. chip' = [chip EXCEPT ![PIC1] = c] /\ PIC1 \in Pics
      BY <1>6, <2>2, PicsAre
    <3> QED BY <1>1, <2>3, <3>1, ChipReplaced
  <2> QED BY <2>1, <2>3, <2>4, PicsAre DEF SameSettings
<1>7. ASSUME NEW n \in UpperAsks, chip' = [chip EXCEPT ![PIC1] = Serve(@, n)], Bit(4, n),
             cpu' = "inta", frames' = frames
      PROVE  IInv'
  <2>1. /\ n = Cascade /\ chip' \in [Pics -> ChipState] /\ \A pic \in Pics : SameSettings(pic)
        /\ chip'[PIC1].isr = chip[PIC1].isr \cup {Cascade} /\ chip'[PIC2].isr = chip[PIC2].isr
        /\ \A m \in chip[PIC1].isr : Cascade < m
    <3>1. n = Cascade
      BY <1>6, <1>7, Bits DEF Cascade
    <3> QED BY <1>6, <1>7, <3>1
  <2>2. TypeInv'
    BY <1>1, <1>2, <1>7, <2>1 DEF TypeInv
  <2>3. KernelInv'
    <3>1. frames'[1] = frames[1] /\ phase # "init"
      BY <1>3, <1>7
    <3> QED BY <1>1, <1>2, <1>3, <2>1, <3>1, KernelSame
  <2>4. HandlersInv'
    BY <1>1, <1>7 DEF HandlersInv, Cause, Acking
  <2>5. NestInv'
    BY <1>1, <1>2, <1>7 DEF NestInv
  <2>6. Now(PIC1)' = {Cascade} /\ Now(PIC2)' = {} /\ Owing(PIC1)' = Owing(PIC1) /\ Owing(PIC2)' = Owing(PIC2)
    BY <1>7, PicsAre DEF Now, Owing
  <2>7. Service(PIC2)'
    <3>1. PIC2 \in Pics /\ Now(PIC2)' = Now(PIC2) /\ \A k \in Owing(PIC2) : frames'[k].took = frames[k].took
      BY <1>4, <1>7, <2>6, PicsAre
    <3> QED BY <1>2, <1>4, <2>1, <2>6, <3>1, ServiceSame
  <2>8. Service(PIC1)'
    <3>1. /\ IsFiniteSet(chip[PIC1].isr) /\ Cardinality(chip[PIC1].isr) \in Nat
          /\ Cardinality(Owing(PIC1)) \in Nat /\ Cardinality({}) = 0 /\ Cardinality({Cascade}) = 1
      BY <1>1, OwingIsFinite, PicsAre
    <3>2. Cardinality(chip[PIC1].isr)' <= Cardinality(Owing(PIC1))' + Cardinality(Now(PIC1))'
      <4>1. Cardinality(chip[PIC1].isr \cup {Cascade}) <= Cardinality(chip[PIC1].isr) + 1
        BY <3>1, OneMore
      <4>2. Cardinality(chip[PIC1].isr \cup {Cascade}) \in Nat
        BY <3>1, OneMore
      <4>3. Cardinality(chip[PIC1].isr) <= Cardinality(Owing(PIC1))
        <5>1. Cardinality(chip[PIC1].isr) <= Cardinality(Owing(PIC1)) + Cardinality({})
          BY <1>4 DEF Service
        <5> QED BY <3>1, <5>1
      <4>4. Cardinality(chip[PIC1].isr \cup {Cascade}) <= Cardinality(Owing(PIC1)) + 1
        BY <3>1, <4>1, <4>2, <4>3
      <4> QED BY <2>1, <2>6, <3>1, <4>4
    <3>3. Taken(PIC1)' = Taken(PIC1)
      BY <1>7, <2>6 DEF Taken
    <3>4. ASSUME ~overlapped'
          PROVE  /\ chip'[PIC1].isr = Taken(PIC1)' \cup Now(PIC1)'
                 /\ \A j, k \in Owing(PIC1)' : \A a, m \in Lines :
                      j < k /\ <<PIC1, a>> \in frames'[j].took /\ <<PIC1, m>> \in frames'[k].took => m < a
                 /\ \A k \in Owing(PIC1)', a \in Lines, m \in Now(PIC1)' :
                      <<PIC1, a>> \in frames'[k].took => m < a
      <4>1. chip[PIC1].isr = Taken(PIC1)
        BY <1>2, <1>4, <3>4 DEF Service
      <4>2. chip'[PIC1].isr = Taken(PIC1)' \cup Now(PIC1)'
        BY <2>1, <2>6, <3>3, <4>1
      <4>3. \A j, k \in Owing(PIC1) : \A a, m \in Lines :
               j < k /\ <<PIC1, a>> \in frames[j].took /\ <<PIC1, m>> \in frames[k].took => m < a
        BY <1>2, <1>4, <3>4 DEF Service
      <4>4. ASSUME NEW k \in Owing(PIC1), NEW a \in Lines, <<PIC1, a>> \in frames[k].took
            PROVE  Cascade < a
        <5>1. a \in Taken(PIC1)
          BY <4>4 DEF Taken
        <5> QED BY <2>1, <4>1, <5>1
      <4> QED BY <1>7, <2>6, <4>2, <4>3, <4>4
    <3> QED BY <3>2, <3>4 DEF Service
  <2> QED BY <2>2, <2>3, <2>4, <2>5, <2>7, <2>8 DEF IInv, ServiceInv, Pics
<1>8. ASSUME NEW n \in UpperAsks, chip' = [chip EXCEPT ![PIC1] = Serve(@, n)],
             cpu' = "run", frames' = Append(frames, Handler(32 + n, n, {<<PIC1, n>>}, {PIC1}))
      PROVE  IInv'
  <2>1. /\ n \in Lines /\ chip' \in [Pics -> ChipState] /\ \A pic \in Pics : SameSettings(pic)
        /\ chip'[PIC1].isr = chip[PIC1].isr \cup {n} /\ chip'[PIC2].isr = chip[PIC2].isr
        /\ \A m \in chip[PIC1].isr : n < m
    BY <1>6, <1>8
  <2>2. PICK f : f = Handler(32 + n, n, {<<PIC1, n>>}, {PIC1})
    OBVIOUS
  <2>3. /\ f \in Frame /\ f.vector = 32 + n /\ f.line = n /\ f.took = {<<PIC1, n>>} /\ f.owes = {PIC1}
        /\ ~f.acked /\ f.todo = <<>>
    <3>1. PICK vector, took, owes : vector = 32 + n /\ took = {<<PIC1, n>>} /\ owes = {PIC1}
      OBVIOUS
    <3>2. vector \in Nat /\ n \in 0 .. 16
      BY <2>1, <3>1 DEF Lines
    <3>3. took \in SUBSET (Pics \X Lines) /\ owes \in SUBSET Pics
      BY <2>1, <3>1, PicsAre
    <3>4. f = Handler(vector, n, took, owes)
      BY <2>2, <3>1
    <3>5. /\ f \in Frame /\ f.vector = vector /\ f.line = n /\ f.took = took /\ f.owes = owes
          /\ ~f.acked /\ f.todo = <<>>
      BY <3>2, <3>3, <3>4, HandlerIs
    <3> QED BY <3>1, <3>5
  <2>4. Cause(f)
    BY <2>1, <2>3 DEF Cause
  <2>5. Acking(f)
    <3>1. ~(f.vector >= 40)
      BY <2>1, <2>3 DEF Lines
    <3> QED BY <2>3, <3>1 DEF Acking
  <2>6. frames' = Append(frames, f)
    BY <1>8, <2>2
  <2>7. TypeInv' /\ KernelInv' /\ HandlersInv' /\ NestInv'
    BY <1>2, <1>8, <2>1, <2>3, <2>4, <2>5, <2>6, Entering
  <2>8. Now(PIC1)' = {} /\ Now(PIC2)' = {}
    BY <1>8 DEF Now
  <2>9. Service(PIC1)'
    <3>1. PICK new : new = {n}
      OBVIOUS
    <3>2. new = {m \in Lines : <<PIC1, m>> \in f.took}
      BY <2>1, <2>3, <3>1
    <3>3. /\ new \in SUBSET Lines /\ PIC1 \in Pics /\ PIC1 \in f.owes
          /\ chip'[PIC1].isr = chip[PIC1].isr \cup new
          /\ \E m \in Lines : new = {m} /\ \A l \in chip[PIC1].isr : m < l
      BY <2>1, <2>3, <3>1, PicsAre
    <3> QED BY <1>1, <1>2, <1>4, <2>3, <2>6, <2>8, <3>2, <3>3, ServiceOnEntry
  <2>10. Service(PIC2)'
    <3>1. PIC2 \in Pics /\ PIC2 \notin f.owes /\ Now(PIC2)' = Now(PIC2)
      BY <1>4, <2>3, <2>8, PicsAre
    <3> QED BY <1>1, <1>2, <1>4, <2>1, <2>3, <2>6, <3>1, NotEntered
  <2> QED BY <2>7, <2>9, <2>10 DEF IInv, ServiceInv, Pics
<1>9. \/ frames' = Append(frames, Handler(32 + 7, Spurious, {}, {PIC1})) /\ cpu' = "run" /\ chip' = chip
      \/ \E n \in UpperAsks :
            /\ chip' = [chip EXCEPT ![PIC1] = Serve(@, n)]
            /\ \/ Bit(4, n) /\ cpu' = "inta" /\ frames' = frames
               \/ cpu' = "run" /\ frames' = Append(frames, Handler(32 + n, n, {<<PIC1, n>>}, {PIC1}))
  BY <1>3 DEF Acknowledge, Enter
<1> QED BY <1>5, <1>7, <1>8, <1>9

(* What a handler of PIC2 is called for.                                    *)
LEMMA LowerEntry ==
    ASSUME IInv, cpu = "inta", cpu' = "run", phase' = phase, nests' = nests, overlapped' = overlapped,
           NEW f \in Frame, frames' = Append(frames, f), Cause(f), f.vector \in Nat, f.vector >= 40,
           f.owes = Pics, ~f.acked, f.todo = <<>>,
           <<PIC1, Cascade>> \in f.took,
           chip' \in [Pics -> ChipState], \A pic \in Pics : SameSettings(pic),
           chip'[PIC1].isr = chip[PIC1].isr,
           NEW new \in SUBSET Lines, new = {n \in Lines : <<PIC2, n>> \in f.took},
           chip'[PIC2].isr = chip[PIC2].isr \cup new,
           new = {} \/ \E n \in Lines : new = {n} /\ \A m \in chip[PIC2].isr : n < m
    PROVE  IInv'
<1>1. TypeInv /\ ServiceInv
  BY DEF IInv
<1>2. Acking(f)
  BY DEF Acking
<1>3. TypeInv' /\ KernelInv' /\ HandlersInv' /\ NestInv'
  BY <1>2, Entering
<1>4. /\ Now(PIC1) = {Cascade} /\ Now(PIC2) = {} /\ Now(PIC1)' = {} /\ Now(PIC2)' = {}
      /\ PIC1 \in Pics /\ PIC2 \in Pics /\ PIC1 \in f.owes /\ PIC2 \in f.owes
      /\ Service(PIC1) /\ Service(PIC2)
  BY <1>1, PicsAre DEF Now, ServiceInv
<1>5. Now(PIC1) = {n \in Lines : <<PIC1, n>> \in f.took}
  <2>1. \A n \in Lines : <<PIC1, n>> \in f.took => n = Cascade
    BY OneBit
  <2>2. Cascade \in Lines
    BY DEF Cascade, Lines
  <2> QED BY <1>4, <2>1, <2>2
<1>6. Service(PIC1)'
  BY <1>1, <1>4, <1>5, ServiceOnPromise
<1>7. Service(PIC2)'
  BY <1>1, <1>4, ServiceOnEntry
<1> QED BY <1>3, <1>6, <1>7 DEF IInv, ServiceInv, Pics

LEMMA AcknowledgeLowerKeeps ==
    ASSUME IInv, AcknowledgeLower
    PROVE  IInv'
<1>1. TypeInv /\ KernelInv
  BY DEF IInv
<1>2. /\ cpu = "inta" /\ phase' = phase /\ nests' = nests /\ overlapped' = overlapped
  BY DEF AcknowledgeLower
<1>3. chip[PIC2].offset = 40 /\ chip[PIC2].wired = Cascade /\ Cascade \in Lines
  BY <1>1, <1>2 DEF KernelInv, Configured, PIC2_OFFSET, Cascade, Lines
<1>4. ASSUME cpu' = "run", chip' = chip,
             frames' = Append(frames, Handler(40 + 7, Spurious, {<<PIC1, Cascade>>}, Pics))
      PROVE  IInv'
  <2>1. PICK vector, took, f :
           vector = 40 + 7 /\ took = {<<PIC1, Cascade>>} /\ f = Handler(vector, Spurious, took, Pics)
    OBVIOUS
  <2>2. vector = 47 /\ vector \in Nat /\ Spurious \in 0 .. 16
    BY <2>1 DEF Spurious
  <2>3. took \in SUBSET (Pics \X Lines) /\ Pics \in SUBSET Pics
    BY <1>3, <2>1, PicsAre
  <2>4. /\ f \in Frame /\ f.vector = vector /\ f.line = Spurious /\ f.took = took /\ f.owes = Pics
        /\ ~f.acked /\ f.todo = <<>>
    BY <2>1, <2>2, <2>3, HandlerIs
  <2>5. Cause(f)
    BY <2>1, <2>2, <2>4 DEF Cause
  <2>6. frames' = Append(frames, f)
    BY <1>4, <2>1
  <2>7. chip' \in [Pics -> ChipState] /\ \A pic \in Pics : SameSettings(pic)
    BY <1>1, <1>4 DEF TypeInv, SameSettings
  <2>8. PICK new : new = {n \in Lines : <<PIC2, n>> \in f.took}
    OBVIOUS
  <2>9. new = {}
    BY <2>1, <2>4, <2>8, PicsAre
  <2>10. chip'[PIC1].isr = chip[PIC1].isr /\ chip'[PIC2].isr = chip[PIC2].isr \cup new /\ new \in SUBSET Lines
    BY <1>4, <2>9
  <2>11. f.vector \in Nat /\ f.vector >= 40 /\ <<PIC1, Cascade>> \in f.took
    <3>1. f.vector = 47
      BY <2>2, <2>4
    <3>2. <<PIC1, Cascade>> \in f.took
      BY <2>1, <2>4
    <3> QED BY <3>1, <3>2
  <2> QED BY <1>2, <1>4, <2>4, <2>5, <2>6, <2>7, <2>8, <2>9, <2>10, <2>11, LowerEntry
<1>5. ASSUME NEW n \in LowerAsks, cpu' = "run", chip' = [chip EXCEPT ![PIC2] = Serve(@, n)],
             frames' = Append(frames, Handler(40 + n, n + 8, {<<PIC1, Cascade>>, <<PIC2, n>>}, Pics))
      PROVE  IInv'
  <2>1. n \in Lines /\ \A m \in chip[PIC2].isr : n < m
    BY <1>1, AsksAre
  <2>2. PICK c : c = Serve(chip[PIC2], n)
    OBVIOUS
  <2>3. /\ c \in ChipState /\ c.isr = chip[PIC2].isr \cup {n}
        /\ c.imr = chip[PIC2].imr /\ c.icw = chip[PIC2].icw
        /\ c.offset = chip[PIC2].offset /\ c.wired = chip[PIC2].wired
    <3>1. chip[PIC2] \in ChipState
      BY <1>1, ChipTypes, PicsAre
    <3> QED BY <2>1, <2>2, <3>1, ServeType
  <2>4. /\ chip' \in [Pics -> ChipState] /\ chip'[PIC2] = c
        /\ \A other \in Pics : other # PIC2 => chip'[other] = chip[other]
    <3>1. chip' = [chip EXCEPT ![PIC2] = c] /\ PIC2 \in Pics
      BY <1>5, <2>2, PicsAre
    <3> QED BY <1>1, <2>3, <3>1, ChipReplaced
  <2>5. /\ \A pic \in Pics : SameSettings(pic)
        /\ chip'[PIC1].isr = chip[PIC1].isr /\ chip'[PIC2].isr = chip[PIC2].isr \cup {n}
    BY <2>3, <2>4, PicsAre DEF SameSettings
  <2>6. PICK vector, line, took, f :
           /\ vector = 40 + n /\ line = n + 8 /\ took = {<<PIC1, Cascade>>, <<PIC2, n>>}
           /\ f = Handler(vector, line, took, Pics)
    OBVIOUS
  <2>7. vector \in Nat /\ vector >= 40 /\ line \in 0 .. 16
    BY <2>1, <2>6 DEF Lines
  <2>8. took \in SUBSET (Pics \X Lines) /\ Pics \in SUBSET Pics
    BY <1>3, <2>1, <2>6, PicsAre
  <2>9. /\ f \in Frame /\ f.vector = vector /\ f.line = line /\ f.took = took /\ f.owes = Pics
        /\ ~f.acked /\ f.todo = <<>>
    <3>1. f = Handler(vector, line, took, Pics)
      BY <2>6
    <3> QED BY <2>7, <2>8, <3>1, HandlerIs
  <2>10. Cause(f)
    BY <2>1, <2>6, <2>9 DEF Cause
  <2>11. frames' = Append(frames, f)
    BY <1>5, <2>6
  <2>12. PICK new : new = {n}
    OBVIOUS
  <2>13. new = {m \in Lines : <<PIC2, m>> \in f.took}
    BY <2>1, <2>6, <2>9, <2>12, PicsAre
  <2>14. /\ new \in SUBSET Lines /\ chip'[PIC2].isr = chip[PIC2].isr \cup new
         /\ \E m \in Lines : new = {m} /\ \A l \in chip[PIC2].isr : m < l
    BY <2>1, <2>5, <2>12
  <2>15. f.vector \in Nat /\ f.vector >= 40 /\ <<PIC1, Cascade>> \in f.took
    BY <2>6, <2>7, <2>9
  <2> QED BY <1>2, <1>5, <2>4, <2>5, <2>9, <2>10, <2>11, <2>13, <2>14, <2>15, LowerEntry
<1>6. \/ /\ cpu' = "run" /\ chip' = chip
         /\ frames' = Append(frames, Handler(40 + 7, Spurious, {<<PIC1, Cascade>>}, Pics))
      \/ \E n \in LowerAsks :
            /\ cpu' = "run" /\ chip' = [chip EXCEPT ![PIC2] = Serve(@, n)]
            /\ frames' = Append(frames, Handler(40 + n, n + 8, {<<PIC1, Cascade>>, <<PIC2, n>>}, Pics))
  <2>1. \A n : {<<PIC1, Cascade>>} \cup {<<PIC2, n>>} = {<<PIC1, Cascade>>, <<PIC2, n>>}
    OBVIOUS
  <2> QED BY <1>3, <2>1 DEF AcknowledgeLower, Enter, Pics
<1> QED BY <1>4, <1>5, <1>6

-----------------------------------------------------------------------------

LEMMA StepKeeps ==
    ASSUME IInv, [Next]_vars
    PROVE  IInv'
<1>1. CASE CallInit
  BY <1>1, CallInitKeeps
<1>2. CASE CallDisable
  BY <1>2, CallDisableKeeps
<1>3. CASE CallAck
  BY <1>3, CallAckKeeps
<1>4. CASE Write
  BY <1>4, KernelWriteKeeps, HandlerWriteKeeps
<1>5. CASE Return
  BY <1>5, ReturnKeeps
<1>6. CASE See
  BY <1>6, SeeKeeps
<1>7. CASE Acknowledge
  BY <1>7, AcknowledgeKeeps
<1>8. CASE AcknowledgeLower
  BY <1>8, AcknowledgeLowerKeeps
<1>9. ASSUME NEW line \in Devices, Raise(line) \/ Withdraw(line) PROVE IInv'
  <2>1. line \in 0 .. 15
    BY PicAssumption
  <2> QED BY <1>9, <2>1, RaiseKeeps, WithdrawKeeps
<1>10. CASE UNCHANGED vars
  <2>1. /\ chip' = chip /\ cpu' = cpu /\ frames' = frames /\ phase' = phase
        /\ nests' = nests /\ overlapped' = overlapped
    BY <1>10 DEF vars
  <2>2. \A pic \in Pics : SameSettings(pic) /\ chip'[pic].isr = chip[pic].isr
    BY <2>1 DEF SameSettings
  <2>3. chip' \in [Pics -> ChipState] /\ cpu' \in {"run", "intr", "inta"}
    BY <2>1 DEF IInv, TypeInv
  <2> QED BY <2>1, <2>2, <2>3, FramesUnchanged
<1> QED BY <1>1, <1>2, <1>3, <1>4, <1>5, <1>6, <1>7, <1>8, <1>9, <1>10 DEF Next, Driver, Cpu

LEMMA Invariant == Spec => []IInv
<1>1. Init => IInv
  BY InitHolds
<1>2. IInv /\ [Next]_vars => IInv'
  BY StepKeeps
<1> QED BY <1>1, <1>2, PTL DEF Spec

(* Whatever the devices do, and whenever the kernel calls init and disable  *)
(* again: an interrupt has the vector of its line or a spurious one, never  *)
(* that of an exception, and nothing is asked for after disable.            *)
THEOREM VectorsAlwaysTellTheLine == Spec => []VectorsTellTheLine
<1>1. IInv => VectorsTellTheLine
  <2>1. SUFFICES ASSUME IInv PROVE VectorsTellTheLine
    OBVIOUS
  <2>2. ASSUME NEW k \in 2 .. Len(frames)
        PROVE  IF frames[k].line = Spurious THEN frames[k].vector \in {39, 47}
               ELSE frames[k].vector = 32 + frames[k].line
    <3>1. Cause(frames[k])
      BY <2>1 DEF IInv, HandlersInv
    <3> QED BY <3>1, CauseTells
  <2>3. phase = "off" => UpperAsks = {}
    BY <2>1, MaskedAsksNothing DEF IInv, KernelInv
  <2> QED BY <2>2, <2>3 DEF VectorsTellTheLine
<1> QED BY <1>1, Invariant, PTL

(* However interrupts nest: what a controller has in service is what the    *)
(* handlers still owe it, exactly until a spurious interrupt is             *)
(* acknowledged on top of another, never more than that afterwards, and     *)
(* that happens only where handlers let others in.                          *)
THEOREM InServiceIsAlwaysOwed == Spec => []InServiceIsOwed
<1>1. ASSUME IInv PROVE InServiceIsOwed
  <2>1. SUFFICES ASSUME NEW pic \in {PIC1, PIC2}
        PROVE  LET owing == {k \in DOMAIN frames : pic \in frames[k].owes}
                   taken == UNION {{bit[2] : bit \in {b \in frames[k].took : b[1] = pic}} : k \in owing}
                   now   == IF cpu = "inta" /\ pic = PIC1 THEN {Cascade} ELSE {}
               IN  /\ Cardinality(chip[pic].isr) <= Cardinality(owing) + Cardinality(now)
                   /\ ~overlapped => chip[pic].isr = taken \cup now
                   /\ overlapped => nests
    BY Zenon DEF InServiceIsOwed
  <2> DEFINE owing == {k \in DOMAIN frames : pic \in frames[k].owes}
             taken == UNION {{bit[2] : bit \in {b \in frames[k].took : b[1] = pic}} : k \in owing}
             now   == IF cpu = "inta" /\ pic = PIC1 THEN {Cascade} ELSE {}
  <2>2. pic \in Pics /\ Service(pic) /\ TypeInv /\ NestInv
    BY <1>1 DEF IInv, ServiceInv, Pics
  <2>3. owing = Owing(pic) /\ now = Now(pic)
    BY DEF Owing, Now
  <2>4. taken = Taken(pic)
    <3>1. \A k \in owing : frames[k].took \subseteq Pics \X Lines
      <4>1. \A k \in owing : frames[k] \in Frame
        BY <2>2, TopFrame
      <4> QED BY <4>1 DEF Frame
    <3>2. \A n \in Taken(pic) : n \in taken
      <4>1. SUFFICES ASSUME NEW n \in Taken(pic) PROVE n \in taken
        OBVIOUS
      <4>2. PICK k \in owing : <<pic, n>> \in frames[k].took
        BY <2>3 DEF Taken
      <4>3. n \in {bit[2] : bit \in {b \in frames[k].took : b[1] = pic}}
        BY <4>2
      <4> QED BY <4>3
    <3>3. \A n \in taken : n \in Taken(pic)
      <4>1. SUFFICES ASSUME NEW k \in owing, NEW bit \in frames[k].took, bit[1] = pic
                     PROVE  bit[2] \in Taken(pic)
        OBVIOUS
      <4>2. bit \in Pics \X Lines
        BY <3>1
      <4>3. bit = <<pic, bit[2]>> /\ bit[2] \in Lines
        BY <4>1, <4>2
      <4> QED BY <2>3, <4>3 DEF Taken
    <3> QED BY <3>2, <3>3
  <2>5. Cardinality(chip[pic].isr) <= Cardinality(owing) + Cardinality(now)
    BY <2>2, <2>3 DEF Service
  <2>6. ~overlapped => chip[pic].isr = taken \cup now
    BY <2>2, <2>3, <2>4 DEF Service
  <2>7. overlapped => nests
    BY <2>2, Zenon DEF NestInv
  <2> QED BY <2>5, <2>6, <2>7, Zenon
<1> QED BY <1>1, Invariant, PTL
=============================================================================
