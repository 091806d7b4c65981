------------------------- MODULE MappedMemory_proofs -------------------------
(***************************************************************************)
(* An address space gives its handles what Mem promises, and the TLB no   *)
(* reason to be stale that is not owed, for every set of pages, ranges    *)
(* and handles, and however calls fail halfway.                           *)
(***************************************************************************)
EXTENDS MappedMemory, FiniteSetTheorems, TLAPS

-----------------------------------------------------------------------------
(* The TLB of an address space. *)

Stale(p) == tlb[p] \notin {Unmapped, mapping[p]}

TlbShape == tlb = [p \in Page |-> tlb[p]]

(* What a flush being executed has done: the pages before the one it is at  *)
(* are fresh.  Nothing else makes them stale again, since the kernel        *)
(* changes no mapping before the flush returns.                             *)
FlushInv ==
    flushing # NoFlush =>
        /\ DOMAIN flushing = {"first", "size", "done", "range"}
        /\ flushing.first \in Int /\ flushing.size \in Int /\ flushing.done \in Nat
        /\ flushing.range = flushing.first .. flushing.first + flushing.size - 1
        /\ \A p \in Page : p \in flushing.first .. flushing.first + flushing.done - 1 => ~Stale(p)

TInv == TlbShape /\ FlushInv /\ StaleOnlyIfOwed

LEMMA TInvInit == TlbInit => TInv
BY DEF TlbInit, TInv, TlbShape, FlushInv, StaleOnlyIfOwed, Stale

(* A step of a mapRange or free makes stale only what it changes.           *)
LEMMA KernelKeeps == ASSUME TInv, KernelStep PROVE TInv'
<1>1. /\ UNCHANGED <<tlb, flushing>> /\ flushing = NoFlush
      /\ owed' = owed \cup {p \in Page : mapping'[p] # mapping[p]}
  BY DEF KernelStep, NotFlushed
<1>2. TlbShape' /\ FlushInv'
  BY <1>1 DEF TInv, TlbShape, FlushInv
<1>3. StaleOnlyIfOwed'
  BY <1>1 DEF TInv, StaleOnlyIfOwed
<1> QED BY <1>2, <1>3 DEF TInv

LEMMA FlushKeeps ==
    ASSUME TInv, NEW first \in Page, NEW size \in Sizes, Flush(first, size) PROVE TInv'
<1>1. /\ UNCHANGED <<mapping, tlb, owed>>
      /\ flushing' = [first |-> first, size |-> size, done |-> 0,
                      range |-> first .. first + size - 1]
  BY DEF Flush, spaceVars
<1>2. first \in Int /\ size \in Int
  BY AddressSpaceAssumption
<1>3. FlushInv'
  BY <1>1, <1>2 DEF FlushInv, Stale
<1> QED BY <1>1, <1>3 DEF TInv, TlbShape, StaleOnlyIfOwed

LEMMA InvalidateKeeps == ASSUME TInv, InvalidatePage PROVE TInv'
<1> DEFINE at == flushing.first + flushing.done
<1>1. /\ UNCHANGED <<mapping, owed>> /\ flushing # NoFlush
      /\ tlb' = [tlb EXCEPT ![at] = Unmapped]
      /\ flushing' = [flushing EXCEPT !.done = @ + 1]
  BY DEF InvalidatePage, spaceVars
<1>2. \A p \in Page : tlb'[p] = IF p = at THEN Unmapped ELSE tlb[p]
  BY <1>1 DEF TInv, TlbShape
<1>3. TlbShape'
  BY <1>1 DEF TInv, TlbShape
<1>4. StaleOnlyIfOwed'
  BY <1>1, <1>2 DEF TInv, StaleOnlyIfOwed
<1>5. FlushInv'
  <2>1. /\ DOMAIN flushing = {"first", "size", "done", "range"}
        /\ flushing.first \in Int /\ flushing.size \in Int /\ flushing.done \in Nat
        /\ flushing.range = flushing.first .. flushing.first + flushing.size - 1
        /\ \A p \in Page : p \in flushing.first .. flushing.first + flushing.done - 1 => ~Stale(p)
    BY <1>1 DEF TInv, FlushInv
  <2>2. /\ flushing'.first = flushing.first /\ flushing'.size = flushing.size
        /\ flushing'.done = flushing.done + 1 /\ flushing'.range = flushing.range
        /\ DOMAIN flushing' = {"first", "size", "done", "range"}
    BY <1>1, <2>1
  <2>3. \A p \in Page : p \in flushing.first .. flushing.first + flushing.done => ~Stale(p)'
    <3> SUFFICES ASSUME NEW p \in Page, p \in flushing.first .. flushing.first + flushing.done
                 PROVE  tlb'[p] \in {Unmapped, mapping'[p]}
      BY DEF Stale
    <3>1. CASE p = at
      BY <1>2, <3>1
    <3>2. CASE p # at
      <4>1. p \in flushing.first .. flushing.first + flushing.done - 1
        BY <2>1, <3>2
      <4> QED BY <1>1, <1>2, <2>1, <3>2, <4>1 DEF Stale
    <3> QED BY <3>1, <3>2
  <2>4. flushing'.first + flushing'.done - 1 = flushing.first + flushing.done
    BY <2>1, <2>2
  <2> QED BY <2>1, <2>2, <2>3, <2>4 DEF FlushInv
<1> QED BY <1>3, <1>4, <1>5 DEF TInv

(* By the time it returns, a flush has been through its whole range.        *)
LEMMA FlushReturnsKeeps == ASSUME TInv, FlushReturns PROVE TInv'
<1>1. /\ UNCHANGED <<mapping, tlb>> /\ flushing # NoFlush /\ flushing' = NoFlush
      /\ flushing.done >= flushing.size
      /\ owed' = owed \ flushing.range
  BY DEF FlushReturns, spaceVars
<1>2. \A p \in Page : p \in flushing.range => ~Stale(p)
  BY <1>1 DEF TInv, FlushInv
<1>3. StaleOnlyIfOwed'
  BY <1>1, <1>2 DEF TInv, StaleOnlyIfOwed, Stale
<1> QED BY <1>1, <1>3 DEF TInv, TlbShape, FlushInv

LEMMA ActivateKeeps == ASSUME TInv, Activate PROVE TInv'
<1> DEFINE kept == IF ActivateKeepsGlobal THEN GlobalPages ELSE {}
<1>1. /\ UNCHANGED <<mapping, flushing>> /\ flushing = NoFlush
      /\ tlb' = [p \in Page |-> IF p \in kept THEN tlb[p] ELSE Unmapped]
      /\ owed' = owed \cap kept
  BY DEF Activate, spaceVars
<1> HIDE DEF kept
<1>2. TlbShape' /\ FlushInv'
  BY <1>1 DEF TlbShape, FlushInv
<1>3. StaleOnlyIfOwed'
  BY <1>1 DEF TInv, StaleOnlyIfOwed
<1> QED BY <1>2, <1>3 DEF TInv

(* The MMU caches only what the tables say.                                 *)
LEMMA MmuKeeps == ASSUME TInv, NEW p \in Page, Fill(p) \/ Evict(p) PROVE TInv'
<1>1. /\ UNCHANGED <<mapping, flushing, owed>>
      /\ \E t \in {Unmapped, mapping[p]} : tlb' = [tlb EXCEPT ![p] = t]
  BY DEF Fill, Evict, spaceVars
<1>2. PICK t \in {Unmapped, mapping[p]} : tlb' = [tlb EXCEPT ![p] = t]
  BY <1>1
<1>3. \A q \in Page : tlb'[q] = IF q = p THEN t ELSE tlb[q]
  BY <1>2 DEF TInv, TlbShape
<1>4. TlbShape'
  BY <1>2 DEF TInv, TlbShape
<1>5. StaleOnlyIfOwed'
  BY <1>1, <1>3 DEF TInv, StaleOnlyIfOwed
<1>6. FlushInv'
  BY <1>1, <1>3 DEF TInv, FlushInv, Stale
<1> QED BY <1>4, <1>5, <1>6 DEF TInv

LEMMA TStutterKeeps == ASSUME TInv, UNCHANGED tlbVars PROVE TInv'
BY DEF TInv, tlbVars, TlbShape, FlushInv, StaleOnlyIfOwed, Stale

(* A cached translation differs from the tables only for a page changed and *)
(* not flushed since, whatever the MMU caches and whenever it does.         *)
THEOREM OnlyOwedIsStale == TlbSpec => []StaleOnlyIfOwed
<1>1. TInv /\ [TlbNext]_tlbVars => TInv'
  BY KernelKeeps, FlushKeeps, InvalidateKeeps, FlushReturnsKeeps, ActivateKeeps, MmuKeeps,
     TStutterKeeps DEF TlbNext
<1>2. TInv => StaleOnlyIfOwed
  BY DEF TInv
<1> QED BY <1>1, <1>2, TInvInit, PTL DEF TlbSpec

-----------------------------------------------------------------------------
(* Handles, whatever the owner. *)

MType ==
    /\ holds \in [Handle -> Ranges \cup {Null}]
    /\ alive \subseteq Handle /\ given \subseteq Ranges /\ lost \subseteq given
    /\ refused \in BOOLEAN

(* A dead handle holds nothing; a live one what the owner has given out.    *)
HoldsGiven ==
    \A h \in Handle : holds[h] # Null => h \in alive /\ holds[h] \in given \ lost

NoTwoHold ==
    \A g, h \in Handle : g # h /\ holds[g] # Null => holds[g] # holds[h]

(* Only a move assignment takes the handle of a range away.                 *)
GivenIsHeld ==
    \A range \in given \ lost : \E h \in Handle : holds[h] = range

(* What makes the properties inductive.                                     *)
MInv == MType /\ HoldsGiven /\ NoTwoHold /\ GivenIsHeld /\ NeverFreedTwice

LEMMA MInvInit == MemInit => MInv
BY DEF MemInit, MInv, MType, HoldsGiven, NoTwoHold, GivenIsHeld, NeverFreedTwice

LEMMA AllocKeeps ==
    ASSUME MInv, NEW h \in Handle, NEW range \in Ranges, AllocOwned(h, range) PROVE MInv'
<1> USE MemAssumption DEF MInv, MType, AllocOwned
<1>1. MType'
  OBVIOUS
<1>2. HoldsGiven'
  BY DEF HoldsGiven
<1>3. NoTwoHold'
  BY DEF NoTwoHold, HoldsGiven
<1>4. GivenIsHeld'
  <2> SUFFICES ASSUME NEW g \in given' \ lost' PROVE \E k \in Handle : holds'[k] = g
    BY DEF GivenIsHeld
  <2>1. CASE g = range
    BY <2>1
  <2>2. CASE g # range
    <3>1. PICK k \in Handle : holds[k] = g
      BY <2>2 DEF GivenIsHeld
    <3>2. k # h
      BY <2>2, <3>1 DEF HoldsGiven
    <3> QED BY <3>1, <3>2
  <2> QED BY <2>1, <2>2
<1>5. NeverFreedTwice'
  BY DEF NeverFreedTwice
<1> QED BY <1>1, <1>2, <1>3, <1>4, <1>5

(* Moves only hand a range from one handle to another.                      *)
LEMMA MoveConstructKeeps ==
    ASSUME MInv, NEW h \in Handle, NEW other \in Handle, MoveConstruct(h, other) PROVE MInv'
<1> USE DEF MInv, MType, MoveConstruct
<1>1. /\ h # other /\ holds[h] = Null
      /\ \A k \in Handle : holds'[k] = IF k = other THEN Null
                                       ELSE IF k = h THEN holds[other] ELSE holds[k]
  BY DEF HoldsGiven
<1>2. MType'
  OBVIOUS
<1>3. HoldsGiven'
  BY <1>1 DEF HoldsGiven
<1>4. NoTwoHold'
  BY <1>1 DEF NoTwoHold
<1>5. GivenIsHeld'
  <2> SUFFICES ASSUME NEW g \in given \ lost PROVE \E k \in Handle : holds'[k] = g
    BY DEF GivenIsHeld
  <2>1. PICK k \in Handle : holds[k] = g
    BY DEF GivenIsHeld
  <2>2. holds'[IF k = other THEN h ELSE k] = g
    BY <1>1, <2>1, MemAssumption
  <2> QED BY <2>2
<1>6. NeverFreedTwice'
  BY DEF NeverFreedTwice
<1> QED BY <1>2, <1>3, <1>4, <1>5, <1>6

LEMMA MoveAssignKeeps ==
    ASSUME MInv, NEW h \in Handle, NEW other \in Handle, MoveAssign(h, other) PROVE MInv'
<1> USE DEF MInv, MType, MoveAssign
<1>1. CASE h = other
  <2>1. holds' = holds /\ UNCHANGED <<alive, given, refused, lost>>
    BY <1>1
  <2> QED BY <2>1 DEF HoldsGiven, NoTwoHold, GivenIsHeld, NeverFreedTwice
<1>2. CASE h # other
  <2>1. \A k \in Handle : holds'[k] = IF k = h THEN holds[other]
                                      ELSE IF k = other THEN Null ELSE holds[k]
    BY <1>2
  <2>2. lost' = (lost \cup {holds[h]}) \ {Null}
    BY <1>2
  <2>3. MType'
    BY <2>2 DEF HoldsGiven
  <2>4. HoldsGiven'
    BY <1>2, <2>1, <2>2 DEF HoldsGiven, NoTwoHold
  <2>5. NoTwoHold'
    BY <1>2, <2>1 DEF NoTwoHold
  <2>6. GivenIsHeld'
    <3> SUFFICES ASSUME NEW g \in given \ lost' PROVE \E k \in Handle : holds'[k] = g
      BY DEF GivenIsHeld
    <3>1. g \notin lost /\ g # holds[h] /\ g # Null
      BY <2>2, MemAssumption
    <3>2. PICK k \in Handle : holds[k] = g
      BY <3>1 DEF GivenIsHeld
    <3>3. holds'[IF k = other THEN h ELSE k] = g
      BY <2>1, <3>1, <3>2
    <3> QED BY <3>3
  <2>7. NeverFreedTwice'
    BY DEF NeverFreedTwice
  <2> QED BY <2>3, <2>4, <2>5, <2>6, <2>7
<1> QED BY <1>1, <1>2

LEMMA DestroyKeeps == ASSUME MInv, NEW h \in Handle, Destroy(h) PROVE MInv'
<1> USE DEF MInv, MType, Destroy
<1>1. \A k \in Handle : holds'[k] = IF k = h THEN Null ELSE holds[k]
  OBVIOUS
<1>2. MType'
  BY MemAssumption DEF HoldsGiven
<1>3. HoldsGiven'
  BY <1>1 DEF HoldsGiven, NoTwoHold
<1>4. NoTwoHold'
  BY <1>1 DEF NoTwoHold
<1>5. GivenIsHeld'
  BY <1>1 DEF GivenIsHeld
<1>6. NeverFreedTwice'
  BY DEF NeverFreedTwice, HoldsGiven
<1> QED BY <1>2, <1>3, <1>4, <1>5, <1>6

LEMMA MStutterKeeps == ASSUME MInv, UNCHANGED memVars PROVE MInv'
BY DEF MInv, memVars, MType, HoldsGiven, NoTwoHold, GivenIsHeld, NeverFreedTwice

LEMMA MInvAlways == MemSpec => []MInv
<1>1. MInv /\ [MemNext]_memVars => MInv'
  BY AllocKeeps, MoveConstructKeeps, MoveAssignKeeps, DestroyKeeps, MStutterKeeps DEF MemNext
<1> QED BY <1>1, MInvInit, PTL DEF MemSpec

-----------------------------------------------------------------------------
LEMMA OneHandle == MInv => OneHandleEach
<1> SUFFICES ASSUME MInv, NEW range \in given
             PROVE  Cardinality({h \in alive : holds[h] = range}) = (IF range \in lost THEN 0 ELSE 1)
  BY DEF OneHandleEach
<1> DEFINE owners == {h \in alive : holds[h] = range}
<1>1. range # Null
  BY MemAssumption DEF MInv, MType
<1>2. CASE range \in lost
  <2>1. owners = {}
    BY <1>1, <1>2 DEF MInv, MType, HoldsGiven
  <2> QED BY <1>2, <2>1, FS_EmptySet
<1>3. CASE range \notin lost
  <2>1. PICK h \in Handle : holds[h] = range
    BY <1>3 DEF MInv, GivenIsHeld
  <2>2. owners = {h}
    BY <1>1, <2>1 DEF MInv, MType, HoldsGiven, NoTwoHold
  <2> QED BY <1>3, <2>2, FS_Singleton
<1> QED BY <1>2, <1>3

(* No destructor is ever refused, whatever moves came before.               *)
THEOREM NoRangeFreedTwice == MemSpec => []NeverFreedTwice
<1>1. MInv => NeverFreedTwice
  BY DEF MInv
<1> QED BY <1>1, MInvAlways, PTL

(* Every range given out has one handle, unless an assignment took it.      *)
THEOREM EveryRangeHasItsHandle == MemSpec => []OneHandleEach
BY OneHandle, MInvAlways, PTL

-----------------------------------------------------------------------------
(* Both together. *)

(* The call of the address space made for a range, while it is executed.    *)
InCall(op, range) ==
    /\ call = [op |-> op, first |-> range.first, size |-> range.size,
               phys |-> IF op = "map" THEN range.phys ELSE 0, done |-> call.done]
    /\ call.done \in 0 .. range.size

(* What is running and the call it made belong together, and the pages the  *)
(* call has been through are mapped, or free; a range is given back while   *)
(* its handle still holds it, and mapped before there is one.               *)
RunningInv ==
    \/ running \in {Nobody, Panic} /\ call = NoCall
    \/ \E h \in Handle \ alive, range \in Ranges :
          /\ running = For("map", h, range) /\ InCall("map", range)
          /\ \A p \in range.first .. Current - 1 : mapping[p] = range.phys + (p - range.first)
          /\ \A other \in given : Pages(other) \cap Pages(range) = {}
    \/ \E h \in alive :
          /\ holds[h] # Null /\ running = For("free", h, holds[h]) /\ InCall("free", holds[h])
          /\ \A p \in holds[h].first .. Current - 1 : mapping[p] = Unmapped

GivenApart == \A r, s \in given : r # s => Pages(r) \cap Pages(s) = {}

(* The two halves of HandlesTranslate.                                      *)
Translated ==
    \A h \in alive : holds[h] # Null =>
        \A p \in Pages(holds[h]) :
            \/ mapping[p] = holds[h].phys + (p - holds[h].first)
            \/ running = Panic
            \/ running = For("free", h, holds[h]) /\ p < Current

Covered ==
    \A p \in Page : mapping[p] # Unmapped =>
        \/ \E h \in alive : holds[h] # Null /\ p \in Pages(holds[h])
        \/ \E range \in lost : p \in Pages(range)
        \/ p \in left
        \/ running.op = "map" /\ p \in call.first .. Current - 1

OType == mapping \in [Page -> PhysPage \cup {Unmapped}]

(* What makes HandlesTranslate inductive.                                   *)
OInv == OType /\ MInv /\ GivenApart /\ RunningInv /\ Translated /\ Covered

LEMMA RangeFacts ==
    ASSUME NEW range \in Ranges
    PROVE  /\ range.first \in Nat /\ range.size \in Nat /\ range.size > 0 /\ range.phys \in Nat
           /\ range.first \in Page /\ range.size \in Sizes /\ range.phys \in PhysPage
           /\ Pages(range) \subseteq Page
           /\ \A p \in Pages(range) : /\ p \in Nat
                                      /\ range.phys + (p - range.first) \in PhysPage
                                      /\ range.phys + (p - range.first) # Unmapped
<1>1. range \in [first : Page, size : Sizes \ {0}, phys : PhysPage]
  BY MappedMemoryAssumption
<1>2. /\ Pages(range) \subseteq Page
      /\ range.phys .. range.phys + range.size - 1 \subseteq PhysPage
  BY MappedMemoryAssumption
<1>3. /\ range.first \in Nat /\ range.size \in Nat /\ range.size > 0 /\ range.phys \in Nat
      /\ range.first \in Page /\ range.size \in Sizes /\ range.phys \in PhysPage
  <2>1. range.first \in Page /\ range.size \in Sizes /\ range.size # 0 /\ range.phys \in PhysPage
    BY <1>1
  <2>2. range.first \in Nat /\ range.size \in Nat /\ range.phys \in Nat
    BY <2>1, AddressSpaceAssumption
  <2> QED BY <2>1, <2>2
<1>4. \A p \in Pages(range) : p \in Nat /\ range.phys + (p - range.first) \in PhysPage
  BY <1>2, <1>3, AddressSpaceAssumption DEF Pages
<1> QED BY <1>2, <1>3, <1>4, AddressSpaceAssumption

LEMMA OInvInit == OwnedInit => OInv
<1> SUFFICES ASSUME OwnedInit PROVE OInv
  OBVIOUS
<1>1. MInv
  BY MInvInit DEF OwnedInit
<1>2. alive = {} /\ given = {} /\ call = NoCall /\ running = Nobody
      /\ mapping = [p \in Page |-> Unmapped]
  BY DEF OwnedInit, TlbInit, Init, MemInit
<1>3. OType /\ Covered
  BY <1>2 DEF OType, Covered
<1> QED BY <1>1, <1>2, <1>3 DEF OInv, GivenApart, RunningInv, Translated

(* Steps that touch neither the mapping, the call, the handles nor what is  *)
(* running keep the invariant.                                              *)
LEMMA OFrame ==
    ASSUME OInv, UNCHANGED <<mapping, call, memVars, running, left>> PROVE OInv'
<1>1. UNCHANGED <<alive, holds, given, refused, lost>>
  BY DEF memVars
<1>2. MInv'
  BY MStutterKeeps DEF OInv
<1>3. RunningInv'
  BY <1>1 DEF OInv, RunningInv, InCall, Current
<1>4. Translated'
  BY <1>1 DEF OInv, Translated, Current
<1>5. Covered'
  BY <1>1 DEF OInv, Covered, Current
<1> QED BY <1>1, <1>2, <1>3, <1>4, <1>5 DEF OInv, OType, GivenApart

LEMMA MapOwnedKeeps ==
    ASSUME OInv, NEW h \in Handle, NEW range \in Ranges, NEW physSize \in Sizes,
           MapOwned(h, range, physSize)
    PROVE  OInv'
<1>1. /\ UNCHANGED <<mapping, alive, holds, given, refused, lost, left>>
      /\ call = NoCall /\ running = Nobody /\ h \notin alive
      /\ \A other \in given : Pages(other) \cap Pages(range) = {}
  BY DEF MapOwned, MapRange, memVars, Idle
<1>2. \/ call' = NoCall /\ running' = Nobody
      \/ call' = Call("map", range.first, range.size, range.phys) /\ running' = For("map", h, range)
  BY <1>1 DEF MapOwned, MapRange, Call, NoCall
<1>3. MInv'
  BY <1>1, MStutterKeeps DEF OInv, memVars
<1>4. RunningInv'
  <2>1. CASE call' = NoCall /\ running' = Nobody
    BY <2>1 DEF RunningInv
  <2>2. CASE call' = Call("map", range.first, range.size, range.phys) /\ running' = For("map", h, range)
    <3>1. InCall("map", range)'
      BY <2>2, RangeFacts DEF InCall, Call
    <3>2. Current' = range.first
      BY <2>2, RangeFacts DEF Current, Call
    <3> QED BY <1>1, <2>2, <3>1, <3>2, RangeFacts DEF RunningInv
  <2> QED BY <1>2, <2>1, <2>2
<1>5. Translated'
  BY <1>1 DEF OInv, Translated, For, Nobody, Panic
<1>6. Covered'
  BY <1>1 DEF OInv, Covered, Nobody
<1> QED BY <1>1, <1>3, <1>4, <1>5, <1>6 DEF OInv, OType, GivenApart

(* What is known of a mapOwned that is running.                             *)
LEMMA MapRunning ==
    ASSUME OInv, running.op = "map"
    PROVE  /\ running.handle \in Handle \ alive /\ running.range \in Ranges
           /\ running = For("map", running.handle, running.range)
           /\ InCall("map", running.range) /\ call # NoCall
           /\ \A p \in running.range.first .. Current - 1 :
                 mapping[p] = running.range.phys + (p - running.range.first)
           /\ \A other \in given : Pages(other) \cap Pages(running.range) = {}
BY DEF OInv, RunningInv, For, Nobody, Panic, InCall, NoCall

LEMMA FreeRunning ==
    ASSUME OInv, running.op = "free"
    PROVE  /\ running.handle \in alive /\ holds[running.handle] # Null
           /\ running = For("free", running.handle, holds[running.handle])
           /\ InCall("free", holds[running.handle]) /\ call # NoCall
           /\ \A p \in holds[running.handle].first .. Current - 1 : mapping[p] = Unmapped
BY DEF OInv, RunningInv, For, Nobody, Panic, InCall, NoCall

(* What a handle holds is a range of its own.                               *)
LEMMA HeldFacts ==
    ASSUME OInv, NEW h \in alive, holds[h] # Null
    PROVE  /\ h \in Handle /\ holds[h] \in Ranges /\ holds[h] \in given \ lost
           /\ \A g \in alive : g # h /\ holds[g] # Null =>
                 holds[g] # holds[h] /\ Pages(holds[g]) \cap Pages(holds[h]) = {}
BY DEF OInv, MInv, MType, HoldsGiven, NoTwoHold, GivenApart

LEMMA MapReturnsKeeps == ASSUME OInv, MapReturns PROVE OInv'
<1> DEFINE h == running.handle  range == running.range
<1>1. /\ h \in Handle \ alive /\ range \in Ranges /\ running = For("map", h, range)
      /\ InCall("map", range) /\ \A other \in given : Pages(other) \cap Pages(range) = {}
      /\ \A p \in range.first .. Current - 1 : mapping[p] = range.phys + (p - range.first)
  BY MapRunning DEF MapReturns
<1> HIDE DEF h, range
<1>2. /\ mapping' = mapping /\ call' = NoCall /\ running' = Nobody
  BY DEF MapReturns, Return, Fail, Finish
<1>3. OType' /\ RunningInv'
  BY <1>2 DEF OInv, OType, RunningInv
<1>4. CASE call.done = call.size /\ AllocOwned(h, range) /\ left' = left \ Pages(range)
  <2>1. MInv'
    BY <1>1, <1>4, AllocKeeps DEF OInv
  <2>2. /\ alive' = alive \cup {h} /\ given' = given \cup {range} /\ lost' = lost
        /\ holds' = [holds EXCEPT ![h] = range]
    BY <1>4 DEF AllocOwned
  <2>3. GivenApart'
    BY <1>1, <2>2 DEF OInv, GivenApart
  <2>4. holds'[h] = range /\ \A g \in alive : g # h /\ holds'[g] = holds[g]
    BY <1>1, <2>2 DEF OInv, MInv, MType
  <2>5. call.first = range.first /\ Current - 1 = range.first + range.size - 1
    BY <1>1, <1>4, RangeFacts DEF InCall, Current
  <2>6. range # Null
    BY <1>1, MemAssumption
  <2>7. Translated'
    <3> SUFFICES ASSUME NEW g \in alive', holds'[g] # Null, NEW p \in Pages(holds'[g])
                 PROVE  mapping'[p] = holds'[g].phys + (p - holds'[g].first)
      BY DEF Translated
    <3>1. CASE g = h
      BY <1>1, <1>2, <2>4, <2>5, <3>1 DEF Pages
    <3>2. CASE g # h
      BY <1>1, <1>2, <2>2, <2>4, <3>2 DEF OInv, Translated, For, Panic
    <3> QED BY <3>1, <3>2
  <2>8. Covered'
    <3> SUFFICES ASSUME NEW p \in Page, mapping'[p] # Unmapped
                 PROVE  \/ \E g \in alive' : holds'[g] # Null /\ p \in Pages(holds'[g])
                        \/ \E r \in lost' : p \in Pages(r)
                        \/ p \in left'
      BY DEF Covered
    <3>1. CASE p \in Pages(range)
      BY <2>2, <2>4, <2>6, <3>1
    <3>2. CASE p \notin Pages(range)
      <4>1. p \notin call.first .. Current - 1
        BY <2>5, <3>2 DEF Pages
      <4>2. \/ \E g \in alive : holds[g] # Null /\ p \in Pages(holds[g])
            \/ \E r \in lost : p \in Pages(r)
            \/ p \in left
        BY <1>2, <4>1 DEF OInv, Covered
      <4> QED BY <1>1, <1>4, <2>2, <2>4, <3>2, <4>2
    <3> QED BY <3>1, <3>2
  <2> QED BY <1>3, <2>1, <2>3, <2>7, <2>8 DEF OInv
<1>5. CASE left' = left \cup (call.first .. Current - 1) /\ UNCHANGED memVars
  <2>1. UNCHANGED <<alive, holds, given, refused, lost>>
    BY <1>5 DEF memVars
  <2>2. MInv' /\ GivenApart'
    BY <1>5, <2>1, MStutterKeeps DEF OInv, GivenApart
  <2>3. Translated'
    BY <1>1, <1>2, <2>1 DEF OInv, Translated, For, Panic
  <2>4. Covered'
    BY <1>2, <1>5, <2>1 DEF OInv, Covered
  <2> QED BY <1>3, <2>2, <2>3, <2>4 DEF OInv
<1> QED BY <1>4, <1>5 DEF MapReturns, Return, h, range

LEMMA DestroyStartsKeeps ==
    ASSUME OInv, NEW h \in Handle, DestroyStarts(h) PROVE OInv'
<1>1. h \in alive /\ running = Nobody /\ call = NoCall /\ left' = left
  BY DEF DestroyStarts, Idle
<1>2. CASE holds[h] = Null
  <2>1. Destroy(h) /\ UNCHANGED <<mapping, call, running>>
    BY <1>2 DEF DestroyStarts, tlbVars
  <2>2. /\ alive' = alive \ {h} /\ given' = given \ {Null} /\ lost' = lost
        /\ \A g \in Handle : holds'[g] = holds[g]
    BY <1>2, <2>1 DEF Destroy, OInv, MInv, MType
  <2>3. alive \subseteq Handle
    BY DEF OInv, MInv, MType
  <2>4. MInv'
    BY <2>1, DestroyKeeps DEF OInv
  <2>5. GivenApart'
    BY <2>2 DEF OInv, GivenApart
  <2>6. RunningInv'
    BY <1>1, <2>1 DEF RunningInv
  <2>7. Translated'
    BY <1>1, <2>1, <2>2, <2>3 DEF OInv, Translated, For, Nobody, Panic
  <2>8. Covered'
    BY <1>1, <1>2, <2>1, <2>2, <2>3 DEF OInv, Covered, Nobody
  <2> QED BY <2>1, <2>4, <2>5, <2>6, <2>7, <2>8 DEF OInv, OType
<1>3. CASE holds[h] # Null
  <2> DEFINE range == holds[h]
  <2>1. /\ call' = Call("free", range.first, range.size, 0)
        /\ running' = For("free", h, range)
        /\ UNCHANGED <<mapping, alive, holds, given, refused, lost>>
    BY <1>3 DEF DestroyStarts, Free, memVars
  <2>2. range \in Ranges
    BY <1>1, <1>3, HeldFacts
  <2>3. MInv'
    BY <2>1, MStutterKeeps DEF OInv, memVars
  <2>4. InCall("free", range)' /\ Current' = range.first
    BY <2>1, <2>2, RangeFacts DEF InCall, Call, Current
  <2>5. RunningInv'
    <3>1. \A p \in range.first .. Current' - 1 : mapping'[p] = Unmapped
      BY <2>2, <2>4, RangeFacts
    <3> QED BY <1>1, <1>3, <2>1, <2>4, <3>1 DEF RunningInv
  <2>6. Translated'
    BY <1>1, <2>1 DEF OInv, Translated, For, Nobody, Panic
  <2>7. Covered'
    BY <1>1, <2>1 DEF OInv, Covered, Nobody
  <2> QED BY <1>1, <2>1, <2>3, <2>5, <2>6, <2>7 DEF OInv, OType, GivenApart
<1> QED BY <1>2, <1>3

(* A destructor is never refused for a page that is not mapped: only for a  *)
(* table the Pmm does not take back.                                        *)
LEMMA NeverRefused ==
    ASSUME OInv, running.op = "free", call.done < call.size
    PROVE  mapping[Current] # Unmapped
<1> DEFINE h == running.handle  range == holds[h]
<1>1. h \in alive /\ range # Null /\ running = For("free", h, range) /\ InCall("free", range)
  BY FreeRunning
<1>2. range \in Ranges
  BY <1>1, HeldFacts
<1>3. Current \in Pages(range)
  BY <1>1, <1>2, RangeFacts DEF InCall, Current, Pages
<1>4. mapping[Current] = range.phys + (Current - range.first)
  <2>1. Current \in Nat /\ ~(Current < Current)
    BY <1>2, <1>3, RangeFacts
  <2> QED BY <1>1, <1>3, <2>1 DEF OInv, Translated, For, Panic
<1> QED BY <1>2, <1>3, <1>4, RangeFacts

LEMMA DestroyReturnsKeeps == ASSUME OInv, DestroyReturns PROVE OInv'
<1> DEFINE h == running.handle  range == holds[h]
<1>1. /\ h \in alive /\ range # Null /\ running = For("free", h, range) /\ InCall("free", range)
      /\ call # NoCall
  BY FreeRunning DEF DestroyReturns
<1>2. h \in Handle /\ range \in Ranges
  BY <1>1, HeldFacts
<1>3. mapping' = mapping /\ call' = NoCall /\ left' = left
  BY DEF DestroyReturns, Return, Fail, Finish
<1>4. CASE call.done = call.size /\ Destroy(h) /\ running' = Nobody
  <2>1. MInv'
    BY <1>2, <1>4, DestroyKeeps DEF OInv
  <2>2. /\ alive' = alive \ {h} /\ given' = given \ {range} /\ lost' = lost
        /\ \A g \in alive' : holds'[g] = holds[g] /\ g \in alive /\ g # h
    BY <1>4 DEF Destroy, OInv, MInv, MType
  <2>3. RunningInv'
    BY <1>3, <1>4 DEF RunningInv
  <2>4. Translated'
    BY <1>1, <1>3, <2>2 DEF OInv, Translated, For, Panic
  <2>5. \A p \in Pages(range) : mapping[p] = Unmapped
    <3>1. Current = range.first + range.size
      BY <1>1, <1>4 DEF InCall, Current
    <3>2. \A p \in range.first .. Current - 1 : mapping[p] = Unmapped
      BY FreeRunning DEF DestroyReturns
    <3> QED BY <1>2, <3>1, <3>2, RangeFacts DEF Pages
  <2>6. Covered'
    BY <1>1, <1>3, <2>2, <2>5 DEF OInv, Covered, For
  <2> QED BY <1>3, <2>1, <2>2, <2>3, <2>4, <2>6 DEF OInv, OType, GivenApart
<1>5. CASE Fail /\ running' = Panic /\ UNCHANGED <<alive, holds, given, lost>>
           /\ refused' = (call.done < call.size /\ mapping[Current] = Unmapped)
  <2>1. ~refused'
    <3>1. call.done < call.size => mapping[Current] # Unmapped
      BY <1>1, NeverRefused DEF DestroyReturns
    <3> QED BY <1>5, <3>1, Zenon
  <2>2. MInv'
    BY <1>5, <2>1 DEF OInv, MInv, MType, HoldsGiven, NoTwoHold, GivenIsHeld, NeverFreedTwice
  <2>3. RunningInv' /\ Translated'
    BY <1>3, <1>5 DEF RunningInv, Translated
  <2>4. Covered'
    BY <1>1, <1>3, <1>5 DEF OInv, Covered, For
  <2> QED BY <1>3, <1>5, <2>2, <2>3, <2>4 DEF OInv, OType, GivenApart
<1> QED BY <1>1, <1>4, <1>5 DEF DestroyReturns, Return

(* The page a call is at belongs to the range of its handle, or to the      *)
(* range that is going to have one.                                         *)
LEMMA OnePageKeeps == ASSUME OInv, OnePage PROVE OInv'
<1>1. /\ call.done < call.size /\ call.op \in {"map", "free"}
      /\ call' = [call EXCEPT !.done = @ + 1]
      /\ mapping' = [mapping EXCEPT ![Current] =
                         IF call.op = "map" THEN call.phys + call.done ELSE Unmapped]
      /\ UNCHANGED <<alive, holds, given, refused, lost, running, left>>
  BY DEF OnePage, MapPage, FreePage, memVars
<1>2. PICK h \in Handle, range \in Ranges :
         /\ running.op = call.op /\ running = For(call.op, h, range) /\ InCall(call.op, range)
         /\ \A p \in range.first .. Current - 1 :
               mapping[p] = IF call.op = "map" THEN range.phys + (p - range.first) ELSE Unmapped
         /\ \/ call.op = "map" /\ h \in Handle \ alive
               /\ \A other \in given : Pages(other) \cap Pages(range) = {}
            \/ call.op = "free" /\ h \in alive /\ range = holds[h] /\ range # Null
  <2>1. CASE running.op = "map"
    BY <2>1, MapRunning DEF InCall
  <2>2. CASE running.op = "free"
    BY <2>2, FreeRunning, HeldFacts DEF InCall
  <2>3. running.op \in {"map", "free"}
    BY <1>1 DEF OInv, RunningInv, For, Nobody, Panic, NoCall
  <2> QED BY <2>1, <2>2, <2>3
<1>3. /\ InCall(call.op, range)' /\ Current \in Pages(range) /\ Current' = Current + 1
      /\ Current \in Page /\ Current \in Nat /\ range.first \in Nat /\ Current >= range.first
      /\ call'.op = call.op /\ call'.first = call.first
  <2>1. /\ range.first \in Nat /\ range.size \in Nat /\ Pages(range) \subseteq Page
        /\ call.first = range.first /\ call.size = range.size /\ call.done \in 0 .. range.size
        /\ call.done < range.size
    BY <1>1, <1>2, RangeFacts DEF InCall
  <2>2. /\ call'.op = call.op /\ call'.first = call.first /\ call'.size = call.size
        /\ call'.phys = call.phys /\ call'.done = call.done + 1
    BY <1>1, <1>2 DEF InCall
  <2>3. InCall(call.op, range)'
    BY <1>1, <1>2, <2>1, <2>2 DEF InCall
  <2> QED BY <2>1, <2>2, <2>3 DEF Current, Pages
<1>4. \A p \in Page : mapping'[p] =
          IF p # Current THEN mapping[p]
          ELSE IF call.op = "map" THEN range.phys + (p - range.first) ELSE Unmapped
  BY <1>1, <1>2, <1>3, RangeFacts DEF OInv, OType, InCall, Current
<1>5. OType'
  BY <1>1, <1>2, <1>3, RangeFacts DEF OInv, OType, InCall, Current
<1>6. \A p \in range.first .. Current' - 1 :
          mapping'[p] = IF call.op = "map" THEN range.phys + (p - range.first) ELSE Unmapped
  <2>1. \A p \in range.first .. Current' - 1 : p \in Pages(range)
    BY <1>1, <1>2, <1>3, RangeFacts DEF InCall, Current, Pages
  <2>2. \A p \in range.first .. Current' - 1 : p = Current \/ p \in range.first .. Current - 1
    BY <1>3
  <2> QED BY <1>2, <1>4, <2>1, <2>2, RangeFacts
<1>7. RunningInv'
  <2>1. CASE call.op = "map"
    BY <1>1, <1>2, <1>3, <1>6, <2>1 DEF RunningInv
  <2>2. CASE call.op = "free"
    BY <1>1, <1>2, <1>3, <1>6, <2>2 DEF RunningInv
  <2> QED BY <1>2, <2>1, <2>2
<1>8. Translated'
  <2> SUFFICES ASSUME NEW g \in alive, holds[g] # Null, NEW p \in Pages(holds[g])
               PROVE  \/ mapping'[p] = holds[g].phys + (p - holds[g].first)
                      \/ running = For("free", g, holds[g]) /\ p < Current'
    BY <1>1 DEF Translated
  <2>1. holds[g] \in Ranges /\ holds[g] \in given /\ p \in Page /\ p \in Nat
    BY HeldFacts, RangeFacts
  <2>2. CASE p = Current
    <3>1. call.op = "free" /\ g = h
      BY <1>2, <1>3, <2>1, <2>2, HeldFacts
    <3> QED BY <1>2, <1>3, <2>1, <2>2, <3>1
  <2>3. CASE p # Current
    <3>1. \/ mapping[p] = holds[g].phys + (p - holds[g].first)
          \/ running = For("free", g, holds[g]) /\ p < Current
      BY <1>2 DEF OInv, Translated, For, Panic
    <3> QED BY <1>3, <1>4, <2>1, <2>3, <3>1
  <2> QED BY <2>2, <2>3
<1>9. Covered'
  <2> SUFFICES ASSUME NEW p \in Page, mapping'[p] # Unmapped
               PROVE  \/ \E g \in alive : holds[g] # Null /\ p \in Pages(holds[g])
                      \/ \E r \in lost : p \in Pages(r)
                      \/ p \in left
                      \/ running.op = "map" /\ p \in call'.first .. Current' - 1
    BY <1>1 DEF Covered
  <2>1. CASE p = Current
    BY <1>2, <1>3, <1>4, <2>1 DEF InCall
  <2>2. CASE p # Current
    <3>1. mapping[p] # Unmapped
      BY <1>4, <2>2
    <3>2. p \in call.first .. Current - 1 => p \in call'.first .. Current' - 1
      BY <1>2, <1>3 DEF InCall
    <3> QED BY <3>1, <3>2 DEF OInv, Covered
  <2> QED BY <2>1, <2>2
<1> QED BY <1>1, <1>5, <1>7, <1>8, <1>9, MStutterKeeps
        DEF OInv, GivenApart, memVars

(* A move hands a range, and with it the pages, from one handle to another. *)
LEMMA MoveKeeps ==
    ASSUME OInv, NEW h \in Handle, NEW other \in Handle, Move(h, other) PROVE OInv'
<1>1. /\ running = Nobody /\ call = NoCall
      /\ UNCHANGED <<mapping, call, running, left>>
  BY DEF Move, Idle, tlbVars
<1>2. MInv'
  BY MoveConstructKeeps, MoveAssignKeeps DEF Move, OInv
<1>3. /\ given' = given /\ alive \subseteq alive' /\ lost \subseteq lost' /\ alive' \subseteq Handle
      /\ \A g \in alive' : holds'[g] # Null => \E k \in alive : holds[k] = holds'[g]
      /\ \A k \in alive : holds[k] # Null =>
            holds[k] \in lost' \/ \E g \in alive' : holds'[g] = holds[k]
  <2>1. CASE MoveConstruct(h, other)
    <3>1. /\ alive' = alive \cup {h} /\ given' = given /\ lost' = lost /\ h # other
          /\ h \in alive' /\ other \in alive
          /\ \A k \in Handle : holds'[k] = IF k = other THEN Null
                                           ELSE IF k = h THEN holds[other] ELSE holds[k]
      BY <2>1 DEF MoveConstruct, OInv, MInv, MType
    <3>2. \A k \in alive : k # h
      BY <2>1 DEF MoveConstruct
    <3>3. alive \subseteq Handle
      BY DEF OInv, MInv, MType
    <3> QED BY <3>1, <3>2, <3>3
  <2>2. CASE MoveAssign(h, other)
    <3>1. /\ alive' = alive /\ given' = given /\ h \in alive /\ other \in alive
          /\ \A k \in Handle : holds'[k] = IF k = h THEN holds[other]
                                           ELSE IF k = other THEN Null ELSE holds[k]
      BY <2>2 DEF MoveAssign, OInv, MInv, MType
    <3>2. lost' = IF h = other THEN lost ELSE (lost \cup {holds[h]}) \ {Null}
      BY <2>2 DEF MoveAssign
    <3>3. alive \subseteq Handle /\ Null \notin lost
      BY MemAssumption DEF OInv, MInv, MType
    <3> QED BY <3>1, <3>2, <3>3
  <2> QED BY <2>1, <2>2 DEF Move
<1>4. GivenApart' /\ RunningInv'
  BY <1>1, <1>3 DEF OInv, GivenApart, RunningInv
<1>5. Translated'
  BY <1>1, <1>3 DEF OInv, Translated, For, Nobody, Panic
<1>6. Covered'
  <2> SUFFICES ASSUME NEW p \in Page, mapping[p] # Unmapped
               PROVE  \/ \E g \in alive' : holds'[g] # Null /\ p \in Pages(holds'[g])
                      \/ \E r \in lost' : p \in Pages(r)
                      \/ p \in left
    BY <1>1 DEF Covered
  <2>1. \/ \E k \in alive : holds[k] # Null /\ p \in Pages(holds[k])
        \/ \E r \in lost : p \in Pages(r)
        \/ p \in left
    BY <1>1 DEF OInv, Covered, Nobody
  <2> QED BY <1>3, <2>1
<1> QED BY <1>1, <1>2, <1>4, <1>5, <1>6 DEF OInv, OType

(* What the TLB does, and what is done to it, is no business of a handle's. *)
LEMMA TlbStepKeeps == ASSUME OInv, Invalidate \/ Mmu PROVE OInv'
<1>1. UNCHANGED <<mapping, call, memVars, running, left>>
  BY DEF Invalidate, Mmu, Flush, InvalidatePage, FlushReturns, Activate, Fill, Evict, spaceVars
<1> QED BY <1>1, OFrame

LEMMA OInvAlways == OwnedSpec => []OInv
<1>1. OInv /\ [OwnedNext]_ownedVars => OInv'
  <2> SUFFICES ASSUME OInv, [OwnedNext]_ownedVars PROVE OInv'
    OBVIOUS
  <2>1. CASE OwnedNext
    BY <2>1, MapOwnedKeeps, MapReturnsKeeps, DestroyStartsKeeps, DestroyReturnsKeeps,
       OnePageKeeps, MoveKeeps, TlbStepKeeps DEF OwnedNext
  <2>2. CASE UNCHANGED ownedVars
    BY <2>2, OFrame DEF ownedVars, tlbVars
  <2> QED BY <2>1, <2>2
<1> QED BY <1>1, OInvInit, PTL DEF OwnedSpec

-----------------------------------------------------------------------------
(* As long as a handle lives every page of its range is mapped as asked,    *)
(* and no page is mapped that nobody will free but for the reasons named,   *)
(* whatever calls fail halfway and however the handles are moved.           *)
THEOREM HandlesAlwaysTranslate == OwnedSpec => []HandlesTranslate
<1>1. OInv => HandlesTranslate
  <2> SUFFICES ASSUME OInv PROVE HandlesTranslate
    OBVIOUS
  <2>1. running = Panic => call = NoCall
    <3>1. Panic.op = "panic" /\ \A h, r : For("map", h, r).op = "map" /\ For("free", h, r).op = "free"
      BY DEF For, Panic
    <3> QED BY <3>1 DEF OInv, RunningInv
  <2> QED BY <2>1 DEF OInv, Translated, Covered, HandlesTranslate
<1> QED BY <1>1, OInvAlways, PTL

(* To its handles the address space is an owner as Mem has it: mapOwned and *)
(* the destructor take effect when their call returns, every other step of  *)
(* the Vmm, the MMU and the TLB changes no handle.                          *)
THEOREM SpaceIsAnOwner == OwnedSpec => ImplementsMem
<1>1. OwnedInit => MemInit
  BY DEF OwnedInit
<1>2. ASSUME OInv, [OwnedNext]_ownedVars PROVE [MemNext]_memVars
  <2>1. CASE UNCHANGED ownedVars
    BY <2>1 DEF ownedVars
  <2>2. CASE \E h \in Handle, range \in Ranges, physSize \in Sizes : MapOwned(h, range, physSize)
    BY <2>2 DEF MapOwned
  <2>3. ASSUME NEW h \in Handle, DestroyStarts(h) PROVE [MemNext]_memVars
    BY <2>3 DEF DestroyStarts, MemNext
  <2>4. ASSUME NEW h \in Handle, NEW other \in Handle, Move(h, other) PROVE [MemNext]_memVars
    BY <2>4 DEF Move, MemNext
  <2>5. CASE MapReturns
    BY <1>2, <2>5, MapRunning DEF MapReturns, MemNext
  <2>6. CASE DestroyReturns
    <3>1. running.handle \in Handle
      BY <1>2, <2>6, FreeRunning, HeldFacts DEF DestroyReturns
    <3>2. CASE Destroy(running.handle)
      BY <3>1, <3>2 DEF MemNext
    <3>3. CASE /\ refused' = (call.done < call.size /\ mapping[Current] = Unmapped)
               /\ UNCHANGED <<alive, holds, given, lost>>
      <4>1. call.done < call.size => mapping[Current] # Unmapped
        BY <1>2, <2>6, NeverRefused DEF DestroyReturns
      <4>2. refused' = FALSE /\ refused = FALSE
        BY <1>2, <3>3, <4>1, Zenon DEF OInv, MInv, MType, NeverFreedTwice
      <4> QED BY <3>3, <4>2 DEF memVars
    <3> QED BY <2>6, <3>2, <3>3 DEF DestroyReturns
  <2>7. CASE OnePage \/ Invalidate \/ Mmu
    BY <2>7 DEF OnePage, Invalidate, Mmu
  <2> QED BY <1>2, <2>1, <2>2, <2>3, <2>4, <2>5, <2>6, <2>7 DEF OwnedNext
<1> QED BY <1>1, <1>2, OInvAlways, PTL DEF OwnedSpec, ImplementsMem, MemSpec

(* So no destructor finds its range unmapped already.                       *)
THEOREM NoMappingFreedTwice == OwnedSpec => []NeverFreedTwice
BY SpaceIsAnOwner, NoRangeFreedTwice, PTL DEF ImplementsMem

(* And handles are one more client of the address space: a mapping that is  *)
(* stale in the TLB is still owed a flush.                                  *)
THEOREM OwnedIsStaleOnlyIfOwed == OwnedSpec => []StaleOnlyIfOwed
<1>1. OwnedInit => TlbInit
  BY DEF OwnedInit
<1>2. ASSUME OInv, [OwnedNext]_ownedVars PROVE [TlbNext]_tlbVars
  <2>1. CASE UNCHANGED ownedVars
    BY <2>1 DEF ownedVars
  <2>2. ASSUME NEW h \in Handle, NEW range \in Ranges, NEW physSize \in Sizes,
               MapOwned(h, range, physSize)
        PROVE  [TlbNext]_tlbVars
    BY <2>2, RangeFacts DEF MapOwned, TlbNext, KernelStep, Next
  <2>3. ASSUME NEW h \in Handle, DestroyStarts(h) PROVE [TlbNext]_tlbVars
    <3>1. CASE holds[h] = Null
      BY <2>3, <3>1 DEF DestroyStarts
    <3>2. CASE holds[h] # Null
      <4>1. holds[h].first \in Page /\ holds[h].size \in Sizes
        BY <1>2, <2>3, <3>2, HeldFacts, RangeFacts DEF DestroyStarts
      <4>2. Free(holds[h].first, holds[h].size) /\ NotFlushed
        BY <2>3, <3>2 DEF DestroyStarts
      <4> QED BY <4>1, <4>2 DEF TlbNext, KernelStep, Next
    <3> QED BY <3>1, <3>2
  <2>4. CASE \E h, other \in Handle : Move(h, other)
    BY <2>4 DEF Move
  <2>5. CASE MapReturns \/ DestroyReturns \/ OnePage
    BY <2>5 DEF MapReturns, DestroyReturns, OnePage, TlbNext, KernelStep, Next
  <2>6. CASE Invalidate \/ Mmu
    BY <2>6 DEF Invalidate, Mmu, TlbNext
  <2> QED BY <1>2, <2>1, <2>2, <2>3, <2>4, <2>5, <2>6 DEF OwnedNext
<1>3. OwnedSpec => TlbSpec
  BY <1>1, <1>2, OInvAlways, PTL DEF OwnedSpec, TlbSpec
<1> QED BY <1>3, OnlyOwedIsStale, PTL
=============================================================================
