-------------------------- MODULE HandoverBuilder --------------------------
(***************************************************************************)
(* The builder of the handover payload (vaerk-handover/builder.cpp).  A   *)
(* boot loader calls add for every range it knows of; the builder keeps a *)
(* list of records in a fixed buffer, merges FREE neighbours and carves   *)
(* lower-ranked records around higher-ranked ones.  Strings are pushed    *)
(* from the far end of the same buffer.                                   *)
(*                                                                         *)
(* add(Record) is recursive: it removes a record and calls itself on the  *)
(* pieces, in order.  `todo` is the stack of calls still to be made, its  *)
(* head the next one; one step runs one such call, whose loop changes the *)
(* list only at the first record it stops at.                             *)
(***************************************************************************)
EXTENDS HandoverPayload

CONSTANTS
    BufSize,     \* bytes of the slice given to the constructor
    MaxAddr,     \* the physical memory a client describes ends here
    StrLens,     \* lengths of the strings a client adds
    Unclaimed    \* an address no record covers

Address == 0 .. MaxAddr - 1

ASSUME BuilderAssumption ==
    /\ BufSize \in Nat /\ BufSize >= PayloadSize
    /\ MaxAddr \in Nat
    /\ StrLens \subseteq Nat
    /\ Unclaimed \notin Tag

VARIABLES
    records,     \* _records
    string,      \* _string, as an offset into the buffer
    agent,       \* payload().agent
    len,         \* payload().len
    todo,        \* the calls of add(Record) in flight
    panicked,    \* panic("handover: payload full") was reached
    settled,     \* history: the map when no call was in flight
    fresh        \* history: nothing was added since finalize

vars == <<records, string, agent, len, todo, panicked, settled, fresh>>

Covered(recs, a) == \E i \in DOMAIN recs : a \in Extent(recs[i])

OwnerOf(recs) ==
    [a \in Address |->
        IF Covered(recs, a)
        THEN recs[CHOOSE i \in DOMAIN recs : a \in Extent(recs[i])].tag
        ELSE Unclaimed]

Init ==
    /\ records = <<>>
    /\ string = BufSize
    /\ agent = 0
    /\ len = 0
    /\ todo = <<>>
    /\ panicked = FALSE
    /\ settled = [a \in Address |-> Unclaimed]
    /\ fresh = FALSE

-----------------------------------------------------------------------------
(* One call of add(Record). *)

RecordsEnd == PayloadSize + RecordSize * Len(records)

(* Mutant: the room is checked before the record is counted. *)
HasRoomForLess(recordBytes, stringBytes) == RecordsEnd <= string - stringBytes

HasRoom(recordBytes, stringBytes) == RecordsEnd + recordBytes <= string - stringBytes

MergesPrevious(r, other) == r.tag = FREE /\ other.tag = FREE /\ End(other) = r.start
MergesNext(r, other)     == r.tag = FREE /\ other.tag = FREE /\ other.start = End(r)

(* Mutant: the search for the place of a record never stops at a later one. *)
StopsAtNoPlace(r, other) ==
    MergesPrevious(r, other) \/ MergesNext(r, other) \/ Collides(r, other)

StopsAt(r, other) ==
    \/ MergesPrevious(r, other)
    \/ MergesNext(r, other)
    \/ Collides(r, other)
    \/ other.start > r.start

FirstStop(r, i) ==
    /\ StopsAt(r, records[i])
    /\ \A j \in 1 .. i - 1 : ~StopsAt(r, records[j])

NoStop(r) == \A i \in DOMAIN records : ~StopsAt(r, records[i])

(* The call at the head of todo leaves the list recs and makes the calls next. *)
Proceed(recs, next) ==
    /\ records' = recs
    /\ todo' = next \o Tail(todo)
    /\ settled' = IF todo' = <<>> THEN OwnerOf(recs) ELSE settled
    /\ UNCHANGED <<string, agent, len, panicked, fresh>>

Panic == panicked' = TRUE /\ UNCHANGED <<records, string, agent, len, todo, settled, fresh>>

Working == ~panicked /\ todo # <<>>

SkipEmpty == Working /\ Head(todo).size = 0 /\ Proceed(records, <<>>)

Stopped(i) == Working /\ Head(todo).size > 0 /\ FirstStop(Head(todo), i)

(* Mutant: the previous record is grown where it is and not added again. *)
GrowPrevious(i) ==
    LET r == Head(todo)  other == records[i]
    IN  /\ Stopped(i) /\ MergesPrevious(r, other)
        /\ Proceed(ReplaceAt(records, i, [other EXCEPT !.size = @ + r.size]), <<>>)

MergePrevious(i) ==
    LET r == Head(todo)  other == records[i]
    IN  /\ Stopped(i) /\ MergesPrevious(r, other)
        /\ Proceed(RemoveAt(records, i), <<[other EXCEPT !.size = @ + r.size]>>)

MergeNext(i) ==
    LET r == Head(todo)  other == records[i]
    IN  /\ Stopped(i) /\ MergesNext(r, other)
        /\ Proceed(RemoveAt(records, i), <<[r EXCEPT !.size = @ + other.size]>>)

(* Mutant: the whole record is added again instead of its parts. *)
CarveNothing(i) ==
    LET r == Head(todo)  other == records[i]
    IN  /\ Stopped(i) /\ Collides(r, other)
        /\ CollisionRank(r.tag) < CollisionRank(other.tag)
        /\ Proceed(RemoveAt(records, i), <<other, r>>)

(* The record yields to the other: it keeps what lies around the other. *)
CarveRecord(i) ==
    LET r == Head(todo)  other == records[i]
    IN  /\ Stopped(i) /\ Collides(r, other)
        /\ CollisionRank(r.tag) < CollisionRank(other.tag)
        /\ Proceed(RemoveAt(records, i), <<other, Below(r, other), Above(r, other)>>)

(* Mutant: the part of the other above the record is forgotten. *)
CarveOtherBelow(i) ==
    LET r == Head(todo)  other == records[i]
    IN  /\ Stopped(i) /\ Collides(r, other)
        /\ CollisionRank(r.tag) > CollisionRank(other.tag)
        /\ Proceed(RemoveAt(records, i), <<r, Below(other, r)>>)

(* The other yields to the record. *)
CarveOther(i) ==
    LET r == Head(todo)  other == records[i]
    IN  /\ Stopped(i) /\ Collides(r, other)
        /\ CollisionRank(r.tag) > CollisionRank(other.tag)
        /\ Proceed(RemoveAt(records, i), <<r, Below(other, r), Above(other, r)>>)

DropColliding(i) ==
    LET r == Head(todo)  other == records[i]
    IN  /\ Stopped(i) /\ Collides(r, other)
        /\ CollisionRank(r.tag) = CollisionRank(other.tag)
        /\ Proceed(records, <<>>)

InsertBefore(i) ==
    LET r == Head(todo)  other == records[i]
    IN  /\ Stopped(i)
        /\ ~ MergesPrevious(r, other) /\ ~ MergesNext(r, other) /\ ~ Collides(r, other)
        /\ IF HasRoom(RecordSize, 0) THEN Proceed(InsertAt(records, i, r), <<>>) ELSE Panic

PushBack ==
    /\ Working /\ Head(todo).size > 0 /\ NoStop(Head(todo))
    /\ IF HasRoom(RecordSize, 0) THEN Proceed(Append(records, Head(todo)), <<>>) ELSE Panic

AddStep ==
    \/ SkipEmpty
    \/ PushBack
    \/ \E i \in DOMAIN records :
          \/ MergePrevious(i) \/ MergeNext(i)
          \/ CarveRecord(i) \/ CarveOther(i)
          \/ DropColliding(i) \/ InsertBefore(i)

-----------------------------------------------------------------------------
(* The client's calls. *)

Idle == ~panicked /\ todo = <<>>

(* add(tag, flags, {start, size}, vaddr); the default range is empty. *)
Add(tag, start, size) ==
    /\ Idle
    /\ start + size <= MaxAddr /\ (size = 0 => start = 0)
    /\ todo' = <<[tag |-> tag, start |-> start, size |-> size]>>
    /\ fresh' = FALSE
    /\ UNCHANGED <<records, string, agent, len, panicked, settled>>

PushString(n) ==
    /\ string' = string - (n + 1)
    /\ UNCHANGED <<records, len, todo, panicked, settled, fresh>>

(* add(Str): the string and its terminator. *)
AddString(n) ==
    /\ Idle
    /\ IF HasRoom(0, n + 1) THEN PushString(n) /\ UNCHANGED agent ELSE Panic

Agent(n) ==
    /\ Idle
    /\ IF HasRoom(0, n + 1) THEN PushString(n) /\ agent' = string' ELSE Panic

Finalize ==
    /\ Idle
    /\ len' = Len(records)
    /\ fresh' = TRUE
    /\ UNCHANGED <<records, string, agent, todo, panicked, settled>>

Client ==
    \/ \E tag \in Tag, start \in Address, size \in 0 .. MaxAddr : Add(tag, start, size)
    \/ \E n \in StrLens : AddString(n) \/ Agent(n)
    \/ Finalize

Next == AddStep \/ Client

Spec == Init /\ [][Next]_vars

(* A call, once made, keeps executing; nothing makes a client call again. *)
FairSpec == Spec /\ WF_vars(AddStep)

-----------------------------------------------------------------------------
(* Properties. *)

(* Offsets and lengths are never negative, every record and pending call    *)
(* is a tag over a non-negative range, and no empty record is ever stored.  *)
TypeOK ==
    /\ records \in Seq(Record) /\ \A i \in DOMAIN records : records[i].size > 0
    /\ string \in Nat /\ agent \in Nat /\ len \in Nat
    /\ todo \in Seq(Record)
    /\ panicked \in BOOLEAN /\ fresh \in BOOLEAN

(* The list is in address order and no two records overlap, in the middle   *)
(* of a recursive add as well: every carve and merge preserves both.        *)
Sorted ==
    \A i, j \in DOMAIN records : i < j => End(records[i]) <= records[j].start

(* No FREE record touches another: adds in any order leave maximal ranges.  *)
Coalesced ==
    \A i, j \in DOMAIN records :
        records[i].tag = FREE /\ records[j].tag = FREE
            => End(records[i]) # records[j].start

(* The note above _ensure: records grow up and strings grow down and they   *)
(* never meet, so neither the strings nor the agent name are overwritten.   *)
NeverMeet ==
    /\ RecordsEnd <= string /\ string <= BufSize
    /\ agent # 0 => string <= agent /\ agent < BufSize

(* What the kernel computes from a payload finalized last is true of the    *)
(* map: find fails only when no run of FREE addresses is long enough and    *)
(* returns the lowest one, findTag finds the lowest record of a tag, sum    *)
(* counts its addresses, and usableRange is the hull of the FREE ones.      *)
QueriesTellTheMap ==
    fresh =>
        LET p       == SubSeq(records, 1, len)
            free    == {a \in Address : settled[a] = FREE}
            runs(n) == {a \in Address : a .. a + n - 1 \subseteq free}
        IN  /\ \A n \in 1 .. MaxAddr :
                  LET found == Find(p, n)
                  IN  IF runs(n) = {} THEN found = NoRecord
                      ELSE found.start = Min(runs(n)) /\ found.size >= n
            /\ \A tag \in Tag :
                  LET held == {a \in Address : settled[a] = tag}
                      i    == FindTag(p, tag)
                  IN  /\ SumOf(p, tag) = Cardinality(held)
                      /\ IF held = {} THEN i = 0 ELSE i # 0 /\ p[i].start = Min(held)
            /\ free # {} => UsableRange(p) =
                               [start |-> Min(free), size |-> Max(free) - Min(free) + 1]

(* The builder implements the memory map: between client calls, the map     *)
(* the list stands for has changed by exactly one claim.                    *)
Map == INSTANCE MemoryMap WITH owner <- settled, Rank <- CollisionRank
ImplementsMap == Map!Spec

(* Every add returns or panics: carving and merging never go on for ever.   *)
AddReturns == (todo # <<>>) ~> (todo = <<>> \/ panicked)

(* The comment "dropping coliding record": a call that ends by dropping its *)
(* record leaves the memory map as it found it.                             *)
DropLeavesMapAlone ==
    [][\A i \in DOMAIN records : DropColliding(i) /\ todo' = <<>> => settled' = settled]_vars
=============================================================================
