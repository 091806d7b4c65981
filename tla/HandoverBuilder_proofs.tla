----------------------- MODULE HandoverBuilder_proofs -----------------------
(***************************************************************************)
(* The builder keeps its buffer and its list in order, for every buffer   *)
(* size, every set of tags and every range a client can add.              *)
(***************************************************************************)
EXTENDS HandoverBuilder, FiniteSetTheorems, SequenceTheorems, TLAPS

(* A list add leaves in place and the next add relies on. *)
WellFormed(recs) ==
    /\ recs \in Seq(Record)
    /\ \A i \in DOMAIN recs : recs[i].size > 0
    /\ \A i, j \in DOMAIN recs : i < j => End(recs[i]) <= recs[j].start
    /\ \A i, j \in DOMAIN recs :
          recs[i].tag = FREE /\ recs[j].tag = FREE => End(recs[i]) # recs[j].start

LEMMA RemoveAtFacts ==
    ASSUME NEW S, NEW s \in Seq(S), NEW i \in 1 .. Len(s)
    PROVE  /\ RemoveAt(s, i) \in Seq(S)
           /\ Len(RemoveAt(s, i)) = Len(s) - 1
           /\ \A j \in 1 .. Len(s) - 1 :
                 RemoveAt(s, i)[j] = IF j < i THEN s[j] ELSE s[j + 1]
<1> DEFINE a == SubSeq(s, 1, i - 1)
           b == SubSeq(s, i + 1, Len(s))
<1>0. \A j \in 1 .. Len(s) : s[j] \in S
  BY ElementOfSeq
<1>1. /\ a \in Seq(S) /\ Len(a) = i - 1
      /\ \A j \in 1 .. i - 1 : a[j] = s[j]
  BY <1>0, SubSeqProperties
<1>2. /\ b \in Seq(S) /\ Len(b) = Len(s) - i
      /\ \A j \in 1 .. Len(s) - i : b[j] = s[i + j]
  <2>1. /\ b \in Seq(S)
        /\ Len(b) = IF i + 1 <= Len(s) THEN Len(s) - (i + 1) + 1 ELSE 0
        /\ \A j \in 1 .. Len(s) - (i + 1) + 1 : b[j] = s[i + 1 + j - 1]
    BY <1>0, SubSeqProperties
  <2> QED BY <2>1
<1>3. /\ a \o b \in Seq(S) /\ Len(a \o b) = Len(a) + Len(b)
      /\ \A j \in 1 .. Len(a) + Len(b) :
            (a \o b)[j] = IF j <= Len(a) THEN a[j] ELSE b[j - Len(a)]
  BY <1>1, <1>2, ConcatProperties
<1>4. RemoveAt(s, i) = a \o b
  BY DEF RemoveAt
<1>5. Len(s) \in Nat
  BY LenProperties
<1> HIDE DEF a, b
<1>6. RemoveAt(s, i) \in Seq(S) /\ Len(RemoveAt(s, i)) = Len(s) - 1
  BY <1>1, <1>2, <1>3, <1>4, <1>5
<1>7. ASSUME NEW j \in 1 .. Len(s) - 1
      PROVE  RemoveAt(s, i)[j] = IF j < i THEN s[j] ELSE s[j + 1]
  <2>1. CASE j < i
    BY <1>1, <1>2, <1>3, <1>4, <1>5, <2>1
  <2>2. CASE ~(j < i)
    <3>1. RemoveAt(s, i)[j] = b[j - (i - 1)]
      BY <1>1, <1>2, <1>3, <1>4, <1>5, <2>2
    <3>2. j - (i - 1) \in 1 .. Len(s) - i /\ i + (j - (i - 1)) = j + 1
      BY <1>5, <2>2
    <3> QED BY <1>2, <2>2, <3>1, <3>2
  <2> QED BY <2>1, <2>2
<1> QED BY <1>6, <1>7

LEMMA InsertAtFacts ==
    ASSUME NEW S, NEW s \in Seq(S), NEW i \in 1 .. Len(s), NEW e \in S
    PROVE  /\ InsertAt(s, i, e) \in Seq(S)
           /\ Len(InsertAt(s, i, e)) = Len(s) + 1
           /\ \A j \in 1 .. i - 1 : InsertAt(s, i, e)[j] = s[j]
           /\ InsertAt(s, i, e)[i] = e
           /\ \A j \in i + 1 .. Len(s) + 1 : InsertAt(s, i, e)[j] = s[j - 1]
<1> DEFINE a == SubSeq(s, 1, i - 1)
           b == SubSeq(s, i, Len(s))
           c == a \o <<e>>
<1>0. \A j \in 1 .. Len(s) : s[j] \in S
  BY ElementOfSeq
<1>1. /\ a \in Seq(S) /\ Len(a) = i - 1
      /\ \A j \in 1 .. i - 1 : a[j] = s[j]
  BY <1>0, SubSeqProperties
<1>2. /\ b \in Seq(S) /\ Len(b) = Len(s) - i + 1
      /\ \A j \in 1 .. Len(s) - i + 1 : b[j] = s[i + j - 1]
  BY <1>0, SubSeqProperties
<1>3. /\ c \in Seq(S) /\ Len(c) = i
      /\ \A j \in 1 .. i : c[j] = IF j < i THEN s[j] ELSE e
  <2> HIDE DEF a
  <2>1. c = Append(a, e)
    BY <1>1, AppendIsConcat
  <2>2. /\ Append(a, e) \in Seq(S) /\ Len(Append(a, e)) = Len(a) + 1
        /\ \A j \in 1 .. Len(a) : Append(a, e)[j] = a[j]
        /\ Append(a, e)[Len(a) + 1] = e
    BY <1>1, AppendProperties
  <2> QED BY <1>1, <2>1, <2>2
<1>4. InsertAt(s, i, e) = c \o b
  BY DEF InsertAt
<1> HIDE DEF a, b, c
<1>5. /\ c \o b \in Seq(S) /\ Len(c \o b) = Len(c) + Len(b)
      /\ \A j \in 1 .. Len(c) + Len(b) :
            (c \o b)[j] = IF j <= Len(c) THEN c[j] ELSE b[j - Len(c)]
  BY <1>2, <1>3, ConcatProperties
<1> QED BY <1>2, <1>3, <1>4, <1>5

-----------------------------------------------------------------------------
(* Removing a record leaves the list well-formed: its neighbours had it,    *)
(* and at least one address, between them.                                  *)
LEMMA WellFormedRemove ==
    ASSUME NEW recs, WellFormed(recs), NEW i \in DOMAIN recs
    PROVE  WellFormed(RemoveAt(recs, i))
<1> DEFINE shorter == RemoveAt(recs, i)
           old(j)  == IF j < i THEN j ELSE j + 1
<1>1. recs \in Seq(Record) /\ DOMAIN recs = 1 .. Len(recs) /\ Len(recs) \in Nat
  BY LenProperties DEF WellFormed
<1>2. /\ shorter \in Seq(Record) /\ Len(shorter) = Len(recs) - 1
      /\ \A j \in 1 .. Len(recs) - 1 : shorter[j] = recs[old(j)]
  BY <1>1, RemoveAtFacts
<1>3. DOMAIN shorter = 1 .. Len(recs) - 1
  BY <1>2, LenProperties
<1>4. \A j \in DOMAIN shorter : old(j) \in DOMAIN recs
  BY <1>1, <1>3
<1>5. \A j, k \in DOMAIN shorter : j < k => old(j) < old(k)
  BY <1>1, <1>3
<1> HIDE DEF shorter, old
<1>6. \A j \in DOMAIN shorter : shorter[j] = recs[old(j)]
  BY <1>2, <1>3
<1> QED BY <1>2, <1>4, <1>5, <1>6 DEF WellFormed, shorter

LEMMA RecordInserted ==
    ASSUME NEW recs, recs \in Seq(Record), NEW i, i \in 1 .. Len(recs), NEW r, r \in Record
    PROVE  /\ InsertAt(recs, i, r) \in Seq(Record)
           /\ Len(InsertAt(recs, i, r)) = Len(recs) + 1
           /\ \A j \in 1 .. i - 1 : InsertAt(recs, i, r)[j] = recs[j]
           /\ InsertAt(recs, i, r)[i] = r
           /\ \A j \in i + 1 .. Len(recs) + 1 : InsertAt(recs, i, r)[j] = recs[j - 1]
<1>1. InsertAt(recs, i, r) \in Seq(Record) /\ Len(InsertAt(recs, i, r)) = Len(recs) + 1
  BY InsertAtFacts
<1>2. \A j \in 1 .. i - 1 : InsertAt(recs, i, r)[j] = recs[j]
  BY InsertAtFacts
<1>3. InsertAt(recs, i, r)[i] = r
  BY InsertAtFacts
<1>4. \A j \in i + 1 .. Len(recs) + 1 : InsertAt(recs, i, r)[j] = recs[j - 1]
  BY InsertAtFacts
<1> QED BY <1>1, <1>2, <1>3, <1>4

(* A record put before the first one it stops at, which it neither touches  *)
(* nor overlaps.                                                            *)
LEMMA WellFormedInsert ==
    ASSUME NEW recs, WellFormed(recs), NEW i \in DOMAIN recs, NEW r \in Record, r.size > 0,
           \A j \in 1 .. i - 1 : ~StopsAt(r, recs[j]),
           ~MergesPrevious(r, recs[i]), ~MergesNext(r, recs[i]), ~Collides(r, recs[i]),
           recs[i].start > r.start
    PROVE  WellFormed(InsertAt(recs, i, r))
<1> DEFINE longer == InsertAt(recs, i, r)
           old(j) == IF j < i THEN j ELSE j - 1
<1>1. recs \in Seq(Record) /\ DOMAIN recs = 1 .. Len(recs) /\ Len(recs) \in Nat
  BY LenProperties DEF WellFormed
<1>2. /\ longer \in Seq(Record) /\ Len(longer) = Len(recs) + 1
      /\ \A j \in 1 .. Len(recs) + 1 :
            longer[j] = IF j = i THEN r ELSE recs[old(j)]
  <2>1. /\ longer \in Seq(Record) /\ Len(longer) = Len(recs) + 1
        /\ \A j \in 1 .. i - 1 : longer[j] = recs[j]
        /\ longer[i] = r
        /\ \A j \in i + 1 .. Len(recs) + 1 : longer[j] = recs[j - 1]
    <3>1. recs \in Seq(Record) /\ i \in 1 .. Len(recs) /\ r \in Record
      BY <1>1
    <3> HIDE DEF old, longer
    <3>2. InsertAt(recs, i, r) = longer
      BY DEF longer
    <3>3. longer \in Seq(Record)
      BY ONLY <3>1, <3>2, RecordInserted
    <3>4. Len(longer) = Len(recs) + 1
      BY ONLY <3>1, <3>2, RecordInserted
    <3>5. \A j \in 1 .. i - 1 : longer[j] = recs[j]
      BY ONLY <3>1, <3>2, RecordInserted
    <3>6. longer[i] = r
      BY ONLY <3>1, <3>2, RecordInserted
    <3>7. \A j \in i + 1 .. Len(recs) + 1 : longer[j] = recs[j - 1]
      BY ONLY <3>1, <3>2, RecordInserted
    <3> QED BY ONLY <3>3, <3>4, <3>5, <3>6, <3>7
  <2> HIDE DEF longer
  <2>2. i \in Nat
    BY <1>1
  <2> QED BY <1>1, <2>1, <2>2
<1>3. DOMAIN longer = 1 .. Len(recs) + 1
  BY <1>2, LenProperties
<1>4. \A j \in DOMAIN longer : j # i => old(j) \in DOMAIN recs /\ (j < i <=> old(j) < i)
  BY <1>1, <1>3
<1>5. \A j, k \in DOMAIN longer : j # i /\ k # i /\ j < k => old(j) < old(k)
  BY <1>1, <1>3
<1> HIDE DEF longer
<1>6. /\ \A j \in DOMAIN recs :
            /\ recs[j].start \in Nat /\ End(recs[j]) \in Nat
            /\ recs[j].size > 0 /\ recs[j].start < End(recs[j])
      /\ r.start \in Nat /\ End(r) \in Nat /\ r.start < End(r)
  <2>1. \A j \in DOMAIN recs : recs[j] \in Record /\ recs[j].size > 0
    BY <1>1, ElementOfSeq DEF WellFormed
  <2> QED BY <2>1 DEF Record, End
<1>7. \A j \in DOMAIN recs : j < i =>
         /\ End(recs[j]) <= r.start
         /\ ~(r.tag = FREE /\ recs[j].tag = FREE /\ End(recs[j]) = r.start)
         /\ recs[j].start < End(r)
  <2> SUFFICES ASSUME NEW j \in DOMAIN recs, j < i
               PROVE  /\ End(recs[j]) <= r.start
                      /\ ~(r.tag = FREE /\ recs[j].tag = FREE /\ End(recs[j]) = r.start)
                      /\ recs[j].start < End(r)
    OBVIOUS
  <2>1. ~StopsAt(r, recs[j])
    BY <1>1
  <2>2. ~(recs[j].start > r.start) /\ ~MergesPrevious(r, recs[j]) /\ ~Collides(r, recs[j])
    BY <2>1 DEF StopsAt
  <2> QED BY <1>6, <2>2 DEF MergesPrevious, Collides
<1>8. \A j \in DOMAIN recs : i <= j =>
         /\ End(r) <= recs[j].start
         /\ ~(r.tag = FREE /\ recs[j].tag = FREE /\ End(r) = recs[j].start)
         /\ r.start < End(recs[j])
  <2>1. End(r) <= recs[i].start /\ r.start < End(recs[i])
    BY <1>6 DEF Collides
  <2>2. \A j \in DOMAIN recs : i < j => End(r) < recs[j].start
    BY <1>1, <1>6, <2>1 DEF WellFormed
  <2>3. \A j \in DOMAIN recs : i < j => r.start < End(recs[j])
    BY <1>1, <1>6, <2>2
  <2>4. \A j \in DOMAIN recs : i <= j => i = j \/ i < j
    BY <1>1
  <2>5. ~(r.tag = FREE /\ recs[i].tag = FREE /\ End(r) = recs[i].start)
    BY DEF MergesNext
  <2> SUFFICES ASSUME NEW j \in DOMAIN recs, i <= j
               PROVE  /\ End(r) <= recs[j].start
                      /\ ~(r.tag = FREE /\ recs[j].tag = FREE /\ End(r) = recs[j].start)
                      /\ r.start < End(recs[j])
    OBVIOUS
  <2>6. CASE i = j
    BY <2>1, <2>5, <2>6
  <2>7. CASE i < j
    BY <1>6, <2>2, <2>3, <2>7
  <2> QED BY <2>4, <2>6, <2>7
<1>9. \A j \in DOMAIN longer : longer[j].size > 0
  BY <1>2, <1>3, <1>4, <1>6
<1>10. \A j, k \in DOMAIN longer : j < k => End(longer[j]) <= longer[k].start
  <2> TAKE j, k \in DOMAIN longer
  <2>1. CASE j # i /\ k # i
    BY <2>1, <1>2, <1>3, <1>4, <1>5 DEF WellFormed
  <2>2. CASE j # i /\ k = i
    BY <2>2, <1>2, <1>3, <1>4, <1>7
  <2>3. CASE j = i /\ k # i
    BY <2>3, <1>2, <1>3, <1>4, <1>8
  <2> QED BY <2>1, <2>2, <2>3, <1>3
<1>11. \A j, k \in DOMAIN longer :
          longer[j].tag = FREE /\ longer[k].tag = FREE => End(longer[j]) # longer[k].start
  <2> TAKE j, k \in DOMAIN longer
  <2>1. CASE j # i /\ k # i
    BY <2>1, <1>2, <1>3, <1>4 DEF WellFormed
  <2>2. CASE j # i /\ k = i
    BY <2>2, <1>2, <1>3, <1>4, <1>6, <1>7, <1>8
  <2>3. CASE j = i /\ k # i
    BY <2>3, <1>2, <1>3, <1>4, <1>6, <1>7, <1>8
  <2>4. CASE j = i /\ k = i
    BY <2>4, <1>2, <1>3, <1>6
  <2> QED BY <2>1, <2>2, <2>3, <2>4
<1> QED BY <1>2, <1>9, <1>10, <1>11 DEF WellFormed, longer

LEMMA WellFormedAppend ==
    ASSUME NEW recs, WellFormed(recs), NEW r \in Record, r.size > 0,
           \A j \in DOMAIN recs : ~StopsAt(r, recs[j])
    PROVE  WellFormed(Append(recs, r))
<1> DEFINE longer == Append(recs, r)
<1>1. recs \in Seq(Record) /\ DOMAIN recs = 1 .. Len(recs) /\ Len(recs) \in Nat
  BY LenProperties DEF WellFormed
<1>2. /\ longer \in Seq(Record) /\ Len(longer) = Len(recs) + 1
      /\ \A j \in 1 .. Len(recs) : longer[j] = recs[j]
      /\ longer[Len(recs) + 1] = r
  BY <1>1, AppendProperties
<1>3. DOMAIN longer = 1 .. Len(recs) + 1
  BY <1>2, LenProperties
<1>4. /\ \A j \in DOMAIN recs :
            /\ recs[j].start \in Nat /\ End(recs[j]) \in Nat
            /\ recs[j].size > 0 /\ recs[j].start < End(recs[j])
      /\ r.start \in Nat /\ End(r) \in Nat /\ r.start < End(r)
  <2>1. \A j \in DOMAIN recs : recs[j] \in Record /\ recs[j].size > 0
    BY <1>1, ElementOfSeq DEF WellFormed
  <2> QED BY <2>1 DEF Record, End
<1>5. \A j \in DOMAIN recs :
         /\ End(recs[j]) <= r.start
         /\ ~(r.tag = FREE /\ recs[j].tag = FREE /\ End(recs[j]) = r.start)
         /\ recs[j].start < End(r)
  <2> TAKE j \in DOMAIN recs
  <2>1. ~(recs[j].start > r.start) /\ ~MergesPrevious(r, recs[j]) /\ ~Collides(r, recs[j])
    BY DEF StopsAt
  <2> QED BY <1>4, <2>1 DEF MergesPrevious, Collides
<1> HIDE DEF longer
<1>6. \A j \in DOMAIN longer : j # Len(recs) + 1 => j \in DOMAIN recs /\ longer[j] = recs[j]
  BY <1>1, <1>2, <1>3
<1>7. \A j \in DOMAIN longer : longer[j].size > 0
  BY <1>2, <1>4, <1>6
<1>8. \A j, k \in DOMAIN longer : j < k => End(longer[j]) <= longer[k].start
  <2> SUFFICES ASSUME NEW j \in DOMAIN longer, NEW k \in DOMAIN longer, j < k
               PROVE  End(longer[j]) <= longer[k].start
    OBVIOUS
  <2>1. j # Len(recs) + 1
    BY <1>1, <1>3
  <2>2. CASE k # Len(recs) + 1
    BY <1>6, <2>1, <2>2 DEF WellFormed
  <2>3. CASE k = Len(recs) + 1
    BY <1>2, <1>5, <1>6, <2>1, <2>3
  <2> QED BY <2>2, <2>3
<1>9. \A j, k \in DOMAIN longer :
         longer[j].tag = FREE /\ longer[k].tag = FREE => End(longer[j]) # longer[k].start
  <2> TAKE j, k \in DOMAIN longer
  <2>1. CASE j # Len(recs) + 1 /\ k # Len(recs) + 1
    BY <1>6, <2>1 DEF WellFormed
  <2>2. CASE j # Len(recs) + 1 /\ k = Len(recs) + 1
    BY <1>2, <1>5, <1>6, <2>2
  <2>3. CASE j = Len(recs) + 1 /\ k # Len(recs) + 1
    BY <1>2, <1>4, <1>5, <1>6, <2>3
  <2>4. CASE j = Len(recs) + 1 /\ k = Len(recs) + 1
    BY <1>2, <1>4, <2>4
  <2> QED BY <2>1, <2>2, <2>3, <2>4
<1> QED BY <1>2, <1>7, <1>8, <1>9 DEF WellFormed, longer

-----------------------------------------------------------------------------
(* What makes the properties inductive: the list is well-formed, calls in   *)
(* flight are records, and the buffer is divided between records and        *)
(* strings.                                                                 *)
IInv == TypeOK /\ WellFormed(records) /\ NeverMeet

LEMMA PartsAreRecords ==
    ASSUME NEW r \in Record, NEW other \in Record
    PROVE  Below(r, other) \in Record /\ Above(r, other) \in Record
<1>1. /\ r.tag \in Tag /\ r.start \in Nat /\ r.size \in Nat
      /\ other.start \in Nat /\ other.size \in Nat
  BY DEF Record
<1>2. Below(r, other) = [tag |-> r.tag, start |-> r.start, size |-> Below(r, other).size]
  BY DEF Below, Record
<1>3. Above(r, other) = [tag |-> r.tag, start |-> End(other), size |-> Above(r, other).size]
  BY DEF Above
<1>4. Below(r, other).size \in Nat
  BY <1>1 DEF Below, Record
<1>5. End(other) \in Nat /\ Above(r, other).size \in Nat
  BY <1>1 DEF Above, End, Record
<1> QED BY <1>1, <1>2, <1>3, <1>4, <1>5 DEF Record

LEMMA ProceedTypes ==
    ASSUME todo \in Seq(Record), todo # <<>>, NEW recs, NEW next \in Seq(Record),
           Proceed(recs, next)
    PROVE  records' = recs /\ todo' \in Seq(Record)
BY HeadTailProperties, ConcatProperties DEF Proceed

LEMMA IInvInit == Init => IInv
<1> SUFFICES ASSUME Init PROVE IInv
  OBVIOUS
<1>1. TypeOK
  <2>1. records = <<>> /\ todo = <<>>
    BY DEF Init
  <2>2. <<>> \in Seq(Record) /\ \A i \in DOMAIN <<>> : <<>>[i].size > 0
    BY EmptySeq
  <2>3. records \in Seq(Record) /\ todo \in Seq(Record) /\ \A i \in DOMAIN records : records[i].size > 0
    BY <2>1, <2>2
  <2> QED BY <2>3, BuilderAssumption DEF Init, TypeOK
<1>2. WellFormed(records)
  BY DEF Init, WellFormed
<1>3. NeverMeet
  BY BuilderAssumption DEF Init, NeverMeet, RecordsEnd, PayloadSize, RecordSize
<1> QED BY <1>1, <1>2, <1>3 DEF IInv

(* The common part of the steps of an add that do not panic. *)
LEMMA ProceedKeeps ==
    ASSUME IInv, Working, NEW recs, NEW next \in Seq(Record), Proceed(recs, next),
           WellFormed(recs),
           Len(recs) <= Len(records) \/ (HasRoom(RecordSize, 0) /\ Len(recs) = Len(records) + 1)
    PROVE  IInv'
<1>1. records' = recs /\ todo' \in Seq(Record)
  BY ProceedTypes DEF IInv, TypeOK, Working
<1>2. UNCHANGED <<string, agent, len, panicked, fresh>>
  BY DEF Proceed
<1>3. WellFormed(records)'
  BY <1>1 DEF WellFormed
<1>4. TypeOK'
  BY <1>1, <1>2 DEF IInv, TypeOK, WellFormed
<1>5. Len(recs) \in Nat /\ Len(records) \in Nat
  BY LenProperties DEF WellFormed, IInv, TypeOK
<1>6. NeverMeet'
  BY <1>1, <1>2, <1>5 DEF IInv, TypeOK, NeverMeet, RecordsEnd, HasRoom, PayloadSize, RecordSize
<1> QED BY <1>3, <1>4, <1>6 DEF IInv

LEMMA PanicKeeps == ASSUME IInv, Panic PROVE IInv'
BY DEF IInv, Panic, TypeOK, WellFormed, NeverMeet, RecordsEnd

-----------------------------------------------------------------------------
(* Every step of an add keeps the invariant. *)
LEMMA AddStepKeeps == ASSUME IInv, AddStep PROVE IInv'
<1> DEFINE r == Head(todo)
<1>1. /\ records \in Seq(Record) /\ todo \in Seq(Record) /\ todo # <<>> /\ Working
      /\ WellFormed(records)
  BY DEF IInv, TypeOK, AddStep, SkipEmpty, PushBack, Stopped, MergePrevious, MergeNext,
         CarveRecord, CarveOther, DropColliding, InsertBefore, Working
<1>2. r \in Record
  BY <1>1, HeadTailProperties
<1>3. DOMAIN records = 1 .. Len(records) /\ Len(records) \in Nat
  BY <1>1, LenProperties
<1>4. \A i \in DOMAIN records : records[i] \in Record
  BY <1>1, <1>3, ElementOfSeq
<1>5. \A i \in DOMAIN records :
         WellFormed(RemoveAt(records, i)) /\ Len(RemoveAt(records, i)) <= Len(records)
  BY <1>1, <1>3, WellFormedRemove, RemoveAtFacts
<1>6. <<>> \in Seq(Record)
  BY EmptySeq
<1>7. CASE SkipEmpty
  <2>1. Proceed(records, <<>>) /\ Len(records) <= Len(records)
    BY <1>3, <1>7 DEF SkipEmpty
  <2> QED BY <1>1, <1>6, <2>1, ProceedKeeps
<1>8. CASE PushBack
  <2>1. CASE HasRoom(RecordSize, 0)
    <3>1. WellFormed(Append(records, r))
      BY <1>1, <1>2, <1>8, WellFormedAppend DEF PushBack, NoStop
    <3>2. Len(Append(records, r)) = Len(records) + 1
      BY <1>1, <1>2, AppendProperties
    <3> QED BY <1>1, <1>6, <1>8, <2>1, <3>1, <3>2, ProceedKeeps DEF PushBack
  <2>2. CASE ~HasRoom(RecordSize, 0)
    BY <1>8, <2>2, PanicKeeps DEF PushBack
  <2> QED BY <2>1, <2>2
<1>9. ASSUME NEW i \in DOMAIN records, MergePrevious(i) PROVE IInv'
  <2>1. <<[records[i] EXCEPT !.size = @ + r.size]>> \in Seq(Record)
    BY <1>2, <1>4 DEF Record
  <2> QED BY <1>1, <1>5, <1>9, <2>1, ProceedKeeps DEF MergePrevious
<1>10. ASSUME NEW i \in DOMAIN records, MergeNext(i) PROVE IInv'
  <2>1. <<[r EXCEPT !.size = @ + records[i].size]>> \in Seq(Record)
    BY <1>2, <1>4 DEF Record
  <2> QED BY <1>1, <1>5, <1>10, <2>1, ProceedKeeps DEF MergeNext
<1>11. ASSUME NEW i \in DOMAIN records, CarveRecord(i) PROVE IInv'
  <2>1. <<records[i], Below(r, records[i]), Above(r, records[i])>> \in Seq(Record)
    BY <1>2, <1>4, PartsAreRecords
  <2> QED BY <1>1, <1>5, <1>11, <2>1, ProceedKeeps DEF CarveRecord
<1>12. ASSUME NEW i \in DOMAIN records, CarveOther(i) PROVE IInv'
  <2>1. <<r, Below(records[i], r), Above(records[i], r)>> \in Seq(Record)
    BY <1>2, <1>4, PartsAreRecords
  <2> QED BY <1>1, <1>5, <1>12, <2>1, ProceedKeeps DEF CarveOther
<1>13. ASSUME NEW i \in DOMAIN records, DropColliding(i) PROVE IInv'
  <2>1. Proceed(records, <<>>) /\ Len(records) <= Len(records)
    BY <1>3, <1>13 DEF DropColliding
  <2> QED BY <1>1, <1>6, <2>1, ProceedKeeps
<1>14. ASSUME NEW i \in DOMAIN records, InsertBefore(i) PROVE IInv'
  <2>1. CASE HasRoom(RecordSize, 0)
    <3>1. /\ r.size > 0 /\ \A j \in 1 .. i - 1 : ~StopsAt(r, records[j])
          /\ ~MergesPrevious(r, records[i]) /\ ~MergesNext(r, records[i])
          /\ ~Collides(r, records[i]) /\ StopsAt(r, records[i])
      BY <1>14 DEF InsertBefore, Stopped, FirstStop
    <3>2. records[i].start > r.start
      BY <3>1 DEF StopsAt
    <3>3. WellFormed(InsertAt(records, i, r))
      BY <1>1, <1>2, <3>1, <3>2, WellFormedInsert
    <3>4. Len(InsertAt(records, i, r)) = Len(records) + 1
      BY <1>1, <1>2, <1>3, RecordInserted
    <3>5. Proceed(InsertAt(records, i, r), <<>>)
      BY <1>14, <2>1 DEF InsertBefore
    <3> QED BY <1>1, <1>6, <2>1, <3>3, <3>4, <3>5, ProceedKeeps
  <2>2. CASE ~HasRoom(RecordSize, 0)
    BY <1>14, <2>2, PanicKeeps DEF InsertBefore
  <2> QED BY <2>1, <2>2
<1> QED BY <1>7, <1>8, <1>9, <1>10, <1>11, <1>12, <1>13, <1>14 DEF AddStep

LEMMA ClientKeeps == ASSUME IInv, Client PROVE IInv'
<1> USE DEF IInv
<1>1. ASSUME NEW tag \in Tag, NEW start \in Address, NEW size \in 0 .. MaxAddr,
             Add(tag, start, size)
      PROVE  IInv'
  <2>1. [tag |-> tag, start |-> start, size |-> size] \in Record
    BY BuilderAssumption DEF Record, Address
  <2>2. todo' \in Seq(Record)
    BY <1>1, <2>1 DEF Add
  <2> QED BY <1>1, <2>2 DEF Add, TypeOK, WellFormed, NeverMeet, RecordsEnd
<1>2. ASSUME NEW n \in StrLens, AddString(n) \/ Agent(n)
      PROVE  IInv'
  <2>1. CASE Panic
    BY <2>1, PanicKeeps
  <2>2. CASE /\ HasRoom(0, n + 1) /\ PushString(n)
             /\ agent' = agent \/ agent' = string'
    <3>1. n \in Nat /\ Len(records) \in Nat
      BY BuilderAssumption, LenProperties DEF TypeOK
    <3>2. string' \in Nat /\ RecordsEnd <= string' /\ string' < string
      BY <2>2, <3>1 DEF TypeOK, HasRoom, PushString, RecordsEnd, PayloadSize, RecordSize
    <3>3. UNCHANGED <<records, len, todo, panicked, fresh, RecordsEnd>>
      BY <2>2 DEF PushString, RecordsEnd
    <3>4. RecordsEnd \in Nat
      BY <3>1 DEF RecordsEnd, PayloadSize, RecordSize
    <3>5. WellFormed(records)'
      BY <3>3 DEF WellFormed
    <3>6. TypeOK'
      BY <2>2, <3>2, <3>3 DEF TypeOK
    <3>7. NeverMeet'
      BY <2>2, <3>2, <3>3, <3>4, BuilderAssumption DEF NeverMeet, TypeOK
    <3> QED BY <3>5, <3>6, <3>7
  <2> QED BY <1>2, <2>1, <2>2 DEF AddString, Agent
<1>3. ASSUME Finalize PROVE IInv'
  <2>1. len' \in Nat
    BY <1>3, LenProperties DEF Finalize, TypeOK
  <2> QED BY <1>3, <2>1 DEF Finalize, TypeOK, WellFormed, NeverMeet, RecordsEnd
<1> QED BY <1>1, <1>2, <1>3 DEF Client

LEMMA StutterKeeps == ASSUME IInv, UNCHANGED vars PROVE IInv'
BY DEF IInv, vars, TypeOK, WellFormed, NeverMeet, RecordsEnd

LEMMA IInvAlways == Spec => []IInv
<1>1. IInv /\ [Next]_vars => IInv'
  BY AddStepKeeps, ClientKeeps, StutterKeeps DEF Next
<1> QED BY <1>1, IInvInit, PTL DEF Spec

(* Offsets, lengths, records and calls in flight are always well typed.     *)
THEOREM TypeCorrect == Spec => []TypeOK
<1>1. IInv => TypeOK
  BY DEF IInv
<1> QED BY <1>1, IInvAlways, PTL

(* The list is in address order and without overlap after every step of     *)
(* every add, nested ones included.                                         *)
THEOREM AlwaysSorted == Spec => []Sorted
<1>1. IInv => Sorted
  BY DEF IInv, WellFormed, Sorted
<1> QED BY <1>1, IInvAlways, PTL

(* No two FREE records ever touch, whatever the order of the adds.          *)
THEOREM AlwaysCoalesced == Spec => []Coalesced
<1>1. IInv => Coalesced
  BY DEF IInv, WellFormed, Coalesced
<1> QED BY <1>1, IInvAlways, PTL

(* The records and the strings of the payload never overwrite each other,   *)
(* for every buffer size.                                                   *)
THEOREM RecordsAndStringsNeverMeet == Spec => []NeverMeet
<1>1. IInv => NeverMeet
  BY DEF IInv
<1> QED BY <1>1, IInvAlways, PTL
-----------------------------------------------------------------------------
(* The list and the calls in flight, seen as sets of records.               *)

LEMMA Ranks ==
    \A tag \in Tag : /\ CollisionRank(tag) \in 0 .. 2
                     /\ CollisionRank(tag) = 0 <=> tag = FREE
                     /\ CollisionRank(tag) = 1 <=> tag = LOADER
BY TagAssumption DEF CollisionRank

LEMMA Elements ==
    ASSUME NEW s \in Seq(Record)
    PROVE  /\ ToSet(s) \subseteq Record
           /\ \A k \in 1 .. Len(s) : s[k] \in ToSet(s)
           /\ \A x \in ToSet(s) : \E k \in 1 .. Len(s) : x = s[k]
<1>1. DOMAIN s = 1 .. Len(s) /\ \A k \in 1 .. Len(s) : s[k] \in Record
  BY LenProperties, ElementOfSeq
<1> QED BY <1>1 DEF ToSet

LEMMA Bounds ==
    ASSUME NEW x \in Record
    PROVE  /\ x.tag \in Tag /\ x.start \in Nat /\ x.size \in Nat /\ End(x) = x.start + x.size
           /\ \A a : a \in Extent(x) <=> a \in Nat /\ x.start <= a /\ a < End(x)
BY DEF Record, Extent, End

(* Two records collide exactly when an address is in both.                  *)
LEMMA CollidesMeet ==
    ASSUME NEW x \in Record, NEW y \in Record, x.size > 0, y.size > 0
    PROVE  Collides(x, y) <=> Extent(x) \cap Extent(y) # {}
<1>1. ASSUME Collides(x, y) PROVE Extent(x) \cap Extent(y) # {}
  <2>1. CASE x.start <= y.start
    <3>1. y.start \in Extent(x) /\ y.start \in Extent(y)
      BY <1>1, <2>1, Bounds DEF Collides
    <3> QED BY <3>1
  <2>2. CASE y.start <= x.start
    <3>1. x.start \in Extent(x) /\ x.start \in Extent(y)
      BY <1>1, <2>2, Bounds DEF Collides
    <3> QED BY <3>1
  <2> QED BY <2>1, <2>2, Bounds
<1>2. ASSUME NEW a, a \in Extent(x), a \in Extent(y) PROVE Collides(x, y)
  BY <1>2, Bounds DEF Collides
<1> QED BY <1>1, <1>2

LEMMA ListFacts ==
    ASSUME NEW recs, WellFormed(recs)
    PROVE  /\ ToSet(recs) \subseteq Record
           /\ \A x \in ToSet(recs) : x.size > 0
           /\ \A j, k \in DOMAIN recs : j # k => ~Collides(recs[j], recs[k])
           /\ \A x, y \in ToSet(recs) : x # y => ~Collides(x, y)
<1>1. recs \in Seq(Record) /\ DOMAIN recs = 1 .. Len(recs) /\ Len(recs) \in Nat
  BY LenProperties DEF WellFormed
<1>2. ToSet(recs) \subseteq Record /\ \A x \in ToSet(recs) : \E k \in 1 .. Len(recs) : x = recs[k]
  BY <1>1, Elements
<1>3. \A k \in DOMAIN recs : recs[k] \in Record /\ recs[k].size > 0
  BY <1>1, ElementOfSeq DEF WellFormed
<1>4. ASSUME NEW j \in DOMAIN recs, NEW k \in DOMAIN recs, j < k
      PROVE  ~Collides(recs[j], recs[k]) /\ ~Collides(recs[k], recs[j])
  <2>1. End(recs[j]) <= recs[k].start
    BY <1>4 DEF WellFormed
  <2>2. End(recs[j]) \in Nat /\ recs[k].start \in Nat
    BY <1>3, Bounds
  <2> QED BY <2>1, <2>2 DEF Collides
<1>5. \A j, k \in DOMAIN recs : j # k => ~Collides(recs[j], recs[k])
  <2>1. \A j, k \in DOMAIN recs : j # k => j < k \/ k < j
    BY <1>1
  <2> QED BY <1>4, <2>1
<1>6. \A x, y \in ToSet(recs) : x # y => ~Collides(x, y)
  BY <1>1, <1>2, <1>5
<1> QED BY <1>1, <1>2, <1>3, <1>5, <1>6

LEMMA RemovedSet ==
    ASSUME NEW recs, WellFormed(recs), NEW i \in DOMAIN recs
    PROVE  ToSet(RemoveAt(recs, i)) = ToSet(recs) \ {recs[i]}
<1> DEFINE shorter == RemoveAt(recs, i)
<1>1. recs \in Seq(Record) /\ DOMAIN recs = 1 .. Len(recs) /\ Len(recs) \in Nat
  BY LenProperties DEF WellFormed
<1>2. /\ shorter \in Seq(Record) /\ Len(shorter) = Len(recs) - 1
      /\ \A j \in 1 .. Len(recs) - 1 : shorter[j] = IF j < i THEN recs[j] ELSE recs[j + 1]
  BY <1>1, RemoveAtFacts
<1>3. DOMAIN shorter = 1 .. Len(recs) - 1
  BY <1>2, LenProperties
<1> HIDE DEF shorter
<1>4. \A j \in DOMAIN recs : j # i => recs[j] # recs[i]
  <2>1. \A j \in DOMAIN recs : recs[j] \in Record /\ recs[j].size > 0
    BY <1>1, ElementOfSeq DEF WellFormed
  <2>2. \A j \in DOMAIN recs : recs[j] = recs[i] => Collides(recs[j], recs[i])
    BY <2>1, Bounds DEF Collides
  <2> QED BY <2>2, ListFacts
<1>5. ASSUME NEW x \in ToSet(shorter) PROVE x \in ToSet(recs) \ {recs[i]}
  <2>1. PICK j \in 1 .. Len(recs) - 1 : x = shorter[j]
    BY <1>3 DEF ToSet
  <2>2. CASE j < i
    BY <1>1, <1>2, <1>4, <2>1, <2>2 DEF ToSet
  <2>3. CASE ~(j < i)
    <3>1. j + 1 \in DOMAIN recs /\ j + 1 # i
      BY <1>1, <2>3
    <3> QED BY <1>2, <1>4, <2>1, <2>3, <3>1 DEF ToSet
  <2> QED BY <2>2, <2>3
<1>6. ASSUME NEW x \in ToSet(recs), x # recs[i] PROVE x \in ToSet(shorter)
  <2>1. PICK j \in DOMAIN recs : x = recs[j]
    BY DEF ToSet
  <2>2. CASE j < i
    <3>1. j \in DOMAIN shorter /\ shorter[j] = x
      BY <1>1, <1>2, <1>3, <2>1, <2>2
    <3> QED BY <3>1 DEF ToSet
  <2>3. CASE j > i
    <3>1. j - 1 \in DOMAIN shorter /\ (j - 1) + 1 = j /\ ~(j - 1 < i)
      BY <1>1, <1>3, <2>3
    <3>2. shorter[j - 1] = x
      BY <1>2, <1>3, <2>1, <3>1
    <3> QED BY <3>1, <3>2 DEF ToSet
  <2> QED BY <1>1, <1>6, <2>1, <2>2, <2>3
<1> QED BY <1>5, <1>6 DEF shorter

LEMMA InsertedSet ==
    ASSUME NEW recs, recs \in Seq(Record), NEW i, i \in 1 .. Len(recs), NEW r, r \in Record
    PROVE  ToSet(InsertAt(recs, i, r)) = ToSet(recs) \cup {r}
<1> DEFINE longer == InsertAt(recs, i, r)
<1>1. DOMAIN recs = 1 .. Len(recs) /\ Len(recs) \in Nat
  BY LenProperties
<1>2. longer \in Seq(Record) /\ Len(longer) = Len(recs) + 1
  BY RecordInserted
<1>3. \A j \in 1 .. i - 1 : longer[j] = recs[j]
  BY RecordInserted
<1>4. longer[i] = r
  BY RecordInserted
<1>5. \A j \in i + 1 .. Len(recs) + 1 : longer[j] = recs[j - 1]
  BY RecordInserted
<1>6. DOMAIN longer = 1 .. Len(recs) + 1
  BY <1>2, LenProperties
<1> HIDE DEF longer
<1>7. ASSUME NEW j \in DOMAIN longer PROVE longer[j] \in ToSet(recs) \cup {r}
  <2>1. CASE j < i
    <3>1. j \in DOMAIN recs /\ longer[j] = recs[j]
      BY <1>1, <1>3, <1>6, <2>1
    <3> QED BY <3>1 DEF ToSet
  <2>2. CASE j > i
    <3>1. j - 1 \in DOMAIN recs /\ longer[j] = recs[j - 1]
      BY <1>1, <1>5, <1>6, <2>2
    <3> QED BY <3>1 DEF ToSet
  <2> QED BY <1>4, <1>6, <2>1, <2>2
<1>8. ASSUME NEW j \in DOMAIN recs PROVE recs[j] \in ToSet(longer)
  <2>1. CASE j < i
    <3>1. j \in DOMAIN longer /\ longer[j] = recs[j]
      BY <1>1, <1>3, <1>6, <2>1
    <3> QED BY <3>1 DEF ToSet
  <2>2. CASE j >= i
    <3>1. j + 1 \in DOMAIN longer /\ j + 1 \in i + 1 .. Len(recs) + 1 /\ (j + 1) - 1 = j
      BY <1>1, <1>6, <2>2
    <3>2. longer[j + 1] = recs[j]
      BY <1>5, <3>1
    <3> QED BY <3>1, <3>2 DEF ToSet
  <2> QED BY <1>1, <2>1, <2>2
<1>9. r \in ToSet(longer)
  BY <1>1, <1>4, <1>6 DEF ToSet
<1> QED BY <1>7, <1>8, <1>9 DEF ToSet, longer

LEMMA AppendedSet ==
    ASSUME NEW recs, recs \in Seq(Record), NEW r, r \in Record
    PROVE  ToSet(Append(recs, r)) = ToSet(recs) \cup {r}
<1> DEFINE longer == Append(recs, r)
<1>1. /\ longer \in Seq(Record) /\ Len(longer) = Len(recs) + 1
      /\ \A j \in 1 .. Len(recs) : longer[j] = recs[j]
      /\ longer[Len(recs) + 1] = r
  BY AppendProperties
<1>2. DOMAIN longer = 1 .. Len(recs) + 1 /\ DOMAIN recs = 1 .. Len(recs) /\ Len(recs) \in Nat
  BY <1>1, LenProperties
<1> HIDE DEF longer
<1>3. \A j \in DOMAIN longer : j \in DOMAIN recs \/ j = Len(recs) + 1
  BY <1>2
<1>4. \A j \in DOMAIN recs : j \in DOMAIN longer
  BY <1>2
<1>5. Len(recs) + 1 \in DOMAIN longer
  BY <1>2
<1> QED BY <1>1, <1>2, <1>3, <1>4, <1>5 DEF ToSet, longer

(* The calls left when the first one has made the calls next.               *)
LEMMA CallsLeft ==
    ASSUME NEW td, td \in Seq(Record), td # <<>>, NEW next, next \in Seq(Record)
    PROVE  /\ next \o Tail(td) \in Seq(Record)
           /\ Len(next \o Tail(td)) = Len(next) + Len(td) - 1
           /\ \A k \in 1 .. Len(next) + Len(td) - 1 :
                 (next \o Tail(td))[k] = IF k <= Len(next) THEN next[k] ELSE td[k - Len(next) + 1]
<1>1. /\ Tail(td) \in Seq(Record) /\ Len(Tail(td)) = Len(td) - 1
      /\ \A k \in 1 .. Len(td) - 1 : Tail(td)[k] = td[k + 1]
  BY HeadTailProperties
<1>2. Len(td) \in Nat /\ Len(td) > 0 /\ Len(next) \in Nat
  BY LenProperties, EmptySeq
<1>3. PICK rest : rest = Tail(td)
  OBVIOUS
<1>4. /\ next \o rest \in Seq(Record) /\ Len(next \o rest) = Len(next) + Len(rest)
      /\ \A k \in 1 .. Len(next) + Len(rest) :
            (next \o rest)[k] = IF k <= Len(next) THEN next[k] ELSE rest[k - Len(next)]
  BY <1>1, <1>3, ConcatProperties
<1>5. ASSUME NEW k \in 1 .. Len(next) + Len(td) - 1
      PROVE  (next \o rest)[k] = IF k <= Len(next) THEN next[k] ELSE td[k - Len(next) + 1]
  <2>1. CASE k <= Len(next)
    BY <1>1, <1>2, <1>3, <1>4, <2>1
  <2>2. CASE ~(k <= Len(next))
    <3>1. k - Len(next) \in 1 .. Len(td) - 1 /\ k \in 1 .. Len(next) + Len(rest)
      BY <1>1, <1>2, <1>3, <2>2
    <3>2. (next \o rest)[k] = rest[k - Len(next)]
      BY <1>4, <2>2, <3>1
    <3> QED BY <1>1, <1>3, <2>2, <3>1, <3>2
  <2> QED BY <2>1, <2>2
<1> QED BY <1>1, <1>2, <1>3, <1>4, <1>5

LEMMA CallsLeftSet ==
    ASSUME NEW td, td \in Seq(Record), td # <<>>, NEW next, next \in Seq(Record)
    PROVE  /\ ToSet(td) = {Head(td)} \cup ToSet(Tail(td))
           /\ ToSet(next \o Tail(td)) = ToSet(next) \cup ToSet(Tail(td))
           /\ \A y \in ToSet(Tail(td)) : \E k \in 2 .. Len(td) : y = td[k]
<1>1. /\ Tail(td) \in Seq(Record) /\ Len(Tail(td)) = Len(td) - 1
      /\ \A k \in 1 .. Len(td) - 1 : Tail(td)[k] = td[k + 1]
      /\ Head(td) = td[1]
  BY HeadTailProperties
<1>2. Len(td) \in Nat /\ Len(td) > 0 /\ Len(next) \in Nat /\ DOMAIN td = 1 .. Len(td) /\ DOMAIN next = 1 .. Len(next)
  BY LenProperties, EmptySeq
<1>3. DOMAIN Tail(td) = 1 .. Len(td) - 1
  BY <1>1, LenProperties
<1>4. \A y \in ToSet(Tail(td)) : \E k \in 2 .. Len(td) : y = td[k]
  BY <1>1, <1>2, <1>3 DEF ToSet
<1>5. ASSUME NEW k \in 2 .. Len(td) PROVE td[k] \in ToSet(Tail(td))
  <2>1. k - 1 \in 1 .. Len(td) - 1 /\ (k - 1) + 1 = k
    BY <1>2
  <2>2. Tail(td)[k - 1] = td[k]
    BY <1>1, <2>1
  <2> QED BY <1>3, <2>1, <2>2 DEF ToSet
<1>6. ToSet(td) = {Head(td)} \cup ToSet(Tail(td))
  <2>1. \A k \in 1 .. Len(td) : k = 1 \/ k \in 2 .. Len(td)
    BY <1>2
  <2>2. 1 \in 1 .. Len(td) /\ \A k \in 2 .. Len(td) : k \in 1 .. Len(td)
    BY <1>2
  <2>3. \A x \in ToSet(td) : x \in {Head(td)} \cup ToSet(Tail(td))
    BY <1>1, <1>2, <1>5, <2>1 DEF ToSet
  <2>4. \A k \in 1 .. Len(td) : td[k] \in ToSet(td)
    BY <1>2 DEF ToSet
  <2> QED BY <1>1, <1>4, <2>2, <2>3, <2>4
<1>7. PICK all : all = next \o Tail(td)
  OBVIOUS
<1>8. /\ all \in Seq(Record) /\ Len(all) = Len(next) + Len(td) - 1
      /\ \A k \in 1 .. Len(next) + Len(td) - 1 :
            all[k] = IF k <= Len(next) THEN next[k] ELSE td[k - Len(next) + 1]
  BY <1>7, CallsLeft
<1>9. DOMAIN all = 1 .. Len(next) + Len(td) - 1
  BY <1>8, LenProperties
<1>10. ASSUME NEW k \in DOMAIN all PROVE all[k] \in ToSet(next) \cup ToSet(Tail(td))
  <2>1. CASE k <= Len(next)
    BY <1>2, <1>8, <1>9, <2>1 DEF ToSet
  <2>2. CASE ~(k <= Len(next))
    <3>1. k - Len(next) + 1 \in 2 .. Len(td)
      BY <1>2, <1>9, <2>2
    <3>2. all[k] = td[k - Len(next) + 1]
      BY <1>8, <1>9, <2>2
    <3> QED BY <1>5, <3>1, <3>2
  <2> QED BY <2>1, <2>2
<1>11. ASSUME NEW k \in DOMAIN next PROVE next[k] \in ToSet(all)
  <2>1. k \in DOMAIN all /\ all[k] = next[k]
    BY <1>2, <1>8, <1>9
  <2> QED BY <2>1 DEF ToSet
<1>12. ASSUME NEW k \in 2 .. Len(td) PROVE td[k] \in ToSet(all)
  <2>1. PICK n : n = Len(next) + k - 1
    OBVIOUS
  <2>2. n \in DOMAIN all /\ ~(n <= Len(next)) /\ n - Len(next) + 1 = k
    BY <1>2, <1>9, <2>1
  <2>3. all[n] = td[k]
    BY <1>8, <1>9, <2>2
  <2> QED BY <2>2, <2>3 DEF ToSet
<1>13. ToSet(all) = ToSet(next) \cup ToSet(Tail(td))
  <2>1. ToSet(all) \subseteq ToSet(next) \cup ToSet(Tail(td))
    BY <1>10 DEF ToSet
  <2>2. ToSet(next) \subseteq ToSet(all)
    BY <1>11 DEF ToSet
  <2>3. ToSet(Tail(td)) \subseteq ToSet(all)
    BY <1>4, <1>12
  <2> QED BY <2>1, <2>2, <2>3
<1> QED BY <1>4, <1>6, <1>7, <1>13

(* What is left of a record around another, as sets of addresses.           *)
LEMMA PartExtents ==
    ASSUME NEW x \in Record, NEW y \in Record, Collides(x, y)
    PROVE  /\ \A a : a \in Extent(Below(x, y)) <=> a \in Extent(x) /\ a < y.start
           /\ \A a : a \in Extent(Above(x, y)) <=> a \in Extent(x) /\ End(y) <= a
           /\ Below(x, y).tag = x.tag /\ Above(x, y).tag = x.tag
<1>1. /\ x.tag \in Tag /\ x.start \in Nat /\ x.size \in Nat /\ End(x) = x.start + x.size
      /\ y.start \in Nat /\ y.size \in Nat /\ End(y) = y.start + y.size
      /\ x.start < End(y) /\ y.start < End(x)
  BY Bounds DEF Collides
<1>2. Below(x, y) \in Record /\ Above(x, y) \in Record
  BY PartsAreRecords
<1>3. /\ Below(x, y).start = x.start /\ Below(x, y).tag = x.tag
      /\ Below(x, y).size = IF y.start > x.start THEN y.start - x.start ELSE 0
  BY DEF Below, Record
<1>4. /\ Above(x, y).start = End(y) /\ Above(x, y).tag = x.tag
      /\ Above(x, y).size = IF End(x) > End(y) THEN End(x) - End(y) ELSE 0
  BY DEF Above
<1>5. \A a : a \in Extent(x) <=> a \in Nat /\ x.start <= a /\ a < End(x)
  BY Bounds
<1>6. \A a : a \in Extent(Below(x, y)) <=> a \in Extent(x) /\ a < y.start
  <2>1. \A a : a \in Extent(Below(x, y)) <=> a \in Nat /\ x.start <= a /\ a < End(Below(x, y))
    BY <1>2, <1>3, Bounds
  <2>2. End(Below(x, y)) = IF y.start > x.start THEN y.start ELSE x.start
    BY <1>1, <1>2, <1>3, Bounds
  <2> QED BY <1>1, <1>5, <2>1, <2>2
<1>7. \A a : a \in Extent(Above(x, y)) <=> a \in Extent(x) /\ End(y) <= a
  <2>1. \A a : a \in Extent(Above(x, y)) <=> a \in Nat /\ End(y) <= a /\ a < End(Above(x, y))
    BY <1>2, <1>4, Bounds
  <2>2. End(Above(x, y)) = IF End(x) > End(y) THEN End(x) ELSE End(y)
    BY <1>1, <1>2, <1>4, Bounds
  <2> QED BY <1>1, <1>5, <2>1, <2>2
<1> QED BY <1>3, <1>4, <1>6, <1>7

-----------------------------------------------------------------------------
(* What an add in flight has done to the map, and what it still will do.    *)

(* A piece is a record of the list or the record of a call in flight. *)
Pieces(recs, td) == ToSet(recs) \cup ToSet(td)

Says(x, a, tag) == a \in Extent(x) /\ x.tag = tag

Clash(x, y) ==
    /\ CollisionRank(x.tag) = CollisionRank(y.tag)
    /\ Extent(x) \cap Extent(y) # {}

Clear(x, recs) == \A other \in ToSet(recs) : ~Collides(x, other)

(* The claim of tag over range cannot take a from the tag the map has there. *)
Safe(tag, a) ==
    /\ settled[a] # Unclaimed
    /\ CollisionRank(settled[a]) = 2 \/ CollisionRank(settled[a]) > CollisionRank(tag)

(* Every piece stays inside what was settled or is being claimed. *)
OnlyClaimed(recs, td, tag, range) ==
    \A x \in Pieces(recs, td) : \A a \in Extent(x) :
        a \in Address /\ (x.tag = settled[a] \/ (x.tag = tag /\ a \in range))

(* What the claim cannot take is in the list, or is the record of the next  *)
(* call, which then meets nothing in the list.                              *)
SafeKept(recs, td, tag) ==
    \A a \in Address : Safe(tag, a) =>
        \/ \E x \in ToSet(recs) : Says(x, a, settled[a])
        \/ td # <<>> /\ Says(Head(td), a, settled[a]) /\ Clear(Head(td), recs)

(* Only the next call can be one that puts back a record of a higher rank. *)
LowerLater(recs, td, tag) ==
    /\ td # <<>> => \/ CollisionRank(Head(td).tag) <= CollisionRank(tag)
                    \/ Clear(Head(td), recs)
    /\ \A k \in 2 .. Len(td) : CollisionRank(td[k].tag) <= CollisionRank(tag)

(* A claim that is not contested loses nothing, for it never meets a record *)
(* of the rank of its own.                                                  *)
NothingLost(recs, td, tag, range) ==
    \A a \in Address : Map!Raised(tag, range, a) # Unclaimed =>
        \E x \in Pieces(recs, td) : Says(x, a, Map!Raised(tag, range, a))

NoClash(recs, td) ==
    /\ \A x \in ToSet(recs), y \in ToSet(td) : ~Clash(x, y)
    /\ \A j, k \in 1 .. Len(td) : j < k => ~Clash(td[j], td[k])

Claiming(recs, td, tag, range) ==
    /\ OnlyClaimed(recs, td, tag, range)
    /\ SafeKept(recs, td, tag)
    /\ LowerLater(recs, td, tag)
    /\ ~Map!Contested(tag, range) => NothingLost(recs, td, tag, range) /\ NoClash(recs, td)

MapInv ==
    /\ settled \in [Address -> Tag \cup {Unclaimed}]
    /\ todo = <<>> => /\ settled = OwnerOf(records)
                      /\ \A x \in ToSet(records) : Extent(x) \subseteq Address
    /\ todo # <<>> => \E tag \in Tag, range \in Map!Ranges \cup {{}} :
                          Claiming(records, todo, tag, range)
(* One call of add, of the record r, seen as what it does to the pieces:    *)
(* the list becomes recs and the calls next are to be made.  Every piece it *)
(* leaves is made of pieces it found, ...                                   *)
Traced(r, recs, next) ==
    \A x \in Pieces(recs, next) : \A a \in Extent(x) :
        \E y \in ToSet(records) \cup {r} : Says(y, a, x.tag)

(* ... what it takes from one it gives to a piece of a higher rank, ...     *)
Covering(r, recs, next) ==
    \A y \in ToSet(records) \cup {r} : \A a \in Extent(y) :
        \E x \in Pieces(recs, next) :
            a \in Extent(x) /\ (x.tag = y.tag \/ CollisionRank(x.tag) > CollisionRank(y.tag))

(* ... it leaves pieces that do not clash, ...                              *)
Apart(recs, next) ==
    /\ \A x \in ToSet(recs), y \in ToSet(next) : ~Clash(x, y)
    /\ \A j, k \in 1 .. Len(next) : j < k => ~Clash(next[j], next[k])

(* ... it takes only from records of a lower rank than its own, ...         *)
Keeping(r, recs, next) ==
    /\ \A x \in ToSet(records) :
          \/ CollisionRank(x.tag) = 0
          \/ x \in ToSet(recs)
          \/ next # <<>> /\ next[1] = x /\ Clear(x, recs)
          \/ Collides(r, x) /\ CollisionRank(x.tag) < CollisionRank(r.tag)
    /\ Clear(r, records) => CollisionRank(r.tag) = 0 \/ r.size = 0 \/ r \in ToSet(recs)

(* ... and only the first call it makes can be of a higher rank.            *)
Lower(r, recs, next) ==
    \A k \in 1 .. Len(next) :
        \/ k = 1 /\ Clear(next[1], recs)
        \/ CollisionRank(next[k].tag) = 0
        \/ ~Clear(r, records) /\ CollisionRank(next[k].tag) <= CollisionRank(r.tag)

InFlight == records \in Seq(Record) /\ todo \in Seq(Record) /\ todo # <<>>

LEMMA CallsFound ==
    ASSUME InFlight
    PROVE  /\ Head(todo) \in Record /\ Head(todo) = todo[1] /\ Head(todo) \in ToSet(todo)
           /\ \A y \in ToSet(Tail(todo)) :
                 y \in Record /\ y \in ToSet(todo) /\ \E k \in 2 .. Len(todo) : y = todo[k]
           /\ Len(todo) \in Nat /\ Len(todo) > 0
<1>1. Head(todo) \in Record /\ Head(todo) = todo[1] /\ Tail(todo) \in Seq(Record)
  BY HeadTailProperties DEF InFlight
<1>2. Len(todo) \in Nat /\ Len(todo) > 0
  BY LenProperties, EmptySeq DEF InFlight
<1>3. ToSet(todo) = {Head(todo)} \cup ToSet(Tail(todo))
      /\ \A y \in ToSet(Tail(todo)) : \E k \in 2 .. Len(todo) : y = todo[k]
  <2>1. todo \in Seq(Record) /\ todo # <<>> /\ <<>> \in Seq(Record)
    BY EmptySeq DEF InFlight
  <2> QED BY <2>1, CallsLeftSet
<1>4. ToSet(todo) \subseteq Record
  BY Elements DEF InFlight
<1> QED BY <1>1, <1>2, <1>3, <1>4

LEMMA OnlyClaimedKept ==
    ASSUME InFlight, NEW recs, NEW next \in Seq(Record), NEW tag, NEW range,
           OnlyClaimed(records, todo, tag, range), Traced(Head(todo), recs, next)
    PROVE  OnlyClaimed(recs, next \o Tail(todo), tag, range)
<1>1. ToSet(next \o Tail(todo)) = ToSet(next) \cup ToSet(Tail(todo))
  BY CallsLeftSet DEF InFlight
<1>2. \A y \in ToSet(records) \cup {Head(todo)} \cup ToSet(Tail(todo)) :
         y \in Pieces(records, todo)
  BY CallsFound DEF Pieces
<1>3. ASSUME NEW x \in Pieces(recs, next \o Tail(todo)), NEW a \in Extent(x)
      PROVE  a \in Address /\ (x.tag = settled[a] \/ (x.tag = tag /\ a \in range))
  <2>1. CASE x \in Pieces(recs, next)
    <3>1. PICK y \in ToSet(records) \cup {Head(todo)} : Says(y, a, x.tag)
      BY <2>1 DEF Traced
    <3>2. y \in Pieces(records, todo) /\ a \in Extent(y) /\ y.tag = x.tag
      BY <1>2, <3>1 DEF Says
    <3>3. a \in Address /\ (y.tag = settled[a] \/ (y.tag = tag /\ a \in range))
      BY <3>2 DEF OnlyClaimed
    <3> QED BY <3>2, <3>3
  <2>2. CASE x \in ToSet(Tail(todo))
    BY <1>2, <2>2 DEF OnlyClaimed
  <2> QED BY <1>1, <2>1, <2>2 DEF Pieces
<1> QED BY <1>3 DEF OnlyClaimed

(* Until the claim is contested, only it meets what was settled.            *)
LEMMA Raising ==
    ASSUME settled \in [Address -> Tag \cup {Unclaimed}], NEW a \in Address, NEW tag \in Tag,
           NEW range
    PROVE  LET raised == Map!Raised(tag, range, a)
           IN  /\ a \in range => raised # Unclaimed /\ CollisionRank(tag) <= CollisionRank(raised)
               /\ settled[a] # Unclaimed =>
                     raised # Unclaimed /\ CollisionRank(settled[a]) <= CollisionRank(raised)
               /\ raised = settled[a] \/ (raised = tag /\ a \in range)
<1>1. Unclaimed \notin Tag
  BY BuilderAssumption
<1>2. CollisionRank(tag) \in 0 .. 2 /\ tag # Unclaimed
  BY <1>1, Ranks
<1>3. CASE settled[a] = Unclaimed
  <2>1. Map!Holder(a) = -1
    BY <1>3 DEF Map!Holder
  <2> QED BY <1>2, <1>3, <2>1 DEF Map!Raised
<1>4. CASE settled[a] # Unclaimed
  <2>1. Map!Holder(a) = CollisionRank(settled[a]) /\ CollisionRank(settled[a]) \in 0 .. 2
    BY <1>4, Ranks DEF Map!Holder
  <2> QED BY <1>2, <1>4, <2>1 DEF Map!Raised
<1> QED BY <1>3, <1>4

LEMMA NothingLostKept ==
    ASSUME InFlight, settled \in [Address -> Tag \cup {Unclaimed}],
           NEW recs \in Seq(Record), NEW next \in Seq(Record), NEW tag \in Tag, NEW range,
           OnlyClaimed(recs, next \o Tail(todo), tag, range),
           NothingLost(records, todo, tag, range), Covering(Head(todo), recs, next)
    PROVE  NothingLost(recs, next \o Tail(todo), tag, range)
<1>1. /\ ToSet(next \o Tail(todo)) = ToSet(next) \cup ToSet(Tail(todo))
      /\ ToSet(todo) = {Head(todo)} \cup ToSet(Tail(todo))
  BY CallsLeftSet DEF InFlight
<1>2. Pieces(recs, next) \subseteq Record /\ Pieces(recs, next) \subseteq Pieces(recs, next \o Tail(todo))
  BY <1>1, Elements DEF Pieces
<1>3. ASSUME NEW a \in Address, Map!Raised(tag, range, a) # Unclaimed
      PROVE  \E x \in Pieces(recs, next \o Tail(todo)) : Says(x, a, Map!Raised(tag, range, a))
  <2>1. PICK raised : raised = Map!Raised(tag, range, a)
    OBVIOUS
  <2>2. PICK y \in Pieces(records, todo) : Says(y, a, raised)
    BY <1>3, <2>1 DEF NothingLost
  <2>3. CASE y \in ToSet(Tail(todo))
    BY <1>1, <2>1, <2>2, <2>3 DEF Pieces
  <2>4. CASE y \in ToSet(records) \cup {Head(todo)}
    <3>1. a \in Extent(y) /\ y.tag = raised
      BY <2>2 DEF Says
    <3>2. PICK x \in Pieces(recs, next) :
             a \in Extent(x) /\ (x.tag = y.tag \/ CollisionRank(x.tag) > CollisionRank(y.tag))
      BY <2>4, <3>1 DEF Covering
    <3>3. x.tag = settled[a] \/ (x.tag = tag /\ a \in range)
      BY <1>2, <3>2 DEF OnlyClaimed
    <3>4. x.tag \in Tag /\ x.tag # Unclaimed
      BY <1>2, Bounds, BuilderAssumption
    <3>5. CollisionRank(x.tag) <= CollisionRank(raised)
      BY <2>1, <3>3, <3>4, Raising
    <3>6. raised \in Tag
      BY <1>3, <2>1, Raising
    <3>7. x.tag = raised
      BY <3>1, <3>2, <3>4, <3>5, <3>6, Ranks
    <3> QED BY <1>2, <2>1, <3>2, <3>7 DEF Says
  <2> QED BY <1>1, <2>3, <2>4 DEF Pieces
<1> QED BY <1>3 DEF NothingLost

LEMMA NoClashKept ==
    ASSUME InFlight, NEW recs \in Seq(Record), NEW next \in Seq(Record),
           Traced(Head(todo), recs, next), Apart(recs, next), NoClash(records, todo)
    PROVE  NoClash(recs, next \o Tail(todo))
<1>1. /\ ToSet(next \o Tail(todo)) = ToSet(next) \cup ToSet(Tail(todo))
      /\ \A y \in ToSet(Tail(todo)) : \E k \in 2 .. Len(todo) : y = todo[k]
  BY CallsLeftSet DEF InFlight
<1>2. ASSUME NEW x \in ToSet(records) \cup {Head(todo)}, NEW y \in ToSet(Tail(todo))
      PROVE  ~Clash(x, y)
  <2>1. y \in ToSet(todo)
    BY CallsFound
  <2>2. CASE x \in ToSet(records)
    BY <2>1, <2>2 DEF NoClash
  <2>3. CASE x = Head(todo)
    <3>1. PICK k \in 2 .. Len(todo) : y = todo[k]
      BY <1>1
    <3>2. x = todo[1] /\ 1 \in 1 .. Len(todo) /\ k \in 1 .. Len(todo) /\ 1 < k
      BY <2>3, <3>1, CallsFound
    <3> QED BY <3>1, <3>2 DEF NoClash
  <2> QED BY <2>2, <2>3
<1>3. ASSUME NEW x \in Pieces(recs, next), NEW y \in ToSet(Tail(todo))
      PROVE  ~Clash(x, y)
  <2> SUFFICES ASSUME NEW a, a \in Extent(x), a \in Extent(y),
                      CollisionRank(x.tag) = CollisionRank(y.tag)
               PROVE  FALSE
    BY DEF Clash
  <2>1. PICK z \in ToSet(records) \cup {Head(todo)} : a \in Extent(z) /\ z.tag = x.tag
    BY DEF Traced, Says
  <2>2. Clash(z, y)
    BY <2>1 DEF Clash
  <2> QED BY <1>2, <2>2
<1>4. ASSUME NEW x \in ToSet(recs), NEW y \in ToSet(next \o Tail(todo))
      PROVE  ~Clash(x, y)
  <2>1. CASE y \in ToSet(next)
    BY <2>1 DEF Apart
  <2>2. CASE y \in ToSet(Tail(todo))
    BY <1>3, <2>2 DEF Pieces
  <2> QED BY <1>1, <2>1, <2>2
<1>5. PICK all : all = next \o Tail(todo)
  OBVIOUS
<1>6. /\ Len(all) = Len(next) + Len(todo) - 1
      /\ \A k \in 1 .. Len(next) + Len(todo) - 1 :
            all[k] = IF k <= Len(next) THEN next[k] ELSE todo[k - Len(next) + 1]
  BY <1>5, CallsLeft DEF InFlight
<1>7. Len(next) \in Nat /\ Len(todo) \in Nat /\ DOMAIN next = 1 .. Len(next) /\ DOMAIN todo = 1 .. Len(todo)
  BY LenProperties DEF InFlight
<1>8. /\ Tail(todo) \in Seq(Record) /\ Len(Tail(todo)) = Len(todo) - 1
      /\ \A k \in 1 .. Len(todo) - 1 : Tail(todo)[k] = todo[k + 1]
  BY HeadTailProperties DEF InFlight
<1>9. \A k \in 2 .. Len(todo) : todo[k] \in ToSet(Tail(todo))
  <2> SUFFICES ASSUME NEW k \in 2 .. Len(todo) PROVE todo[k] \in ToSet(Tail(todo))
    OBVIOUS
  <2>1. k - 1 \in 1 .. Len(todo) - 1 /\ (k - 1) + 1 = k
    BY <1>7
  <2>2. Tail(todo)[k - 1] = todo[k] /\ k - 1 \in 1 .. Len(Tail(todo))
    BY <1>8, <2>1
  <2>3. Tail(todo)[k - 1] \in ToSet(Tail(todo))
    BY <1>8, <2>2, Elements
  <2> QED BY <2>2, <2>3
<1>10. ASSUME NEW j \in 1 .. Len(all), NEW k \in 1 .. Len(all), j < k
       PROVE  ~Clash(all[j], all[k])
  <2>1. CASE k <= Len(next)
    <3>1. j \in 1 .. Len(next) /\ k \in 1 .. Len(next) /\ all[j] = next[j] /\ all[k] = next[k]
      BY <1>6, <1>7, <1>10, <2>1
    <3> QED BY <1>10, <3>1 DEF Apart
  <2>2. CASE ~(k <= Len(next)) /\ j <= Len(next)
    <3>1. /\ j \in 1 .. Len(next) /\ k - Len(next) + 1 \in 2 .. Len(todo)
          /\ all[j] = next[j] /\ all[k] = todo[k - Len(next) + 1]
      BY <1>6, <1>7, <2>2
    <3>2. next[j] \in Pieces(recs, next)
      BY <3>1, Elements DEF Pieces
    <3> QED BY <1>3, <1>9, <3>1, <3>2
  <2>3. CASE ~(k <= Len(next)) /\ ~(j <= Len(next))
    <3>1. PICK m, n : m = j - Len(next) + 1 /\ n = k - Len(next) + 1
      OBVIOUS
    <3>2. m \in 1 .. Len(todo) /\ n \in 1 .. Len(todo) /\ m < n
      BY <1>6, <1>7, <1>10, <2>3, <3>1
    <3>3. all[j] = todo[m] /\ all[k] = todo[n]
      BY <1>6, <2>3, <3>1
    <3> QED BY <3>2, <3>3 DEF NoClash
  <2> QED BY <1>6, <1>7, <2>1, <2>2, <2>3
<1> QED BY <1>4, <1>5, <1>10 DEF NoClash
LEMMA NextCall ==
    ASSUME InFlight, NEW next, next \in Seq(Record)
    PROVE  /\ next # <<>> => next \o Tail(todo) # <<>> /\ Head(next \o Tail(todo)) = next[1]
           /\ next = <<>> /\ next \o Tail(todo) # <<>> =>
                 2 \in 2 .. Len(todo) /\ Head(next \o Tail(todo)) = todo[2]
<1>1. PICK all : all = next \o Tail(todo)
  OBVIOUS
<1>2. /\ all \in Seq(Record) /\ Len(all) = Len(next) + Len(todo) - 1
      /\ \A k \in 1 .. Len(next) + Len(todo) - 1 :
            all[k] = IF k <= Len(next) THEN next[k] ELSE todo[k - Len(next) + 1]
  BY <1>1, CallsLeft DEF InFlight
<1>3. Len(next) \in Nat /\ Len(todo) \in Nat /\ Len(todo) > 0
  BY CallsFound, LenProperties
<1>4. all # <<>> => Head(all) = all[1] /\ Len(all) > 0
  BY <1>2, HeadTailProperties, EmptySeq, LenProperties
<1>5. ASSUME next # <<>> PROVE all # <<>> /\ Head(all) = next[1]
  <2>1. Len(next) > 0
    BY <1>5, EmptySeq, LenProperties
  <2>2. Len(all) > 0
    BY <1>2, <1>3, <2>1
  <2>3. all # <<>>
    BY <2>2, EmptySeq
  <2> QED BY <1>2, <1>3, <1>4, <2>1, <2>3
<1>6. ASSUME next = <<>>, all # <<>> PROVE 2 \in 2 .. Len(todo) /\ Head(all) = todo[2]
  <2>1. Len(next) = 0
    BY <1>6, EmptySeq
  <2> QED BY <1>2, <1>3, <1>4, <1>6, <2>1
<1> QED BY <1>1, <1>5, <1>6

LEMMA LowerLaterKept ==
    ASSUME InFlight, NEW recs \in Seq(Record), NEW next, next \in Seq(Record), NEW tag \in Tag,
           LowerLater(records, todo, tag), Lower(Head(todo), recs, next)
    PROVE  LowerLater(recs, next \o Tail(todo), tag)
<1>1. PICK all : all = next \o Tail(todo)
  OBVIOUS
<1>2. PICK r : r = Head(todo)
  OBVIOUS
<1>3. Len(next) \in Nat /\ Len(todo) \in Nat /\ Len(todo) > 0
  BY CallsFound, LenProperties
<1>4. /\ Len(all) = Len(next) + Len(todo) - 1
      /\ \A k \in 1 .. Len(next) + Len(todo) - 1 :
            all[k] = IF k <= Len(next) THEN next[k] ELSE todo[k - Len(next) + 1]
  BY <1>1, CallsLeft DEF InFlight
<1>5. CollisionRank(tag) \in 0 .. 2
  BY Ranks
<1>6. CollisionRank(r.tag) <= CollisionRank(tag) \/ Clear(r, records)
  BY <1>2 DEF LowerLater, InFlight
<1>7. \A k \in 1 .. Len(next) :
         (k = 1 /\ Clear(next[1], recs)) \/ CollisionRank(next[k].tag) <= CollisionRank(tag)
  <2>1. \A k \in 1 .. Len(next) : next[k].tag \in Tag
    BY Elements, Bounds
  <2>2. r.tag \in Tag
    BY <1>2, CallsFound, Bounds
  <2> SUFFICES ASSUME NEW k \in 1 .. Len(next), ~(k = 1 /\ Clear(next[1], recs))
               PROVE  CollisionRank(next[k].tag) <= CollisionRank(tag)
    OBVIOUS
  <2>3. CASE CollisionRank(next[k].tag) = 0
    BY <1>5, <2>3
  <2>4. CASE ~Clear(r, records) /\ CollisionRank(next[k].tag) <= CollisionRank(r.tag)
    <3>1. CollisionRank(next[k].tag) \in 0 .. 2 /\ CollisionRank(r.tag) \in 0 .. 2
      BY <2>1, <2>2, Ranks
    <3> QED BY <1>5, <1>6, <2>4, <3>1
  <2> QED BY <1>2, <2>3, <2>4 DEF Lower
<1>8. \A k \in 2 .. Len(all) : CollisionRank(all[k].tag) <= CollisionRank(tag)
  <2> SUFFICES ASSUME NEW k \in 2 .. Len(all) PROVE CollisionRank(all[k].tag) <= CollisionRank(tag)
    OBVIOUS
  <2>1. CASE k <= Len(next)
    BY <1>3, <1>4, <1>7, <2>1
  <2>2. CASE ~(k <= Len(next))
    <3>1. k - Len(next) + 1 \in 2 .. Len(todo) /\ k \in 1 .. Len(next) + Len(todo) - 1
      BY <1>3, <1>4, <2>2
    <3> QED BY <1>4, <2>2, <3>1 DEF LowerLater
  <2> QED BY <2>1, <2>2
<1>9. all # <<>> => CollisionRank(Head(all).tag) <= CollisionRank(tag) \/ Clear(Head(all), recs)
  <2> SUFFICES ASSUME all # <<>>
               PROVE  CollisionRank(Head(all).tag) <= CollisionRank(tag) \/ Clear(Head(all), recs)
    OBVIOUS
  <2>1. CASE next # <<>>
    <3>1. Head(all) = next[1]
      BY <1>1, <2>1, NextCall
    <3>2. 1 \in 1 .. Len(next)
      BY <1>3, <2>1, EmptySeq
    <3> QED BY <1>7, <3>1, <3>2
  <2>2. CASE next = <<>>
    BY <1>1, <2>2, NextCall DEF LowerLater
  <2> QED BY <2>1, <2>2
<1> QED BY <1>1, <1>8, <1>9 DEF LowerLater

LEMMA SafeKeptKept ==
    ASSUME InFlight, settled \in [Address -> Tag \cup {Unclaimed}],
           NEW recs \in Seq(Record), NEW next, next \in Seq(Record), NEW tag \in Tag,
           SafeKept(records, todo, tag), LowerLater(records, todo, tag),
           Keeping(Head(todo), recs, next)
    PROVE  SafeKept(recs, next \o Tail(todo), tag)
<1>1. PICK all : all = next \o Tail(todo)
  OBVIOUS
<1>2. PICK r : r = Head(todo)
  OBVIOUS
<1>3. r \in Record /\ r.tag \in Tag /\ CollisionRank(tag) \in 0 .. 2 /\ CollisionRank(r.tag) \in 0 .. 2
  BY <1>2, CallsFound, Bounds, Ranks
<1>4. CollisionRank(r.tag) <= CollisionRank(tag) \/ Clear(r, records)
  BY <1>2 DEF LowerLater, InFlight
<1>5. ASSUME NEW a \in Address, Safe(tag, a)
      PROVE  \/ \E x \in ToSet(recs) : Says(x, a, settled[a])
             \/ all # <<>> /\ Says(Head(all), a, settled[a]) /\ Clear(Head(all), recs)
  <2>1. PICK rank : rank = CollisionRank(settled[a])
    OBVIOUS
  <2>2. rank \in 1 .. 2 /\ (rank = 2 \/ rank > CollisionRank(tag))
    <3>1. rank \in 0 .. 2
      BY <1>5, <2>1, Ranks DEF Safe
    <3> QED BY <1>3, <1>5, <2>1, <3>1 DEF Safe
  <2>3. CASE \E x \in ToSet(records) : Says(x, a, settled[a])
    <3>1. PICK x \in ToSet(records) : Says(x, a, settled[a])
      BY <2>3
    <3>2. CollisionRank(x.tag) = rank
      BY <2>1, <3>1 DEF Says
    <3>3. CASE x \in ToSet(recs)
      BY <3>1, <3>3
    <3>4. CASE next # <<>> /\ next[1] = x /\ Clear(x, recs)
      BY <1>1, <3>1, <3>4, NextCall
    <3>5. CASE Collides(r, x) /\ CollisionRank(x.tag) < CollisionRank(r.tag)
      <4>1. ~Clear(r, records)
        BY <3>5 DEF Clear
      <4> QED BY <1>3, <1>4, <2>2, <3>2, <3>5, <4>1
    <3> QED BY <1>2, <2>2, <3>2, <3>3, <3>4, <3>5 DEF Keeping
  <2>4. CASE Says(r, a, settled[a]) /\ Clear(r, records)
    <3>1. CollisionRank(r.tag) = rank /\ a \in Extent(r)
      BY <2>1, <2>4 DEF Says
    <3>2. r.size # 0
      BY <1>3, <3>1, Bounds
    <3>3. r \in ToSet(recs)
      BY <1>2, <2>2, <2>4, <3>1, <3>2 DEF Keeping
    <3> QED BY <2>4, <3>3
  <2> QED BY <1>2, <1>5, <2>3, <2>4 DEF SafeKept
<1> QED BY <1>1, <1>5 DEF SafeKept

(* What one call does to the pieces keeps the claim on its way.             *)
LEMMA ClaimingKept ==
    ASSUME InFlight, settled \in [Address -> Tag \cup {Unclaimed}],
           NEW recs \in Seq(Record), NEW next \in Seq(Record), NEW tag \in Tag, NEW range,
           Claiming(records, todo, tag, range),
           Traced(Head(todo), recs, next),
           Keeping(Head(todo), recs, next), Lower(Head(todo), recs, next),
           NoClash(records, todo) => Apart(recs, next) /\ Covering(Head(todo), recs, next)
    PROVE  Claiming(recs, next \o Tail(todo), tag, range)
<1>1. /\ OnlyClaimed(records, todo, tag, range) /\ SafeKept(records, todo, tag)
      /\ LowerLater(records, todo, tag)
      /\ ~Map!Contested(tag, range) => NothingLost(records, todo, tag, range) /\ NoClash(records, todo)
  BY DEF Claiming
<1>2. PICK td : td = next \o Tail(todo)
  OBVIOUS
<1>3. OnlyClaimed(recs, td, tag, range)
  BY <1>1, <1>2, OnlyClaimedKept
<1>4. SafeKept(recs, td, tag)
  BY <1>1, <1>2, SafeKeptKept
<1>5. LowerLater(recs, td, tag)
  BY <1>1, <1>2, LowerLaterKept
<1>6. ~Map!Contested(tag, range) => NothingLost(recs, td, tag, range)
  BY <1>1, <1>2, <1>3, NothingLostKept
<1>7. ~Map!Contested(tag, range) => NoClash(recs, td)
  BY <1>1, <1>2, NoClashKept
<1> QED BY <1>2, <1>3, <1>4, <1>5, <1>6, <1>7 DEF Claiming
-----------------------------------------------------------------------------
(* What each call of add does to the pieces.                                *)

LEMMA FewCalls ==
    /\ ToSet(<<>>) = {} /\ Len(<<>>) = 0
    /\ \A x : ToSet(<<x>>) = {x} /\ Len(<<x>>) = 1
    /\ \A x, y, z : ToSet(<<x, y, z>>) = {x, y, z} /\ Len(<<x, y, z>>) = 3
<1>1. ToSet(<<>>) = {} /\ Len(<<>>) = 0
  BY DEF ToSet
<1>2. ASSUME NEW x PROVE ToSet(<<x>>) = {x} /\ Len(<<x>>) = 1
  BY DEF ToSet
<1>3. ASSUME NEW x, NEW y, NEW z PROVE ToSet(<<x, y, z>>) = {x, y, z} /\ Len(<<x, y, z>>) = 3
  <2>1. DOMAIN <<x, y, z>> = {1, 2, 3}
    OBVIOUS
  <2>2. PICK s : s = <<x, y, z>>
    OBVIOUS
  <2>3. s[1] = x /\ s[2] = y /\ s[3] = z /\ DOMAIN s = {1, 2, 3} /\ Len(s) = 3
    BY <2>1, <2>2
  <2>4. ToSet(s) = {x, y, z}
    BY ONLY <2>3 DEF ToSet
  <2> QED BY <2>2, <2>3, <2>4
<1> QED BY <1>1, <1>2, <1>3

(* An empty record is forgotten.                                            *)
LEMMA Skipped ==
    ASSUME NEW r \in Record, r.size = 0
    PROVE  /\ Traced(r, records, <<>>) /\ Keeping(r, records, <<>>) /\ Lower(r, records, <<>>)
           /\ Apart(records, <<>>) /\ Covering(r, records, <<>>)
<1>1. \A a : a \notin Extent(r)
  BY Bounds
<1>2. Traced(r, records, <<>>)
  BY FewCalls DEF Traced, Pieces, Says
<1>3. Keeping(r, records, <<>>)
  BY DEF Keeping
<1>4. Lower(r, records, <<>>)
  BY FewCalls DEF Lower
<1>5. Apart(records, <<>>)
  BY FewCalls DEF Apart
<1>6. Covering(r, records, <<>>)
  BY <1>1, FewCalls DEF Covering, Pieces
<1> QED BY <1>2, <1>3, <1>4, <1>5, <1>6

(* A record that nothing in the list meets is put there.                    *)
LEMMA Placed ==
    ASSUME NEW r \in Record, NEW recs, ToSet(recs) = ToSet(records) \cup {r}
    PROVE  /\ Traced(r, recs, <<>>) /\ Keeping(r, recs, <<>>) /\ Lower(r, recs, <<>>)
           /\ Apart(recs, <<>>) /\ Covering(r, recs, <<>>)
<1>1. Traced(r, recs, <<>>)
  BY FewCalls DEF Traced, Pieces, Says
<1>2. Keeping(r, recs, <<>>)
  BY DEF Keeping
<1>3. Lower(r, recs, <<>>)
  BY FewCalls DEF Lower
<1>4. Apart(recs, <<>>)
  BY FewCalls DEF Apart
<1>5. Covering(r, recs, <<>>)
  BY FewCalls DEF Covering, Pieces
<1> QED BY <1>1, <1>2, <1>3, <1>4, <1>5

(* A record that meets one of its rank is dropped.                          *)
LEMMA Dropped ==
    ASSUME NEW r \in ToSet(todo), r \in Record, r.size > 0, NEW other \in ToSet(records),
           other \in Record, other.size > 0, Collides(r, other),
           CollisionRank(r.tag) = CollisionRank(other.tag)
    PROVE  /\ Traced(r, records, <<>>) /\ Keeping(r, records, <<>>) /\ Lower(r, records, <<>>)
           /\ ~NoClash(records, todo)
<1>1. Traced(r, records, <<>>)
  BY FewCalls DEF Traced, Pieces, Says
<1>2. Keeping(r, records, <<>>)
  BY DEF Keeping, Clear
<1>3. Lower(r, records, <<>>)
  BY FewCalls DEF Lower
<1>4. Clash(other, r)
  BY CollidesMeet DEF Clash
<1> QED BY <1>1, <1>2, <1>3, <1>4 DEF NoClash

(* The pieces of calls made of r and of the record taken out of the list    *)
(* clash with none that is left there, if r clashed with none.              *)
LEMMA NoNewClash ==
    ASSUME NEW r, NEW other \in ToSet(records), NEW recs, NEW next,
           ToSet(records) \subseteq Record, \A x \in ToSet(records) : x.size > 0,
           \A x, y \in ToSet(records) : x # y => ~Collides(x, y),
           ToSet(recs) = ToSet(records) \ {other},
           \A y \in ToSet(next) : \A a \in Extent(y) :
               \E z \in {r, other} : a \in Extent(z) /\ z.tag = y.tag,
           \A x \in ToSet(records) : ~Clash(x, r),
           NEW x \in ToSet(recs), NEW y \in ToSet(next)
    PROVE  ~Clash(x, y)
<1> SUFFICES ASSUME NEW a, a \in Extent(x), a \in Extent(y),
                    CollisionRank(x.tag) = CollisionRank(y.tag)
             PROVE  FALSE
  BY DEF Clash
<1>1. PICK z \in {r, other} : a \in Extent(z) /\ z.tag = y.tag
  OBVIOUS
<1>2. Clash(x, z)
  BY <1>1 DEF Clash
<1>3. ~Collides(x, other) /\ x \in Record /\ other \in Record /\ x.size > 0 /\ other.size > 0
  OBVIOUS
<1>4. ~Clash(x, other)
  BY <1>3, CollidesMeet DEF Clash
<1> QED BY <1>2, <1>4

(* Two FREE records that touch become one.                                  *)
LEMMA Merged ==
    ASSUME WellFormed(records), NEW r \in Record, r \in ToSet(todo), NEW other \in ToSet(records),
           r.tag = FREE, other.tag = FREE, NEW m \in Record, m.tag = FREE,
           \A a : a \in Extent(m) <=> a \in Extent(r) \/ a \in Extent(other),
           NEW recs, ToSet(recs) = ToSet(records) \ {other}
    PROVE  /\ Traced(r, recs, <<m>>) /\ Keeping(r, recs, <<m>>) /\ Lower(r, recs, <<m>>)
           /\ NoClash(records, todo) => Apart(recs, <<m>>) /\ Covering(r, recs, <<m>>)
<1>1. Traced(r, recs, <<m>>)
  BY FewCalls DEF Traced, Pieces, Says
<1>2. CollisionRank(FREE) = 0
  BY DEF CollisionRank
<1>3. Keeping(r, recs, <<m>>)
  BY <1>2 DEF Keeping
<1>4. Lower(r, recs, <<m>>)
  <2>1. \A k \in 1 .. 1 : <<m>>[k] = m
    OBVIOUS
  <2> QED BY <1>2, <2>1, FewCalls DEF Lower
<1>5. Covering(r, recs, <<m>>)
  BY FewCalls DEF Covering, Pieces
<1>6. ASSUME NoClash(records, todo) PROVE Apart(recs, <<m>>)
  <2>1. \A x \in ToSet(records) : ~Clash(x, r)
    BY <1>6 DEF NoClash
  <2>2. \A y \in ToSet(<<m>>) : \A a \in Extent(y) :
            \E z \in {r, other} : a \in Extent(z) /\ z.tag = y.tag
    BY FewCalls
  <2>3. PICK next : next = <<m>>
    OBVIOUS
  <2>4. \A x \in ToSet(recs), y \in ToSet(next) : ~Clash(x, y)
    BY <2>1, <2>2, <2>3, ListFacts, NoNewClash
  <2>5. Len(next) = 1
    BY <2>3, FewCalls
  <2> QED BY <2>3, <2>4, <2>5 DEF Apart
<1> QED BY <1>1, <1>3, <1>4, <1>5, <1>6

(* The record of the lower rank keeps what lies around the other.           *)
LEMMA Carved ==
    ASSUME WellFormed(records), NEW r \in Record, r \in ToSet(todo), NEW other \in ToSet(records),
           NEW hi, NEW lo, {hi, lo} = {r, other},
           Collides(lo, hi), CollisionRank(lo.tag) < CollisionRank(hi.tag),
           NEW recs, ToSet(recs) = ToSet(records) \ {other}
    PROVE  LET next == <<hi, Below(lo, hi), Above(lo, hi)>>
           IN  /\ Traced(r, recs, next)
               /\ NoClash(records, todo) => Apart(recs, next) /\ Covering(r, recs, next)
<1>0. PICK next, below, above : /\ below = Below(lo, hi) /\ above = Above(lo, hi)
                                /\ next = <<hi, below, above>>
  OBVIOUS
<1>1. /\ ToSet(next) = {hi, below, above} /\ Len(next) = 3
      /\ next[1] = hi /\ next[2] = below /\ next[3] = above
  BY <1>0, FewCalls
<1>2. other \in Record /\ hi \in Record /\ lo \in Record
  BY ListFacts
<1>3. /\ \A a : a \in Extent(below) <=> a \in Extent(lo) /\ a < hi.start
      /\ \A a : a \in Extent(above) <=> a \in Extent(lo) /\ End(hi) <= a
      /\ below.tag = lo.tag /\ above.tag = lo.tag
  BY <1>0, <1>2, PartExtents
<1>4. \A y \in ToSet(next) : \A a \in Extent(y) :
          \E z \in {r, other} : a \in Extent(z) /\ z.tag = y.tag
  BY <1>1, <1>3
<1>5. Traced(r, recs, next)
  BY <1>4 DEF Traced, Pieces, Says
<1>6. /\ \A a : a \in Extent(hi) <=> a \in Nat /\ hi.start <= a /\ a < End(hi)
      /\ hi.start \in Nat /\ End(hi) \in Nat /\ hi.start <= End(hi)
  BY <1>2, Bounds
<1>7. \A a : a \in Extent(lo) => a \in Nat
  BY <1>2, Bounds
<1>8. Covering(r, recs, next)
  <2>1. \A a \in Extent(lo) : a \in Extent(below) \/ a \in Extent(above) \/ a \in Extent(hi)
    BY <1>3, <1>6, <1>7
  <2>2. \A y \in {r, other} : \A a \in Extent(y) :
            \E x \in {hi, below, above} :
                a \in Extent(x) /\ (x.tag = y.tag \/ CollisionRank(x.tag) > CollisionRank(y.tag))
    <3> SUFFICES ASSUME NEW y \in {hi, lo}, NEW a \in Extent(y)
                 PROVE  \E x \in {hi, below, above} :
                           a \in Extent(x) /\ (x.tag = y.tag \/ CollisionRank(x.tag) > CollisionRank(y.tag))
      OBVIOUS
    <3>1. CASE y = hi
      BY <3>1
    <3>2. CASE y = lo
      <4>1. CollisionRank(hi.tag) > CollisionRank(lo.tag)
        BY <1>2, Bounds, Ranks
      <4> QED BY <1>3, <2>1, <3>2, <4>1
    <3> QED BY <3>1, <3>2
  <2> QED BY <1>1, <2>2 DEF Covering, Pieces
<1>9. ASSUME NoClash(records, todo) PROVE Apart(recs, next)
  <2>1. \A x \in ToSet(records) : ~Clash(x, r)
    BY <1>9 DEF NoClash
  <2>2. \A x \in ToSet(recs), y \in ToSet(next) : ~Clash(x, y)
    BY <1>4, <2>1, ListFacts, NoNewClash
  <2>3. \A a : ~(a \in Extent(hi) /\ a \in Extent(below))
    BY <1>3, <1>6
  <2>4. \A a : ~(a \in Extent(hi) /\ a \in Extent(above))
    BY <1>3, <1>6
  <2>5. \A a : ~(a \in Extent(below) /\ a \in Extent(above))
    BY <1>3, <1>6, <1>7
  <2>6. ~Clash(hi, below) /\ ~Clash(hi, above) /\ ~Clash(below, above)
    BY <2>3, <2>4, <2>5 DEF Clash
  <2>7. \A j, k \in 1 .. 3 : j < k => (j = 1 /\ k = 2) \/ (j = 1 /\ k = 3) \/ (j = 2 /\ k = 3)
    OBVIOUS
  <2>8. \A j, k \in 1 .. Len(next) : j < k => ~Clash(next[j], next[k])
    BY <1>1, <2>6, <2>7
  <2> QED BY <2>2, <2>8 DEF Apart
<1> QED BY <1>0, <1>5, <1>8, <1>9

LEMMA RecordCarved ==
    ASSUME WellFormed(records), NEW r \in Record, NEW other \in ToSet(records),
           Collides(r, other), CollisionRank(r.tag) < CollisionRank(other.tag),
           NEW recs, ToSet(recs) = ToSet(records) \ {other}
    PROVE  LET next == <<other, Below(r, other), Above(r, other)>>
           IN  Keeping(r, recs, next) /\ Lower(r, recs, next)
<1>0. PICK next : next = <<other, Below(r, other), Above(r, other)>>
  OBVIOUS
<1>1. /\ Len(next) = 3 /\ next # <<>> /\ next[1] = other
      /\ next[2] = Below(r, other) /\ next[3] = Above(r, other)
  BY <1>0
<1>2. Clear(other, recs)
  BY ListFacts DEF Clear
<1>3. ~Clear(r, records)
  BY DEF Clear
<1>4. Keeping(r, recs, next)
  BY <1>1, <1>2, <1>3 DEF Keeping
<1>5. next[2].tag = r.tag /\ next[3].tag = r.tag
  BY <1>1 DEF Below, Above, Record
<1>6. CollisionRank(r.tag) \in Int
  BY Bounds, Ranks
<1>7. Lower(r, recs, next)
  BY <1>1, <1>2, <1>3, <1>5, <1>6 DEF Lower
<1> QED BY <1>0, <1>4, <1>7

LEMMA OtherCarved ==
    ASSUME WellFormed(records), NEW r \in Record, NEW other \in ToSet(records),
           Collides(r, other), CollisionRank(r.tag) > CollisionRank(other.tag),
           NEW recs, ToSet(recs) = ToSet(records) \ {other}
    PROVE  LET next == <<r, Below(other, r), Above(other, r)>>
           IN  Keeping(r, recs, next) /\ Lower(r, recs, next)
<1>0. PICK next : next = <<r, Below(other, r), Above(other, r)>>
  OBVIOUS
<1>1. /\ Len(next) = 3 /\ next # <<>> /\ next[1] = r
      /\ next[2] = Below(other, r) /\ next[3] = Above(other, r)
  BY <1>0
<1>2. other \in Record
  BY ListFacts
<1>3. ~Clear(r, records)
  BY DEF Clear
<1>4. CollisionRank(r.tag) \in Int /\ CollisionRank(other.tag) \in Int
  BY <1>2, Bounds, Ranks
<1>5. Keeping(r, recs, next)
  BY <1>3, <1>4 DEF Keeping
<1>6. next[2].tag = other.tag /\ next[3].tag = other.tag
  BY <1>1, <1>2 DEF Below, Above, Record
<1>7. Lower(r, recs, next)
  BY <1>1, <1>3, <1>4, <1>6 DEF Lower
<1> QED BY <1>0, <1>5, <1>7
-----------------------------------------------------------------------------
(* Every call of an add keeps the claim on its way.                         *)

LEMMA Taken ==
    ASSUME IInv, NEW i, i \in DOMAIN records, Stopped(i)
    PROVE  /\ InFlight /\ WellFormed(records) /\ Working
           /\ Head(todo) \in Record /\ Head(todo) \in ToSet(todo) /\ Head(todo).size > 0
           /\ records[i] \in Record /\ records[i] \in ToSet(records) /\ records[i].size > 0
           /\ RemoveAt(records, i) \in Seq(Record)
           /\ ToSet(RemoveAt(records, i)) = ToSet(records) \ {records[i]}
<1>1. WellFormed(records) /\ InFlight /\ Working /\ Head(todo).size > 0
  BY DEF IInv, TypeOK, InFlight, Stopped, Working
<1>2. Head(todo) \in Record /\ Head(todo) \in ToSet(todo)
  BY <1>1, CallsFound
<1>3. records[i] \in ToSet(records)
  BY DEF ToSet
<1>4. records[i] \in Record /\ records[i].size > 0
  BY <1>1, <1>3, ListFacts
<1>5. ToSet(RemoveAt(records, i)) = ToSet(records) \ {records[i]}
  BY <1>1, RemovedSet
<1>6. i \in 1 .. Len(records) /\ records \in Seq(Record)
  BY <1>1, LenProperties DEF InFlight
<1>7. RemoveAt(records, i) \in Seq(Record)
  BY <1>6, RemoveAtFacts
<1> QED BY <1>1, <1>2, <1>3, <1>4, <1>5, <1>7

(* What a call that does not panic leaves.                                  *)
Kept(tag, range) ==
    \E recs \in Seq(Record), next \in Seq(Record) :
        Proceed(recs, next) /\ Claiming(recs, next \o Tail(todo), tag, range)

LEMMA KeptBy ==
    ASSUME InFlight, settled \in [Address -> Tag \cup {Unclaimed}],
           NEW recs, recs \in Seq(Record), NEW next, next \in Seq(Record), NEW tag \in Tag, NEW range,
           Claiming(records, todo, tag, range), Proceed(recs, next),
           Traced(Head(todo), recs, next), Keeping(Head(todo), recs, next),
           Lower(Head(todo), recs, next),
           NoClash(records, todo) => Apart(recs, next) /\ Covering(Head(todo), recs, next)
    PROVE  Kept(tag, range)
<1>1. Claiming(recs, next \o Tail(todo), tag, range)
  BY ClaimingKept
<1> QED BY <1>1 DEF Kept

LEMMA SkipKept ==
    ASSUME IInv, settled \in [Address -> Tag \cup {Unclaimed}], NEW tag \in Tag, NEW range,
           Claiming(records, todo, tag, range), SkipEmpty
    PROVE  Kept(tag, range)
<1>1. PICK r : r = Head(todo)
  OBVIOUS
<1>2. InFlight /\ records \in Seq(Record) /\ <<>> \in Seq(Record)
  BY EmptySeq DEF IInv, TypeOK, InFlight, SkipEmpty, Working
<1>3. r \in Record /\ r.size = 0 /\ Proceed(records, <<>>)
  BY <1>1, <1>2, CallsFound DEF SkipEmpty
<1>4. /\ Traced(r, records, <<>>) /\ Keeping(r, records, <<>>) /\ Lower(r, records, <<>>)
      /\ Apart(records, <<>>) /\ Covering(r, records, <<>>)
  BY <1>3, Skipped
<1> QED BY <1>1, <1>2, <1>3, <1>4, KeptBy

LEMMA PlacedKept ==
    ASSUME InFlight, settled \in [Address -> Tag \cup {Unclaimed}], NEW tag \in Tag, NEW range,
           Claiming(records, todo, tag, range),
           NEW recs, recs \in Seq(Record), ToSet(recs) = ToSet(records) \cup {Head(todo)},
           Proceed(recs, <<>>)
    PROVE  Kept(tag, range)
<1>1. PICK r : r = Head(todo)
  OBVIOUS
<1>2. r \in Record /\ <<>> \in Seq(Record)
  BY <1>1, CallsFound, EmptySeq
<1>3. /\ Traced(r, recs, <<>>) /\ Keeping(r, recs, <<>>) /\ Lower(r, recs, <<>>)
      /\ Apart(recs, <<>>) /\ Covering(r, recs, <<>>)
  BY <1>1, <1>2, Placed
<1> QED BY <1>1, <1>2, <1>3, KeptBy

LEMMA PushKept ==
    ASSUME IInv, settled \in [Address -> Tag \cup {Unclaimed}], NEW tag \in Tag, NEW range,
           Claiming(records, todo, tag, range), PushBack
    PROVE  Panic \/ Kept(tag, range)
<1>1. InFlight /\ records \in Seq(Record)
  BY DEF IInv, TypeOK, InFlight, PushBack, Working
<1>2. Head(todo) \in Record
  BY <1>1, CallsFound
<1>3. PICK recs : recs = Append(records, Head(todo))
  OBVIOUS
<1>4. recs \in Seq(Record) /\ ToSet(recs) = ToSet(records) \cup {Head(todo)}
  BY <1>1, <1>2, <1>3, AppendProperties, AppendedSet
<1>5. Panic \/ Proceed(recs, <<>>)
  BY <1>3 DEF PushBack
<1> QED BY <1>1, <1>4, <1>5, PlacedKept

LEMMA InsertKept ==
    ASSUME IInv, settled \in [Address -> Tag \cup {Unclaimed}], NEW tag \in Tag, NEW range,
           Claiming(records, todo, tag, range),
           NEW i, i \in DOMAIN records, InsertBefore(i)
    PROVE  Panic \/ Kept(tag, range)
<1>1. Stopped(i)
  BY DEF InsertBefore
<1>2. InFlight /\ records \in Seq(Record) /\ Head(todo) \in Record
  BY <1>1, Taken DEF InFlight
<1>3. i \in 1 .. Len(records)
  BY <1>2, LenProperties
<1>4. PICK recs : recs = InsertAt(records, i, Head(todo))
  OBVIOUS
<1>5. recs \in Seq(Record) /\ ToSet(recs) = ToSet(records) \cup {Head(todo)}
  BY <1>2, <1>3, <1>4, RecordInserted, InsertedSet
<1>6. Panic \/ Proceed(recs, <<>>)
  BY <1>4 DEF InsertBefore
<1> QED BY <1>2, <1>5, <1>6, PlacedKept

LEMMA DropKept ==
    ASSUME IInv, settled \in [Address -> Tag \cup {Unclaimed}], NEW tag \in Tag, NEW range,
           Claiming(records, todo, tag, range),
           NEW i, i \in DOMAIN records, DropColliding(i)
    PROVE  Kept(tag, range)
<1>1. PICK r, other : r = Head(todo) /\ other = records[i]
  OBVIOUS
<1>2. /\ Stopped(i) /\ Collides(r, other) /\ CollisionRank(r.tag) = CollisionRank(other.tag)
      /\ Proceed(records, <<>>)
  BY <1>1 DEF DropColliding
<1>3. /\ InFlight /\ r \in Record /\ r \in ToSet(todo) /\ r.size > 0
      /\ other \in Record /\ other \in ToSet(records) /\ other.size > 0
  BY <1>1, <1>2, Taken
<1>4. records \in Seq(Record) /\ <<>> \in Seq(Record)
  BY <1>3, EmptySeq DEF InFlight
<1>5. /\ Traced(r, records, <<>>) /\ Keeping(r, records, <<>>) /\ Lower(r, records, <<>>)
      /\ ~NoClash(records, todo)
  BY <1>2, <1>3, Dropped
<1> QED BY <1>1, <1>2, <1>3, <1>4, <1>5, KeptBy

(* Two records that touch, as one.                                          *)
LEMMA MergedExtent ==
    ASSUME NEW x \in Record, NEW y \in Record, End(x) = y.start
    PROVE  LET m == [x EXCEPT !.size = @ + y.size]
           IN  /\ m \in Record /\ m.tag = x.tag
               /\ \A a : a \in Extent(m) <=> a \in Extent(x) \/ a \in Extent(y)
<1>1. PICK m : m = [x EXCEPT !.size = @ + y.size]
  OBVIOUS
<1>2. m \in Record /\ m.tag = x.tag /\ m.start = x.start /\ m.size = x.size + y.size
  BY <1>1 DEF Record
<1>3. /\ x.start \in Nat /\ x.size \in Nat /\ End(x) = x.start + x.size
      /\ y.start \in Nat /\ y.size \in Nat /\ End(y) = y.start + y.size
  BY Bounds
<1>4. End(m) = End(y)
  BY <1>2, <1>3, Bounds
<1>5. \A a : a \in Extent(m) <=> a \in Extent(x) \/ a \in Extent(y)
  <2>1. \A a : a \in Extent(m) <=> a \in Nat /\ x.start <= a /\ a < End(y)
    BY <1>2, <1>4, Bounds
  <2>2. \A a : a \in Extent(x) <=> a \in Nat /\ x.start <= a /\ a < y.start
    BY Bounds
  <2>3. \A a : a \in Extent(y) <=> a \in Nat /\ y.start <= a /\ a < End(y)
    BY Bounds
  <2>a. \A s, n \in Nat : s <= s + n /\ s + n \in Nat
    OBVIOUS
  <2>b. x.start <= x.start + x.size
    BY <1>3, <2>a
  <2>c. y.start <= End(y) /\ End(y) \in Nat
    BY <1>3, <2>a
  <2>4. x.start <= y.start /\ y.start <= End(y) /\ End(y) \in Nat
    BY <1>3, <2>b, <2>c
  <2>5. ASSUME NEW a PROVE a \in Extent(m) <=> a \in Extent(x) \/ a \in Extent(y)
    <3>1. CASE a \in Nat
      BY <1>3, <2>1, <2>2, <2>3, <2>4, <3>1
    <3>2. CASE a \notin Nat
      BY <2>1, <2>2, <2>3, <3>2
    <3> QED BY <3>1, <3>2
  <2> QED BY <2>5
<1> QED BY <1>1, <1>2, <1>5

LEMMA MergeKept ==
    ASSUME IInv, settled \in [Address -> Tag \cup {Unclaimed}], NEW tag \in Tag, NEW range,
           Claiming(records, todo, tag, range),
           NEW i, i \in DOMAIN records, MergePrevious(i) \/ MergeNext(i)
    PROVE  Kept(tag, range)
<1>1. PICK r, other : r = Head(todo) /\ other = records[i]
  OBVIOUS
<1>2. PICK recs : recs = RemoveAt(records, i)
  OBVIOUS
<1>3. Stopped(i)
  BY DEF MergePrevious, MergeNext
<1>4. /\ InFlight /\ WellFormed(records)
      /\ r \in Record /\ r \in ToSet(todo) /\ other \in Record /\ other \in ToSet(records)
      /\ recs \in Seq(Record) /\ ToSet(recs) = ToSet(records) \ {other}
  BY <1>1, <1>2, <1>3, Taken
<1>5. r.tag = FREE /\ other.tag = FREE
  BY <1>1 DEF MergePrevious, MergeNext, MergesPrevious, MergesNext
<1>6. PICK m : /\ m \in Record /\ m.tag = FREE
               /\ \A a : a \in Extent(m) <=> a \in Extent(r) \/ a \in Extent(other)
               /\ Proceed(recs, <<m>>)
  <2>1. CASE MergePrevious(i)
    <3>1. PICK m : m = [other EXCEPT !.size = @ + r.size]
      OBVIOUS
    <3>2. End(other) = r.start /\ Proceed(recs, <<m>>)
      BY <1>1, <1>2, <2>1, <3>1 DEF MergePrevious, MergesPrevious
    <3>3. /\ m \in Record /\ m.tag = FREE
          /\ \A a : a \in Extent(m) <=> a \in Extent(other) \/ a \in Extent(r)
      BY <1>4, <1>5, <3>1, <3>2, MergedExtent
    <3> QED BY <3>2, <3>3
  <2>2. CASE MergeNext(i)
    <3>1. PICK m : m = [r EXCEPT !.size = @ + other.size]
      OBVIOUS
    <3>2. End(r) = other.start /\ Proceed(recs, <<m>>)
      BY <1>1, <1>2, <2>2, <3>1 DEF MergeNext, MergesNext
    <3>3. /\ m \in Record /\ m.tag = FREE
          /\ \A a : a \in Extent(m) <=> a \in Extent(r) \/ a \in Extent(other)
      BY <1>4, <1>5, <3>1, <3>2, MergedExtent
    <3> QED BY <3>2, <3>3
  <2> QED BY <2>1, <2>2
<1>7. /\ Traced(r, recs, <<m>>) /\ Keeping(r, recs, <<m>>) /\ Lower(r, recs, <<m>>)
      /\ NoClash(records, todo) => Apart(recs, <<m>>) /\ Covering(r, recs, <<m>>)
  BY <1>4, <1>5, <1>6, Merged
<1>8. PICK next : next = <<m>>
  OBVIOUS
<1>9. next \in Seq(Record)
  BY <1>6, <1>8
<1> QED BY <1>1, <1>4, <1>6, <1>7, <1>8, <1>9, KeptBy

LEMMA CarveKept ==
    ASSUME IInv, settled \in [Address -> Tag \cup {Unclaimed}], NEW tag \in Tag, NEW range,
           Claiming(records, todo, tag, range),
           NEW i, i \in DOMAIN records, CarveRecord(i) \/ CarveOther(i)
    PROVE  Kept(tag, range)
<1>1. PICK r, other : r = Head(todo) /\ other = records[i]
  OBVIOUS
<1>2. PICK recs : recs = RemoveAt(records, i)
  OBVIOUS
<1>3. Stopped(i) /\ Collides(r, other)
  BY <1>1 DEF CarveRecord, CarveOther
<1>4. /\ InFlight /\ WellFormed(records)
      /\ r \in Record /\ r \in ToSet(todo) /\ other \in Record /\ other \in ToSet(records)
      /\ recs \in Seq(Record) /\ ToSet(recs) = ToSet(records) \ {other}
  BY <1>1, <1>2, <1>3, Taken
<1>5. CollisionRank(r.tag) \in Int /\ CollisionRank(other.tag) \in Int
  BY <1>4, Bounds, Ranks
<1>6. CASE CarveRecord(i)
  <2>1. PICK next : next = <<other, Below(r, other), Above(r, other)>>
    OBVIOUS
  <2>2. CollisionRank(r.tag) < CollisionRank(other.tag) /\ Proceed(recs, next)
    BY <1>1, <1>2, <1>6, <2>1 DEF CarveRecord
  <2>3. next \in Seq(Record)
    BY <1>4, <2>1, PartsAreRecords
  <2>4. Keeping(r, recs, next) /\ Lower(r, recs, next)
    BY <1>3, <1>4, <2>1, <2>2, RecordCarved
  <2>5. Traced(r, recs, next) /\ (NoClash(records, todo) => Apart(recs, next) /\ Covering(r, recs, next))
    <3>1. {other, r} = {r, other}
      OBVIOUS
    <3> QED BY <1>3, <1>4, <2>1, <2>2, <3>1, Carved
  <2> QED BY <1>1, <1>4, <2>2, <2>3, <2>4, <2>5, KeptBy
<1>7. CASE CarveOther(i)
  <2>1. PICK next : next = <<r, Below(other, r), Above(other, r)>>
    OBVIOUS
  <2>2. CollisionRank(r.tag) > CollisionRank(other.tag) /\ Proceed(recs, next)
    BY <1>1, <1>2, <1>7, <2>1 DEF CarveOther
  <2>3. next \in Seq(Record)
    BY <1>4, <2>1, PartsAreRecords
  <2>4. Keeping(r, recs, next) /\ Lower(r, recs, next)
    BY <1>3, <1>4, <2>1, <2>2, OtherCarved
  <2>5. Traced(r, recs, next) /\ (NoClash(records, todo) => Apart(recs, next) /\ Covering(r, recs, next))
    <3>1. Collides(other, r) /\ CollisionRank(other.tag) < CollisionRank(r.tag)
      BY <1>3, <1>5, <2>2 DEF Collides
    <3> QED BY <1>4, <2>1, <3>1, Carved
  <2> QED BY <1>1, <1>4, <2>2, <2>3, <2>4, <2>5, KeptBy
<1> QED BY <1>6, <1>7

LEMMA AddStepClaims ==
    ASSUME IInv, settled \in [Address -> Tag \cup {Unclaimed}], NEW tag \in Tag, NEW range,
           Claiming(records, todo, tag, range), AddStep
    PROVE  Panic \/ Kept(tag, range)
<1>1. CASE SkipEmpty
  BY <1>1, SkipKept
<1>2. CASE PushBack
  BY <1>2, PushKept
<1>3. ASSUME NEW i \in DOMAIN records, MergePrevious(i) \/ MergeNext(i)
      PROVE  Kept(tag, range)
  BY <1>3, MergeKept
<1>4. ASSUME NEW i \in DOMAIN records, CarveRecord(i) \/ CarveOther(i)
      PROVE  Kept(tag, range)
  BY <1>4, CarveKept
<1>5. ASSUME NEW i \in DOMAIN records, DropColliding(i) PROVE Kept(tag, range)
  BY <1>5, DropKept
<1>6. ASSUME NEW i \in DOMAIN records, InsertBefore(i) PROVE Panic \/ Kept(tag, range)
  BY <1>6, InsertKept
<1> QED BY <1>1, <1>2, <1>3, <1>4, <1>5, <1>6 DEF AddStep
-----------------------------------------------------------------------------
(* The map the list stands for, when an add begins and when it ends.        *)

LEMMA OwnerFacts ==
    ASSUME NEW recs, WellFormed(recs)
    PROVE  /\ OwnerOf(recs) \in [Address -> Tag \cup {Unclaimed}]
           /\ \A a \in Address, x \in ToSet(recs) : a \in Extent(x) => OwnerOf(recs)[a] = x.tag
           /\ \A a \in Address : OwnerOf(recs)[a] # Unclaimed =>
                 \E x \in ToSet(recs) : Says(x, a, OwnerOf(recs)[a])
<1>1. ToSet(recs) \subseteq Record /\ \A k \in DOMAIN recs : recs[k] \in ToSet(recs)
  BY ListFacts DEF ToSet
<1>2. \A a \in Address, x, y \in ToSet(recs) : a \in Extent(x) /\ a \in Extent(y) => x = y
  <2> SUFFICES ASSUME NEW a \in Address, NEW x \in ToSet(recs), NEW y \in ToSet(recs),
                      a \in Extent(x), a \in Extent(y), x # y
               PROVE  FALSE
    OBVIOUS
  <2>1. x \in Record /\ y \in Record /\ x.size > 0 /\ y.size > 0 /\ ~Collides(x, y)
    BY ListFacts
  <2> QED BY <2>1, CollidesMeet
<1>3. ASSUME NEW a \in Address, Covered(recs, a)
      PROVE  /\ OwnerOf(recs)[a] \in Tag
             /\ \E x \in ToSet(recs) : Says(x, a, OwnerOf(recs)[a])
             /\ \A x \in ToSet(recs) : a \in Extent(x) => OwnerOf(recs)[a] = x.tag
  <2>1. PICK i : i = CHOOSE j \in DOMAIN recs : a \in Extent(recs[j])
    OBVIOUS
  <2>2. i \in DOMAIN recs /\ a \in Extent(recs[i])
    BY <1>3, <2>1 DEF Covered
  <2>3. OwnerOf(recs)[a] = recs[i].tag
    BY <1>3, <2>1 DEF OwnerOf
  <2>4. recs[i] \in ToSet(recs) /\ recs[i] \in Record
    BY <1>1, <2>2
  <2> QED BY <1>2, <2>2, <2>3, <2>4, Bounds DEF Says
<1>4. ASSUME NEW a \in Address, ~Covered(recs, a)
      PROVE  /\ OwnerOf(recs)[a] = Unclaimed
             /\ \A x \in ToSet(recs) : a \notin Extent(x)
  <2>1. OwnerOf(recs)[a] = Unclaimed
    BY <1>4 DEF OwnerOf
  <2>2. \A x \in ToSet(recs) : a \notin Extent(x)
    BY <1>4 DEF Covered, ToSet
  <2> QED BY <2>1, <2>2
<1>5. OwnerOf(recs) \in [Address -> Tag \cup {Unclaimed}]
  <2>1. OwnerOf(recs) = [a \in Address |-> OwnerOf(recs)[a]]
    BY DEF OwnerOf
  <2>2. \A a \in Address : OwnerOf(recs)[a] \in Tag \cup {Unclaimed}
    BY <1>3, <1>4
  <2> QED BY <2>1, <2>2
<1> QED BY <1>3, <1>4, <1>5

LEMMA MapInvInit == Init => MapInv
<1> SUFFICES ASSUME Init PROVE MapInv
  OBVIOUS
<1>1. records = <<>> /\ todo = <<>> /\ settled = [a \in Address |-> Unclaimed]
  BY DEF Init
<1>2. \A a : ~Covered(<<>>, a)
  BY DEF Covered
<1>3. OwnerOf(<<>>) = [a \in Address |-> Unclaimed]
  BY <1>2 DEF OwnerOf
<1>4. \A x \in ToSet(records) : Extent(x) \subseteq Address
  BY <1>1, FewCalls
<1> QED BY <1>1, <1>3, <1>4 DEF MapInv

(* A claim begins with the map in the list and the range in the next call.  *)
LEMMA ClaimBegins ==
    ASSUME WellFormed(records), settled = OwnerOf(records),
           \A x \in ToSet(records) : Extent(x) \subseteq Address,
           NEW tag \in Tag, NEW r \in Record, r.tag = tag, Extent(r) \subseteq Address
    PROVE  Claiming(records, <<r>>, tag, Extent(r))
<1>1. PICK td, range : td = <<r>> /\ range = Extent(r)
  OBVIOUS
<1>2. ToSet(td) = {r} /\ Len(td) = 1 /\ td # <<>> /\ Head(td) = r
  BY <1>1, FewCalls
<1>3. /\ settled \in [Address -> Tag \cup {Unclaimed}]
      /\ \A a \in Address, x \in ToSet(records) : a \in Extent(x) => settled[a] = x.tag
      /\ \A a \in Address : settled[a] # Unclaimed =>
            \E x \in ToSet(records) : Says(x, a, settled[a])
  BY OwnerFacts
<1>4. OnlyClaimed(records, td, tag, range)
  BY <1>1, <1>2, <1>3 DEF OnlyClaimed, Pieces
<1>5. SafeKept(records, td, tag)
  BY <1>3 DEF SafeKept, Safe
<1>6. LowerLater(records, td, tag)
  <2>1. CollisionRank(tag) \in 0 .. 2
    BY Ranks
  <2> QED BY <1>2, <2>1 DEF LowerLater
<1>7. NothingLost(records, td, tag, range)
  <2> SUFFICES ASSUME NEW a \in Address, Map!Raised(tag, range, a) # Unclaimed
               PROVE  \E x \in Pieces(records, td) : Says(x, a, Map!Raised(tag, range, a))
    BY DEF NothingLost
  <2>1. PICK raised : raised = Map!Raised(tag, range, a)
    OBVIOUS
  <2>2. raised # Unclaimed /\ (raised = settled[a] \/ (raised = tag /\ a \in range))
    BY <1>3, <2>1, Raising
  <2>3. CASE raised = settled[a]
    BY <1>3, <2>1, <2>2, <2>3 DEF Pieces
  <2>4. CASE raised = tag /\ a \in range
    BY <1>1, <1>2, <2>1, <2>4 DEF Pieces, Says
  <2> QED BY <2>2, <2>3, <2>4
<1>8. ASSUME ~Map!Contested(tag, range) PROVE NoClash(records, td)
  <2>1. ASSUME NEW x \in ToSet(records), Clash(x, r) PROVE FALSE
    <3>1. PICK a : a \in Extent(x) /\ a \in Extent(r) /\ CollisionRank(x.tag) = CollisionRank(tag)
      BY <2>1 DEF Clash
    <3>2. a \in Address /\ settled[a] = x.tag /\ a \in range
      BY <1>1, <1>3, <3>1
    <3>3. x.tag # Unclaimed
      BY ListFacts, Bounds, BuilderAssumption
    <3>4. Map!Holder(a) = CollisionRank(tag)
      BY <3>1, <3>2, <3>3 DEF Map!Holder
    <3> QED BY <1>8, <3>2, <3>4 DEF Map!Contested
  <2>2. \A j, k \in 1 .. 1 : ~(j < k)
    OBVIOUS
  <2> QED BY <1>2, <2>1, <2>2 DEF NoClash
<1> QED BY <1>1, <1>4, <1>5, <1>6, <1>7, <1>8 DEF Claiming

(* When no call is left, the map has changed by the claim.                  *)
LEMMA ClaimEnds ==
    ASSUME NEW recs, WellFormed(recs), settled \in [Address -> Tag \cup {Unclaimed}],
           NEW tag \in Tag, NEW range, Claiming(recs, <<>>, tag, range),
           settled' = OwnerOf(recs)
    PROVE  Map!Claim(tag, range) \/ Map!PartialClaim(tag, range)
<1>1. /\ settled' \in [Address -> Tag \cup {Unclaimed}]
      /\ \A a \in Address, x \in ToSet(recs) : a \in Extent(x) => settled'[a] = x.tag
      /\ \A a \in Address : settled'[a] # Unclaimed => \E x \in ToSet(recs) : Says(x, a, settled'[a])
  BY OwnerFacts
<1>2. Pieces(recs, <<>>) = ToSet(recs)
  BY FewCalls DEF Pieces
<1>3. \A x \in ToSet(recs) : x \in Record /\ x.tag \in Tag /\ x.tag # Unclaimed
  BY ListFacts, Bounds, BuilderAssumption
<1>4. \A a \in Address : settled'[a] = Unclaimed \/ settled'[a] = settled[a]
                         \/ (settled'[a] = tag /\ a \in range)
  BY <1>1, <1>2 DEF Claiming, OnlyClaimed, Says
<1>5. CASE ~Map!Contested(tag, range)
  <2>1. ASSUME NEW a \in Address PROVE settled'[a] = Map!Raised(tag, range, a)
    <3>1. PICK raised : raised = Map!Raised(tag, range, a)
      OBVIOUS
    <3>2. CASE raised # Unclaimed
      <4>1. \E x \in ToSet(recs) : Says(x, a, raised)
        BY <1>2, <1>5, <3>1, <3>2 DEF Claiming, NothingLost
      <4> QED BY <1>1, <3>1, <4>1 DEF Says
    <3>3. CASE raised = Unclaimed
      <4>1. settled[a] = Unclaimed /\ a \notin range
        BY <3>1, <3>3, Raising
      <4> QED BY <1>4, <3>1, <3>3, <4>1
    <3> QED BY <3>2, <3>3
  <2>2. settled' = [a \in Address |-> settled'[a]]
    BY <1>1
  <2>3. settled' = [a \in Address |-> Map!Raised(tag, range, a)]
    BY <2>1, <2>2
  <2> QED BY <2>3 DEF Map!Claim
<1>6. CASE Map!Contested(tag, range)
  <2>1. ASSUME NEW a \in Address
        PROVE  settled'[a] \in IF Map!Holder(a) = 2 THEN {settled[a]}
                               ELSE {settled[a], Map!Raised(tag, range, a), Unclaimed}
    <3>1. ASSUME Safe(tag, a) PROVE settled'[a] = settled[a]
      BY <1>1, <3>1 DEF Claiming, SafeKept, Says
    <3>2. CASE settled[a] = Unclaimed
      <4>1. Map!Holder(a) = -1
        BY <3>2 DEF Map!Holder
      <4>2. CollisionRank(tag) \in 0 .. 2
        BY Ranks
      <4>3. a \in range => Map!Raised(tag, range, a) = tag
        BY <4>1, <4>2 DEF Map!Raised
      <4> QED BY <1>4, <4>1, <4>3
    <3>3. CASE settled[a] # Unclaimed
      <4>1. settled[a] \in Tag /\ Map!Holder(a) = CollisionRank(settled[a])
        BY <3>3 DEF Map!Holder
      <4>2. CollisionRank(settled[a]) \in 0 .. 2 /\ CollisionRank(tag) \in 0 .. 2
        BY <4>1, Ranks
      <4>3. CASE Safe(tag, a)
        BY <3>1, <4>3
      <4>4. CASE ~Safe(tag, a)
        <5>1. CollisionRank(settled[a]) < 2 /\ CollisionRank(settled[a]) <= CollisionRank(tag)
          BY <3>3, <4>2, <4>4 DEF Safe
        <5>2. CASE CollisionRank(settled[a]) = CollisionRank(tag)
          <6>1. settled[a] = tag
            BY <4>1, <4>2, <5>1, <5>2, Ranks
          <6> QED BY <1>4, <4>1, <5>1, <6>1
        <5>3. CASE CollisionRank(settled[a]) < CollisionRank(tag)
          <6>1. a \in range => Map!Raised(tag, range, a) = tag
            BY <4>1, <4>2, <5>3 DEF Map!Raised
          <6> QED BY <1>4, <4>1, <5>1, <6>1
        <5> QED BY <4>2, <5>1, <5>2, <5>3
      <4> QED BY <4>3, <4>4
    <3> QED BY <3>2, <3>3
  <2>2. DOMAIN settled' = Address
    BY <1>1
  <2> QED BY <1>6, <2>1, <2>2 DEF Map!PartialClaim
<1> QED BY <1>5, <1>6

LEMMA ClaimingGoesOn ==
    ASSUME NEW CONSTANT recs, NEW CONSTANT td, NEW CONSTANT tag, NEW CONSTANT range,
           settled' = settled, records' = recs, todo' = td, Claiming(recs, td, tag, range)
    PROVE  Claiming(records, todo, tag, range)'
BY DEF Claiming, OnlyClaimed, SafeKept, LowerLater, NothingLost, NoClash, Pieces, Says, Safe,
       Clear, Map!Contested, Map!Raised, Map!Holder
LEMMA EmptyClaim ==
    ASSUME settled \in [Address -> Tag \cup {Unclaimed}], NEW tag \in Tag,
           Map!Claim(tag, {}) \/ Map!PartialClaim(tag, {})
    PROVE  settled' = settled
<1>1. ~Map!Contested(tag, {})
  BY DEF Map!Contested
<1>2. settled' = [a \in Address |-> Map!Raised(tag, {}, a)]
  BY <1>1 DEF Map!Claim, Map!PartialClaim
<1>3. \A a \in Address : Map!Raised(tag, {}, a) = settled[a]
  BY DEF Map!Raised
<1>4. settled' = [a \in Address |-> settled[a]]
  BY <1>2, <1>3
<1> QED BY <1>4

LEMMA MapAddStep ==
    ASSUME IInv, IInv', MapInv, AddStep
    PROVE  MapInv' /\ (Map!Next \/ UNCHANGED settled)
<1>1. settled \in [Address -> Tag \cup {Unclaimed}]
  BY DEF MapInv
<1>2. todo # <<>> /\ todo \in Seq(Record)
  BY DEF AddStep, SkipEmpty, PushBack, Stopped, MergePrevious, MergeNext, CarveRecord,
         CarveOther, DropColliding, InsertBefore, Working, IInv, TypeOK
<1>3. PICK tag \in Tag, range \in Map!Ranges \cup {{}} : Claiming(records, todo, tag, range)
  BY <1>2 DEF MapInv
<1>4. CASE Panic
  <2>1. UNCHANGED <<records, todo, settled>>
    BY <1>4 DEF Panic
  <2>2. Claiming(records, todo, tag, range)'
    BY <1>3, <2>1, ClaimingGoesOn
  <2> QED BY <1>1, <1>2, <2>1, <2>2 DEF MapInv, Map!Ranges
<1>5. CASE Kept(tag, range)
  <2>1. PICK recs \in Seq(Record), next \in Seq(Record) :
           Proceed(recs, next) /\ Claiming(recs, next \o Tail(todo), tag, range)
    BY <1>5 DEF Kept
  <2>2. PICK td : td = next \o Tail(todo)
    OBVIOUS
  <2>3. /\ records' = recs /\ todo' = td
        /\ td = <<>> => settled' = OwnerOf(recs)
        /\ td # <<>> => settled' = settled
    BY <2>1, <2>2 DEF Proceed
  <2>4. WellFormed(recs)
    BY <2>3 DEF IInv, WellFormed
  <2>5. CASE td = <<>>
    <3>1. Map!Claim(tag, range) \/ Map!PartialClaim(tag, range)
      BY <1>1, <2>1, <2>2, <2>3, <2>4, <2>5, ClaimEnds
    <3>2. Map!Next \/ UNCHANGED settled
      <4>1. CASE range \in Map!Ranges
        BY <3>1, <4>1 DEF Map!Next
      <4>2. CASE range = {}
        BY <1>1, <3>1, <4>2, EmptyClaim
      <4> QED BY <4>1, <4>2
    <3>3. \A x \in ToSet(recs) : Extent(x) \subseteq Address
      BY <2>1, <2>2, <2>5 DEF Claiming, OnlyClaimed, Pieces
    <3>4. settled' \in [Address -> Tag \cup {Unclaimed}]
      BY <2>3, <2>4, <2>5, OwnerFacts
    <3>5. settled' = OwnerOf(records')
      BY <2>3, <2>5
    <3>6. \A x \in ToSet(records') : Extent(x) \subseteq Address
      BY <2>3, <3>3
    <3>7. todo' = <<>>
      BY <2>3, <2>5
    <3>8. OwnerOf(records') = OwnerOf(records)'
      BY DEF OwnerOf, Covered
    <3> QED BY <3>2, <3>4, <3>5, <3>6, <3>7, <3>8 DEF MapInv
  <2>6. CASE td # <<>>
    <3>1. settled' = settled /\ records' = recs /\ todo' = td /\ Claiming(recs, td, tag, range)
      BY <2>1, <2>2, <2>3, <2>6
    <3>2. Claiming(records, todo, tag, range)'
      BY <3>1, ClaimingGoesOn
    <3> QED BY <1>1, <2>6, <3>1, <3>2 DEF MapInv, Map!Ranges
  <2> QED BY <2>5, <2>6
<1> QED BY <1>1, <1>3, <1>4, <1>5, AddStepClaims

LEMMA MapClient ==
    ASSUME IInv, MapInv, Client
    PROVE  MapInv' /\ UNCHANGED settled
<1>1. /\ settled \in [Address -> Tag \cup {Unclaimed}]
      /\ todo = <<>> => /\ settled = OwnerOf(records)
                        /\ \A x \in ToSet(records) : Extent(x) \subseteq Address
  BY DEF MapInv
<1>2. CASE UNCHANGED <<records, todo, settled>> /\ todo = <<>>
  <2>1. OwnerOf(records)' = OwnerOf(records) /\ ToSet(records)' = ToSet(records)
    BY <1>2 DEF OwnerOf, Covered, ToSet
  <2> QED BY <1>1, <1>2, <2>1 DEF MapInv
<1>3. ASSUME NEW tag \in Tag, NEW start \in Address, NEW size \in 0 .. MaxAddr,
             Add(tag, start, size)
      PROVE  MapInv' /\ UNCHANGED settled
  <2>1. PICK r : r = [tag |-> tag, start |-> start, size |-> size]
    OBVIOUS
  <2>2. /\ r.tag = tag /\ r.start = start /\ r.size = size
        /\ start \in Nat /\ size \in Nat /\ MaxAddr \in Nat /\ start + size <= MaxAddr
    BY <1>3, <2>1, BuilderAssumption DEF Add, Address
  <2>3. r \in Record
    BY <2>1, <2>2 DEF Record
  <2>4. \A a : a \in Extent(r) <=> a \in Nat /\ start <= a /\ a < start + size
    BY <2>2, <2>3, Bounds
  <2>5. Extent(r) \subseteq Address
    BY <2>2, <2>4 DEF Address
  <2>6. /\ todo = <<>> /\ todo' = <<r>>
        /\ records' = records /\ settled' = settled
    BY <1>3, <2>1 DEF Add, Idle
  <2>7. PICK range, td : range = Extent(r) /\ td = <<r>>
    OBVIOUS
  <2>8. Claiming(records, td, tag, range)
    BY <1>1, <2>2, <2>3, <2>5, <2>6, <2>7, ClaimBegins DEF IInv
  <2>9. PICK recs : recs = records
    OBVIOUS
  <2>10. Claiming(records, todo, tag, range)'
    BY <2>6, <2>7, <2>8, <2>9, ClaimingGoesOn
  <2>11. range \in Map!Ranges \cup {{}}
    <3>1. CASE size = 0
      BY <2>2, <2>4, <2>7, <3>1
    <3>2. CASE size > 0
      <4>1. PICK hi : hi = start + size - 1
        OBVIOUS
      <4>2. hi \in Address
        BY <2>2, <3>2, <4>1 DEF Address
      <4>3. range = start .. hi
        BY <2>2, <2>7, <4>1 DEF Extent, End
      <4> QED BY <4>2, <4>3 DEF Map!Ranges
    <3> QED BY <2>2, <3>1, <3>2
  <2>12. todo' # <<>>
    BY <2>6
  <2> QED BY <1>1, <2>6, <2>10, <2>11, <2>12 DEF MapInv, Map!Ranges
<1>4. ASSUME NEW n \in StrLens, AddString(n) \/ Agent(n)
      PROVE  MapInv' /\ UNCHANGED settled
  BY <1>2, <1>4 DEF AddString, Agent, Idle, PushString, Panic
<1>5. ASSUME Finalize PROVE MapInv' /\ UNCHANGED settled
  BY <1>2, <1>5 DEF Finalize, Idle
<1> QED BY <1>3, <1>4, <1>5 DEF Client

LEMMA MapStutters == ASSUME MapInv, UNCHANGED vars PROVE MapInv'
<1>1. UNCHANGED <<records, todo, settled>>
  BY DEF vars
<1>2. OwnerOf(records)' = OwnerOf(records) /\ ToSet(records)' = ToSet(records)
  BY <1>1 DEF OwnerOf, Covered, ToSet
<1>3. CASE todo = <<>>
  BY <1>1, <1>2, <1>3 DEF MapInv
<1>4. CASE todo # <<>>
  <2>1. PICK tag \in Tag, range \in Map!Ranges \cup {{}} : Claiming(records, todo, tag, range)
    BY <1>4 DEF MapInv
  <2>2. Claiming(records, todo, tag, range)'
    BY <1>1, <2>1, ClaimingGoesOn
  <2> QED BY <1>1, <1>4, <2>2 DEF MapInv, Map!Ranges
<1> QED BY <1>3, <1>4

LEMMA NextKeepsTheMap ==
    ASSUME IInv, MapInv, [Next]_vars
    PROVE  IInv' /\ MapInv' /\ (Map!Next \/ UNCHANGED settled)
<1>1. CASE AddStep
  BY <1>1, AddStepKeeps, MapAddStep
<1>2. CASE Client
  BY <1>2, ClientKeeps, MapClient
<1>3. CASE UNCHANGED vars
  BY <1>3, StutterKeeps, MapStutters DEF vars
<1> QED BY <1>1, <1>2, <1>3 DEF Next

(* The builder implements the memory map: whatever the adds, and however    *)
(* deep their carving nests, each changes the map the list stands for by    *)
(* one claim, exact unless it met memory of its own rank.                   *)
THEOREM ImplementsTheMap == Spec => ImplementsMap
<1>1. Init => IInv /\ MapInv /\ Map!Init
  BY IInvInit, MapInvInit DEF Init, Map!Init
<1>2. IInv /\ MapInv /\ [Next]_vars => IInv' /\ MapInv' /\ [Map!Next]_settled
  BY NextKeepsTheMap
<1> QED BY <1>1, <1>2, PTL DEF Spec, ImplementsMap, Map!Spec
-----------------------------------------------------------------------------
(* What the kernel's queries answer about a list the builder left. *)

LEMMA Least ==
    ASSUME NEW S, S \subseteq Nat, S # {} PROVE \E n \in S : \A m \in S : n <= m
<1> DEFINE R == OpToRel(<, Nat)
<1>1. IsWellFoundedOn(R, Nat)
  BY NatLessThanWellFounded
<1>2. \A x, y \in Nat : y < x => <<y, x>> \in R
  BY DEF OpToRel
<1> HIDE DEF R
<1>3. \E x \in S : \A y \in S : ~(<<y, x>> \in R)
  BY <1>1, WFMin
<1>4. \E x \in S : \A y \in S : ~(y < x)
  BY <1>2, <1>3, Zenon
<1> QED BY <1>4

(* Induction, over a set of numbers in place of a predicate.                *)
LEMMA Upwards ==
    ASSUME NEW S, 0 \in S, \A n \in Nat : n \in S => n + 1 \in S PROVE Nat \subseteq S
<1> DEFINE rest == Nat \ S
<1>1. CASE rest = {}
  BY <1>1
<1>2. CASE rest # {}
  <2>1. PICK n \in rest : \A m \in rest : n <= m
    <3> HIDE DEF rest
    <3>1. rest \subseteq Nat
      BY DEF rest
    <3> QED BY <1>2, <3>1, Least
  <2>2. n # 0
    OBVIOUS
  <2>3. n - 1 \in Nat /\ n - 1 \in S
    BY <2>1, <2>2
  <2>4. (n - 1) + 1 \in S
    BY <2>3
  <2> QED BY <2>3, <2>4
<1> QED BY <1>1, <1>2

LEMMA MinIs ==
    ASSUME NEW S, S \subseteq Int, NEW m \in S, \A n \in S : m <= n PROVE Min(S) = m
<1>1. \E x \in S : \A y \in S : x =< y
  OBVIOUS
<1>2. PICK x : x = Min(S)
  OBVIOUS
<1>3. x \in S /\ \A y \in S : x =< y
  BY <1>1, <1>2 DEF Min
<1> QED BY <1>2, <1>3

LEMMA MaxIs ==
    ASSUME NEW S, S \subseteq Int, NEW m \in S, \A n \in S : n <= m PROVE Max(S) = m
<1>1. \E x \in S : \A y \in S : x >= y
  OBVIOUS
<1>2. PICK x : x = Max(S)
  OBVIOUS
<1>3. x \in S /\ \A y \in S : x >= y
  BY <1>1, <1>2 DEF Max
<1> QED BY <1>2, <1>3

(* The list of a payload that was just finalized. *)
Published(recs) ==
    WellFormed(recs) /\ \A x \in ToSet(recs) : Extent(x) \subseteq Address

Held(recs, tag) == {a \in Address : OwnerOf(recs)[a] = tag}

LEMMA PublishedFacts ==
    ASSUME NEW recs, Published(recs)
    PROVE  /\ recs \in Seq(Record) /\ Len(recs) \in Nat /\ DOMAIN recs = 1 .. Len(recs)
           /\ \A i \in 1 .. Len(recs) :
                 /\ recs[i] \in Record /\ recs[i].tag \in Tag
                 /\ recs[i].start \in Nat /\ recs[i].size \in Nat /\ recs[i].size > 0
                 /\ End(recs[i]) = recs[i].start + recs[i].size
                 /\ recs[i].start \in Address /\ End(recs[i]) - 1 \in Address
           /\ \A i, j \in 1 .. Len(recs) : i < j => End(recs[i]) <= recs[j].start
<1>1. recs \in Seq(Record) /\ Len(recs) \in Nat /\ DOMAIN recs = 1 .. Len(recs)
  BY LenProperties DEF Published, WellFormed
<1>2. ASSUME NEW i \in 1 .. Len(recs)
      PROVE  /\ recs[i] \in Record /\ recs[i].tag \in Tag
             /\ recs[i].start \in Nat /\ recs[i].size \in Nat /\ recs[i].size > 0
             /\ End(recs[i]) = recs[i].start + recs[i].size
             /\ recs[i].start \in Address /\ End(recs[i]) - 1 \in Address
  <2>1. recs[i] \in ToSet(recs) /\ recs[i] \in Record
    BY <1>1, Elements
  <2>2. recs[i].size > 0 /\ Extent(recs[i]) \subseteq Address
    BY <1>1, <2>1 DEF Published, WellFormed
  <2>3. recs[i].start \in Extent(recs[i]) /\ End(recs[i]) - 1 \in Extent(recs[i])
    BY <2>1, <2>2, Bounds
  <2> QED BY <2>1, <2>2, <2>3, Bounds
<1>3. \A i, j \in 1 .. Len(recs) : i < j => End(recs[i]) <= recs[j].start
  BY <1>1 DEF Published, WellFormed
<1> QED BY <1>1, <1>2, <1>3

(* An address is held by a tag exactly if a record of that tag covers it.   *)
LEMMA HeldIs ==
    ASSUME NEW recs, Published(recs), NEW tag \in Tag, NEW a
    PROVE  a \in Held(recs, tag) <=>
              \E i \in 1 .. Len(recs) : recs[i].tag = tag /\ recs[i].start <= a /\ a < End(recs[i])
                                        /\ a \in Nat
<1>1. WellFormed(recs) /\ recs \in Seq(Record)
  BY PublishedFacts DEF Published
<1>2. ASSUME a \in Held(recs, tag)
      PROVE  \E i \in 1 .. Len(recs) : recs[i].tag = tag /\ recs[i].start <= a /\ a < End(recs[i])
                                       /\ a \in Nat
  <2>1. a \in Address /\ OwnerOf(recs)[a] = tag /\ tag # Unclaimed
    BY <1>2, BuilderAssumption DEF Held
  <2>2. PICK x \in ToSet(recs) : Says(x, a, tag)
    BY <1>1, <2>1, OwnerFacts
  <2>3. PICK i \in 1 .. Len(recs) : x = recs[i]
    BY <1>1, Elements
  <2>4. recs[i] \in Record /\ a \in Extent(recs[i]) /\ recs[i].tag = tag
    BY <2>2, <2>3, PublishedFacts DEF Says
  <2> QED BY <2>4, Bounds
<1>3. ASSUME NEW i \in 1 .. Len(recs), recs[i].tag = tag, recs[i].start <= a, a < End(recs[i]), a \in Nat
      PROVE  a \in Held(recs, tag)
  <2>1. recs[i] \in Record /\ recs[i] \in ToSet(recs)
    BY <1>1, Elements, PublishedFacts
  <2>2. a \in Extent(recs[i])
    BY <1>3, <2>1, Bounds
  <2>3. a \in Address
    BY <2>1, <2>2 DEF Published
  <2>4. OwnerOf(recs)[a] = tag
    BY <1>1, <1>3, <2>1, <2>2, <2>3, OwnerFacts
  <2> QED BY <2>3, <2>4 DEF Held
<1> QED BY <1>2, <1>3

(* The first index that passes a test, as a set: 0 for none.                *)
First(I) == IF I # {} THEN Min(I) ELSE 0

LEMMA FirstIs ==
    ASSUME NEW n \in Nat, NEW I, I \subseteq 1 .. n
    PROVE  /\ I = {} => First(I) = 0
           /\ I # {} => /\ First(I) \in I /\ First(I) # 0
                        /\ \A i \in I : First(I) <= i
<1>1. CASE I = {}
  BY <1>1 DEF First
<1>2. CASE I # {}
  <2>1. I \subseteq Nat
    OBVIOUS
  <2>2. PICK m \in I : \A i \in I : m <= i
    BY <1>2, <2>1, Least
  <2>3. Min(I) = m
    <3>1. I \subseteq Int
      BY <2>1
    <3> QED BY <2>2, <3>1, MinIs
  <2> QED BY <1>2, <2>2, <2>3 DEF First
<1> QED BY <1>1, <1>2

LEMMA FindIs ==
    ASSUME NEW recs, NEW size
    PROVE  \E i : /\ i = First({k \in 1 .. Len(recs) : recs[k].tag = FREE /\ recs[k].size >= size})
                  /\ Find(recs, size) = IF i = 0 THEN NoRecord
                                        ELSE [start |-> recs[i].start, size |-> recs[i].size]
BY DEF Find, SelectInSeq, First

LEMMA FindTagIs ==
    ASSUME NEW recs, NEW tag
    PROVE  FindTag(recs, tag) = First({k \in 1 .. Len(recs) : recs[k].tag = tag})
BY DEF FindTag, SelectInSeq, First
(* findTag answers with the record that starts lowest.                      *)
LEMMA FindTagTells ==
    ASSUME NEW recs, Published(recs), NEW tag \in Tag
    PROVE  IF Held(recs, tag) = {} THEN FindTag(recs, tag) = 0
           ELSE FindTag(recs, tag) # 0 /\ recs[FindTag(recs, tag)].start = Min(Held(recs, tag))
<1>1. PICK n \in Nat : n = Len(recs)
  BY PublishedFacts
<1>2. PICK I : I = {k \in 1 .. n : recs[k].tag = tag}
  OBVIOUS
<1>3. PICK i : i = FindTag(recs, tag) /\ i = First(I)
  BY <1>1, <1>2, FindTagIs
<1>4. /\ I = {} => i = 0
      /\ I # {} => i \in I /\ i # 0 /\ \A k \in I : i <= k
  BY <1>2, <1>3, FirstIs
<1>5. CASE I = {}
  <2>1. Held(recs, tag) = {}
    BY <1>1, <1>2, <1>5, HeldIs
  <2> QED BY <1>3, <1>4, <1>5, <2>1
<1>6. CASE I # {}
  <2>1. i \in 1 .. n /\ recs[i].tag = tag
    BY <1>2, <1>4, <1>6
  <2>2. recs[i].start \in Nat /\ recs[i].start < End(recs[i])
    BY <1>1, <2>1, PublishedFacts
  <2>3. PICK a : a = recs[i].start
    OBVIOUS
  <2>4. a \in Held(recs, tag)
    BY <1>1, <2>1, <2>2, <2>3, HeldIs
  <2>5. ASSUME NEW b \in Held(recs, tag) PROVE a <= b
    <3>1. PICK k \in 1 .. n : recs[k].tag = tag /\ recs[k].start <= b /\ b < End(recs[k]) /\ b \in Nat
      BY <1>1, HeldIs
    <3>2. i <= k
      BY <1>2, <1>4, <1>6, <3>1
    <3>3. recs[k].start \in Nat /\ End(recs[i]) \in Nat /\ (i < k => End(recs[i]) <= recs[k].start)
      BY <1>1, <2>1, PublishedFacts
    <3>4. CASE i < k
      BY <2>2, <2>3, <3>1, <3>3, <3>4
    <3>5. CASE i = k
      BY <2>3, <3>1, <3>5
    <3> QED BY <1>1, <2>1, <3>1, <3>2, <3>4, <3>5
  <2>6. Held(recs, tag) \subseteq Int
    BY DEF Held, Address
  <2>7. Min(Held(recs, tag)) = a
    BY <2>4, <2>5, <2>6, MinIs
  <2> QED BY <1>3, <1>4, <1>6, <2>3, <2>4, <2>7
<1> QED BY <1>5, <1>6

(* A run of free addresses is inside one record: FREE records that touched  *)
(* would have been merged.                                                  *)
LEMMA RunInRecord ==
    ASSUME NEW recs, Published(recs), NEW size \in Nat, size > 0, NEW a \in Nat,
           a .. a + size - 1 \subseteq Held(recs, FREE)
    PROVE  \E j \in 1 .. Len(recs) : recs[j].tag = FREE /\ recs[j].size >= size /\ recs[j].start <= a
<1>0. FREE \in Tag
  BY TagAssumption
<1>1. a \in Held(recs, FREE)
  OBVIOUS
<1>2. PICK j \in 1 .. Len(recs) : recs[j].tag = FREE /\ recs[j].start <= a /\ a < End(recs[j])
  BY <1>0, <1>1, HeldIs
<1>3. recs[j].start \in Nat /\ recs[j].size \in Nat /\ End(recs[j]) = recs[j].start + recs[j].size
  BY PublishedFacts
<1>4. ASSUME End(recs[j]) < a + size PROVE FALSE
  <2>1. PICK b \in Nat : b = End(recs[j])
    BY <1>3
  <2>2. b \in a .. a + size - 1
    BY <1>2, <1>3, <1>4, <2>1
  <2>3. b \in Held(recs, FREE)
    BY <2>2
  <2>4. PICK k \in 1 .. Len(recs) : recs[k].tag = FREE /\ recs[k].start <= b /\ b < End(recs[k])
    BY <1>0, <2>3, HeldIs
  <2>5. recs[k].start \in Nat /\ End(recs[k]) \in Nat /\ Len(recs) \in Nat
        /\ (j < k => b <= recs[k].start) /\ (k < j => End(recs[k]) <= recs[j].start)
    <3>1. recs[k].start \in Nat /\ recs[k].size \in Nat /\ End(recs[k]) = recs[k].start + recs[k].size
      BY PublishedFacts
    <3>2. (j < k => End(recs[j]) <= recs[k].start) /\ (k < j => End(recs[k]) <= recs[j].start)
      BY PublishedFacts
    <3>3. Len(recs) \in Nat
      BY PublishedFacts
    <3> QED BY <2>1, <3>1, <3>2, <3>3
  <2>6. b # recs[k].start
    <3>1. j \in DOMAIN recs /\ k \in DOMAIN recs
      BY PublishedFacts
    <3> QED BY <1>2, <2>1, <2>4, <3>1 DEF Published, WellFormed
  <2>7. j # k
    BY <2>1, <2>4, <2>5
  <2>8. CASE j < k
    BY <2>4, <2>5, <2>6, <2>8
  <2>9. CASE k < j
    BY <1>2, <1>3, <2>1, <2>4, <2>5, <2>9
  <2> QED BY <2>5, <2>7, <2>8, <2>9
<1>5. recs[j].size >= size
  BY <1>2, <1>3, <1>4
<1> QED BY <1>2, <1>5

Runs(recs, size) == {a \in Address : a .. a + size - 1 \subseteq Held(recs, FREE)}

(* find answers with the lowest run of free addresses that is long enough.  *)
LEMMA FindTells ==
    ASSUME NEW recs, Published(recs), NEW size \in Nat, size > 0
    PROVE  IF Runs(recs, size) = {} THEN Find(recs, size) = NoRecord
           ELSE Find(recs, size).start = Min(Runs(recs, size)) /\ Find(recs, size).size >= size
<1>0. FREE \in Tag
  BY TagAssumption
<1>1. PICK n \in Nat : n = Len(recs)
  BY PublishedFacts
<1>2. PICK I : I = {k \in 1 .. n : recs[k].tag = FREE /\ recs[k].size >= size}
  OBVIOUS
<1>3. PICK i : /\ i = First(I)
               /\ Find(recs, size) = IF i = 0 THEN NoRecord
                                     ELSE [start |-> recs[i].start, size |-> recs[i].size]
  BY <1>1, <1>2, FindIs
<1>4. /\ I = {} => i = 0
      /\ I # {} => i \in I /\ i # 0 /\ \A k \in I : i <= k
  BY <1>2, <1>3, FirstIs
<1>5. \A a \in Runs(recs, size) : \E k \in I : recs[k].start <= a
  <2> TAKE a \in Runs(recs, size)
  <2>1. a \in Nat /\ a .. a + size - 1 \subseteq Held(recs, FREE)
    BY DEF Runs, Address
  <2>2. PICK k \in 1 .. n : recs[k].tag = FREE /\ recs[k].size >= size /\ recs[k].start <= a
    BY <1>1, <2>1, RunInRecord
  <2> QED BY <1>2, <2>2
<1>6. CASE I = {}
  <2>1. Runs(recs, size) = {}
    BY <1>5, <1>6
  <2> QED BY <1>3, <1>4, <1>6, <2>1
<1>7. CASE I # {}
  <2>1. i \in 1 .. n /\ recs[i].tag = FREE /\ recs[i].size >= size /\ i \in I
    BY <1>2, <1>4, <1>7
  <2>2. /\ recs[i].start \in Nat /\ recs[i].size \in Nat /\ recs[i].start \in Address
        /\ End(recs[i]) = recs[i].start + recs[i].size
    BY <1>1, <2>1, PublishedFacts
  <2>3. PICK a : a = recs[i].start
    OBVIOUS
  <2>4. a \in Runs(recs, size)
    <3>1. ASSUME NEW b \in a .. a + size - 1 PROVE b \in Held(recs, FREE)
      <4>1. recs[i].start <= b /\ b < End(recs[i]) /\ b \in Nat
        BY <2>1, <2>2, <2>3
      <4> QED BY <1>0, <1>1, <2>1, <4>1, HeldIs
    <3> QED BY <2>2, <2>3, <3>1 DEF Runs
  <2>5. ASSUME NEW b \in Runs(recs, size) PROVE a <= b
    <3>1. PICK k \in I : recs[k].start <= b
      BY <1>5
    <3>2. k \in 1 .. n /\ i <= k /\ b \in Nat
      BY <1>2, <1>4, <1>7 DEF Runs, Address
    <3>3. recs[k].start \in Nat
      BY <1>1, <3>2, PublishedFacts
    <3>4. i < k => End(recs[i]) <= recs[k].start
      BY <1>1, <2>1, <3>2, PublishedFacts
    <3>5. CASE i < k
      BY <2>2, <2>3, <3>1, <3>2, <3>3, <3>4, <3>5
    <3>6. CASE i = k
      BY <2>3, <3>1, <3>6
    <3> QED BY <2>1, <3>2, <3>5, <3>6
  <2>6. Runs(recs, size) \subseteq Int
    BY DEF Runs, Address
  <2>7. Min(Runs(recs, size)) = a
    BY <2>4, <2>5, <2>6, MinIs
  <2>8. Find(recs, size) = [start |-> a, size |-> recs[i].size]
    BY <1>3, <1>4, <1>7, <2>3
  <2> QED BY <2>1, <2>4, <2>7, <2>8
<1> QED BY <1>6, <1>7
(* sum counts, record after record, the addresses the records so far hold.  *)
HeldBy(recs, tag, n) ==
    {a \in Address : \E i \in 1 .. n : recs[i].tag = tag /\ recs[i].start <= a /\ a < End(recs[i])}

LEMMA CountStep ==
    ASSUME NEW recs, Published(recs), NEW tag \in Tag, NEW n \in 1 .. Len(recs)
    PROVE  /\ Cardinality(HeldBy(recs, tag, n - 1)) \in Nat
           /\ Cardinality(HeldBy(recs, tag, n)) =
                Cardinality(HeldBy(recs, tag, n - 1)) + (IF recs[n].tag = tag THEN recs[n].size ELSE 0)
<1>1. PICK before, after : before = HeldBy(recs, tag, n - 1) /\ after = HeldBy(recs, tag, n)
  OBVIOUS
<1>2. IsFiniteSet(before) /\ Cardinality(before) \in Nat
  <2>1. IsFiniteSet(Address)
    BY FS_Interval, BuilderAssumption DEF Address
  <2>2. before \subseteq Address
    BY <1>1 DEF HeldBy
  <2> QED BY <2>1, <2>2, FS_Subset, FS_CardinalityType
<1>3. /\ recs[n].start \in Nat /\ recs[n].size \in Nat /\ recs[n].size > 0
      /\ End(recs[n]) = recs[n].start + recs[n].size
      /\ recs[n].start \in Address /\ End(recs[n]) - 1 \in Address
  BY PublishedFacts
<1>4. n \in Nat /\ n > 0 /\ Len(recs) \in Nat
  BY PublishedFacts
<1>5. \A i \in 1 .. n : i \in 1 .. n - 1 \/ i = n
  BY <1>4
<1>6. \A i \in 1 .. n - 1 : i \in 1 .. n
  BY <1>4
<1>7. n \in 1 .. n
  BY <1>4
<1>8. CASE recs[n].tag = tag
  <2>1. PICK lo \in Nat, hi \in Int : lo = recs[n].start /\ hi = End(recs[n]) - 1
    BY <1>3
  <2>2. lo .. hi \subseteq Address
    BY <1>3, <2>1, BuilderAssumption DEF Address
  <2>3. after = before \cup (lo .. hi)
    <3>1. \A a \in Address : recs[n].start <= a /\ a < End(recs[n]) <=> a \in lo .. hi
      BY <1>3, <2>1 DEF Address
    <3>2. \A a \in after : a \in before \/ a \in lo .. hi
      BY <1>1, <1>5, <3>1 DEF HeldBy
    <3>3. \A a \in before : a \in after
      BY <1>1, <1>6 DEF HeldBy
    <3>4. \A a \in lo .. hi : a \in after
      BY <1>1, <1>7, <1>8, <2>2, <3>1 DEF HeldBy
    <3> QED BY <3>2, <3>3, <3>4
  <2>4. before \cap (lo .. hi) = {}
    <3> SUFFICES ASSUME NEW a \in before, a \in lo .. hi PROVE FALSE
      OBVIOUS
    <3>1. PICK i \in 1 .. n - 1 : a < End(recs[i])
      BY <1>1 DEF HeldBy
    <3>2. i \in 1 .. Len(recs) /\ i < n
      BY <1>4
    <3>3. End(recs[i]) <= recs[n].start
      BY <3>2, PublishedFacts
    <3>4. recs[i].start \in Nat /\ recs[i].size \in Nat /\ End(recs[i]) = recs[i].start + recs[i].size
      BY <3>2, PublishedFacts
    <3> QED BY <2>1, <3>1, <3>3, <3>4
  <2>5. IsFiniteSet(lo .. hi) /\ Cardinality(lo .. hi) = recs[n].size
    <3>1. IsFiniteSet(lo .. hi) /\ Cardinality(lo .. hi) = IF lo > hi THEN 0 ELSE hi - lo + 1
      BY FS_Interval
    <3>2. ~ lo > hi /\ hi - lo + 1 = recs[n].size
      BY <1>3, <2>1
    <3> QED BY <3>1, <3>2
  <2>6. Cardinality(after) = Cardinality(before) + Cardinality(lo .. hi) - Cardinality({})
    BY <1>2, <2>3, <2>4, <2>5, FS_Union
  <2>7. Cardinality({}) = 0
    BY FS_EmptySet
  <2> QED BY <1>1, <1>2, <1>3, <1>8, <2>5, <2>6, <2>7
<1>9. CASE recs[n].tag # tag
  <2>1. after = before
    BY <1>1, <1>5, <1>6, <1>9 DEF HeldBy
  <2> QED BY <1>1, <1>2, <1>9, <2>1
<1> QED BY <1>8, <1>9

LEMMA SumTells ==
    ASSUME NEW recs, Published(recs), NEW tag \in Tag
    PROVE  SumOf(recs, tag) = Cardinality(Held(recs, tag))
<1>1. PICK N \in Nat : N = Len(recs)
  BY PublishedFacts
<1> DEFINE worth(n) == IF recs[n].tag = tag THEN recs[n].size ELSE 0
           f == [n \in 0 .. N |-> Cardinality(HeldBy(recs, tag, n))]
           at == CHOOSE g : g = [n \in 0 .. N |-> IF n = 0 THEN 0 ELSE g[n - 1] + worth(n)]
<1>2. f[0] = 0
  <2>1. HeldBy(recs, tag, 0) = {}
    BY DEF HeldBy
  <2>2. f[0] = Cardinality({})
    BY <2>1
  <2> QED BY <2>2, FS_EmptySet
<1>3. \A n \in 1 .. N : f[n] = f[n - 1] + worth(n)
  <2> TAKE n \in 1 .. N
  <2>1. Cardinality(HeldBy(recs, tag, n)) = Cardinality(HeldBy(recs, tag, n - 1)) + worth(n)
    BY <1>1, CountStep
  <2>2. n \in 0 .. N /\ n - 1 \in 0 .. N
    OBVIOUS
  <2> HIDE DEF worth
  <2> QED BY <2>1, <2>2
<1>4. f = [n \in 0 .. N |-> IF n = 0 THEN 0 ELSE f[n - 1] + worth(n)]
  <2>1. f = [n \in 0 .. N |-> f[n]]
    OBVIOUS
  <2> HIDE DEF f, worth
  <2>2. \A n \in 0 .. N : f[n] = IF n = 0 THEN 0 ELSE f[n - 1] + worth(n)
    <3> TAKE n \in 0 .. N
    <3>1. n = 0 \/ n \in 1 .. N
      OBVIOUS
    <3> QED BY <1>2, <1>3, <3>1
  <2>3. [n \in 0 .. N |-> f[n]] = [n \in 0 .. N |-> IF n = 0 THEN 0 ELSE f[n - 1] + worth(n)]
    BY <2>2
  <2> QED BY <2>1, <2>3, Zenon
<1>5. at = [n \in 0 .. N |-> IF n = 0 THEN 0 ELSE at[n - 1] + worth(n)]
  <2> HIDE DEF f, worth
  <2> QED BY <1>4
<1>6. SumOf(recs, tag) = at[N]
  BY <1>1 DEF SumOf
<1> HIDE DEF at, f, worth
<1> DEFINE S == {n \in Nat : n \in 0 .. N => at[n] = f[n]}
<1>7. 0 \in S
  BY <1>2, <1>5
<1>8. \A n \in Nat : n \in S => n + 1 \in S
  <2> SUFFICES ASSUME NEW n \in Nat, n \in S, n + 1 \in 0 .. N PROVE at[n + 1] = f[n + 1]
    OBVIOUS
  <2>1. n \in 0 .. N /\ n + 1 \in 1 .. N /\ (n + 1) - 1 = n
    OBVIOUS
  <2>2. at[n] = f[n]
    BY <2>1
  <2> QED BY <1>3, <1>5, <2>1, <2>2
<1>9. Nat \subseteq S
  <2> HIDE DEF S
  <2> QED BY <1>7, <1>8, Upwards
<1>10. at[N] = f[N]
  BY <1>9
<1>11. f[N] = Cardinality(HeldBy(recs, tag, N))
  BY DEF f
<1>12. HeldBy(recs, tag, N) = Held(recs, tag)
  <2>1. \A a \in Address : a \in Nat
    BY DEF Address
  <2> QED BY <1>1, <2>1, HeldIs DEF HeldBy, Held
<1> QED BY <1>6, <1>10, <1>11, <1>12
LEMMA Greatest ==
    ASSUME NEW n \in Nat, NEW I, I \subseteq 1 .. n, I # {} PROVE \E i \in I : \A k \in I : k <= i
<1> DEFINE R == {n - i : i \in I}
<1>0. \A i \in I : i \in Int /\ n - i \in Nat
  OBVIOUS
<1>1. R \subseteq Nat /\ R # {}
  BY <1>0
<1>2. PICK r \in R : \A m \in R : r <= m
  <2> HIDE DEF R
  <2> QED BY <1>1, Least
<1>3. PICK i \in I : r = n - i
  OBVIOUS
<1>4. ASSUME NEW k \in I PROVE k <= i
  <2>1. r <= n - k
    BY <1>2
  <2> QED BY <1>0, <1>3, <2>1
<1> QED BY <1>4

(* usableRange is the hull of the free addresses.                           *)
LEMMA UsableRangeTells ==
    ASSUME NEW recs, Published(recs), Held(recs, FREE) # {}
    PROVE  UsableRange(recs) = [start |-> Min(Held(recs, FREE)),
                                size  |-> Max(Held(recs, FREE)) - Min(Held(recs, FREE)) + 1]
<1>0. FREE \in Tag
  BY TagAssumption
<1>1. PICK n \in Nat : n = Len(recs) /\ recs \in Seq(Record)
  BY PublishedFacts
<1>2. PICK I : I = {k \in 1 .. n : recs[k].tag = FREE}
  OBVIOUS
<1>3. I # {}
  <2>1. PICK a : a \in Held(recs, FREE)
    OBVIOUS
  <2>2. \E k \in 1 .. Len(recs) : recs[k].tag = FREE
    BY <1>0, <2>1, HeldIs
  <2> QED BY <1>1, <1>2, <2>2
<1>4. PICK i \in I : \A k \in I : i <= k
  <2>1. I \subseteq Nat
    BY <1>2
  <2> QED BY <1>3, <2>1, Least
<1>5. PICK j \in I : \A k \in I : k <= j
  <2>1. I \subseteq 1 .. n
    BY <1>2
  <2> QED BY <1>3, <2>1, Greatest
<1>6. i \in 1 .. n /\ j \in 1 .. n /\ recs[i].tag = FREE /\ recs[j].tag = FREE
  BY <1>2
<1>7. \A k \in I : /\ k \in 1 .. n /\ recs[k].start \in Nat /\ recs[k].size \in Nat /\ recs[k].size > 0
                   /\ End(recs[k]) = recs[k].start + recs[k].size
  BY <1>1, <1>2, PublishedFacts
<1>8. PICK lo \in Nat, hi \in Nat : lo = recs[i].start /\ hi = End(recs[j])
  <2>1. recs[i].start \in Nat /\ recs[j].start \in Nat /\ recs[j].size \in Nat
        /\ End(recs[j]) = recs[j].start + recs[j].size
    BY <1>7
  <2> QED BY <2>1
<1>9. \A k \in I : lo <= recs[k].start /\ End(recs[k]) <= hi
  <2> TAKE k \in I
  <2>1. i <= k /\ k <= j /\ i \in 1 .. n /\ j \in 1 .. n /\ k \in 1 .. n
    BY <1>4, <1>5, <1>6, <1>7
  <2>2. (i < k => End(recs[i]) <= recs[k].start) /\ (k < j => End(recs[k]) <= recs[j].start)
    BY <1>1, <2>1, PublishedFacts
  <2>3. /\ recs[i].start \in Nat /\ recs[i].size \in Nat /\ End(recs[i]) = recs[i].start + recs[i].size
        /\ recs[j].start \in Nat /\ recs[j].size \in Nat /\ End(recs[j]) = recs[j].start + recs[j].size
        /\ recs[k].start \in Nat /\ recs[k].size \in Nat /\ End(recs[k]) = recs[k].start + recs[k].size
    BY <1>7
  <2>4. lo <= recs[k].start
    <3>1. CASE i < k
      BY <1>8, <2>2, <2>3, <3>1
    <3>2. CASE i = k
      BY <1>8, <2>3, <3>2
    <3> QED BY <2>1, <3>1, <3>2
  <2>5. End(recs[k]) <= hi
    <3>1. CASE k < j
      BY <1>8, <2>2, <2>3, <3>1
    <3>2. CASE k = j
      BY <1>8, <2>3, <3>2
    <3> QED BY <2>1, <3>1, <3>2
  <2> QED BY <2>4, <2>5
<1>10. PICK free : free = {r \in ToSet(recs) : r.tag = FREE}
  OBVIOUS
<1>11. /\ \A r \in free : \E k \in I : r = recs[k]
       /\ \A k \in I : recs[k] \in free
  BY <1>1, <1>2, <1>10, Elements
<1>12. Min({r.start : r \in free}) = lo
  <2>1. PICK S : S = {r.start : r \in free}
    OBVIOUS
  <2>2. \A s \in S : s \in Int /\ lo <= s
    BY <1>7, <1>9, <1>11, <2>1
  <2>3. lo \in S
    BY <1>8, <1>11, <2>1
  <2>4. S \subseteq Int
    BY <2>2
  <2> QED BY <2>1, <2>2, <2>3, <2>4, MinIs
<1>13. Max({End(r) : r \in free}) = hi
  <2>1. PICK S : S = {End(r) : r \in free}
    OBVIOUS
  <2>2. \A k \in I : End(recs[k]) \in Int
    BY <1>7
  <2>3. \A s \in S : s \in Int /\ s <= hi
    BY <1>9, <1>11, <2>1, <2>2
  <2>4. hi \in S
    BY <1>8, <1>11, <2>1
  <2>5. S \subseteq Int
    BY <2>3
  <2> QED BY <2>1, <2>3, <2>4, <2>5, MaxIs
<1>14. free # {}
  BY <1>3, <1>11
<1>15. UsableRange(recs) = [start |-> lo, size |-> hi - lo]
  BY <1>10, <1>12, <1>13, <1>14 DEF UsableRange
<1>16. PICK held : held = Held(recs, FREE)
  OBVIOUS
<1>17. \A a \in held : a \in Nat /\ lo <= a /\ a < hi
  <2> TAKE a \in held
  <2>1. PICK k \in 1 .. n : recs[k].tag = FREE /\ recs[k].start <= a /\ a < End(recs[k]) /\ a \in Nat
    BY <1>0, <1>1, <1>16, HeldIs
  <2>2. k \in I
    BY <1>2, <2>1
  <2>3. lo <= recs[k].start /\ End(recs[k]) <= hi
        /\ recs[k].start \in Nat /\ recs[k].size \in Nat /\ End(recs[k]) = recs[k].start + recs[k].size
    BY <1>7, <1>9, <2>2
  <2> QED BY <2>1, <2>3
<1>18. lo \in held
  <2>1. recs[i].start <= lo /\ lo < End(recs[i])
    BY <1>7, <1>8
  <2> QED BY <1>0, <1>1, <1>6, <1>16, <2>1, HeldIs
<1>19. hi - 1 \in held
  <2>1. recs[j].start <= hi - 1 /\ hi - 1 < End(recs[j]) /\ hi - 1 \in Nat
    BY <1>7, <1>8
  <2>2. PICK a \in Nat : a = hi - 1
    BY <2>1
  <2> QED BY <1>0, <1>1, <1>6, <1>16, <2>1, <2>2, HeldIs
<1>20. held \subseteq Int
  BY <1>17
<1>21. Min(held) = lo
  BY <1>17, <1>18, <1>20, MinIs
<1>22. Max(held) = hi - 1
  <2>1. \A a \in held : a <= hi - 1
    BY <1>17
  <2> QED BY <1>19, <1>20, <2>1, MaxIs
<1>23. hi - lo = (hi - 1) - lo + 1
  OBVIOUS
<1> QED BY <1>15, <1>16, <1>21, <1>22, <1>23

-----------------------------------------------------------------------------
(* Until something is added, what was finalized is the list.                *)

FreshInv == fresh => todo = <<>> /\ len = Len(records)

LEMMA FreshStep ==
    ASSUME FreshInv, [Next]_vars PROVE FreshInv'
<1>1. CASE AddStep
  BY <1>1 DEF AddStep, SkipEmpty, PushBack, Stopped, MergePrevious, MergeNext, CarveRecord,
         CarveOther, DropColliding, InsertBefore, Working, Proceed, Panic, FreshInv
<1>2. CASE Client
  <2>1. ASSUME NEW tag \in Tag, NEW start \in Address, NEW size \in 0 .. MaxAddr, Add(tag, start, size)
        PROVE  FreshInv'
    BY <2>1 DEF Add, FreshInv
  <2>2. ASSUME NEW n \in StrLens, AddString(n) \/ Agent(n) PROVE FreshInv'
    BY <2>2 DEF AddString, Agent, PushString, Panic, FreshInv
  <2>3. ASSUME Finalize PROVE FreshInv'
    BY <2>3 DEF Finalize, Idle, FreshInv
  <2> QED BY <1>2, <2>1, <2>2, <2>3 DEF Client
<1>3. CASE UNCHANGED vars
  BY <1>3 DEF vars, FreshInv
<1> QED BY <1>1, <1>2, <1>3 DEF Next

(* Whatever a boot loader added in whatever order, the kernel's queries on  *)
(* the payload it is handed are true of the memory map: find returns the    *)
(* lowest run of FREE addresses that is long enough, findTag the lowest     *)
(* record of a tag, sum the number of its addresses and usableRange the     *)
(* hull of the FREE ones.                                                   *)
THEOREM QueriesAreTrue == Spec => []QueriesTellTheMap
<1>1. IInv /\ MapInv /\ FreshInv => QueriesTellTheMap
  <2> SUFFICES ASSUME IInv, MapInv, FreshInv, fresh PROVE QueriesTellTheMap
    BY DEF QueriesTellTheMap
  <2>1. /\ todo = <<>> /\ len = Len(records) /\ settled = OwnerOf(records) /\ Published(records)
    BY DEF FreshInv, MapInv, IInv, Published
  <2>2. PICK recs : recs = records
    OBVIOUS
  <2>3. Published(recs) /\ recs \in Seq(Record)
    BY <2>1, <2>2, PublishedFacts
  <2>4. SubSeq(records, 1, len) = recs
    BY <2>1, <2>2, <2>3
  <2> DEFINE free == {a \in Address : settled[a] = FREE}
             runs(n) == {a \in Address : a .. a + n - 1 \subseteq free}
  <2>5. free = Held(recs, FREE) /\ \A tag : {a \in Address : settled[a] = tag} = Held(recs, tag)
    BY <2>1, <2>2 DEF Held
  <2>6. \A n \in 1 .. MaxAddr :
           IF Runs(recs, n) = {} THEN Find(recs, n) = NoRecord
           ELSE Find(recs, n).start = Min(Runs(recs, n)) /\ Find(recs, n).size >= n
    <3> TAKE n \in 1 .. MaxAddr
    <3>1. n \in Nat /\ n > 0
      OBVIOUS
    <3> QED BY <2>3, <3>1, FindTells
  <2>7. \A n \in 1 .. MaxAddr : runs(n) = Runs(recs, n)
    BY <2>5 DEF Runs
  <2>8. \A tag \in Tag :
           /\ SumOf(recs, tag) = Cardinality(Held(recs, tag))
           /\ IF Held(recs, tag) = {} THEN FindTag(recs, tag) = 0
              ELSE FindTag(recs, tag) # 0 /\ recs[FindTag(recs, tag)].start = Min(Held(recs, tag))
    BY <2>3, SumTells, FindTagTells
  <2>9. Held(recs, FREE) # {} =>
           UsableRange(recs) = [start |-> Min(Held(recs, FREE)),
                                size  |-> Max(Held(recs, FREE)) - Min(Held(recs, FREE)) + 1]
    BY <2>3, UsableRangeTells
  <2> DEFINE p == SubSeq(records, 1, len)
  <2>10. \A n \in 1 .. MaxAddr :
            IF runs(n) = {} THEN Find(p, n) = NoRecord
            ELSE Find(p, n).start = Min(runs(n)) /\ Find(p, n).size >= n
    <3> HIDE DEF runs, p
    <3>1. p = recs
      BY <2>4 DEF p
    <3> QED BY <2>6, <2>7, <3>1
  <2>11. \A tag \in Tag :
            /\ SumOf(p, tag) = Cardinality({a \in Address : settled[a] = tag})
            /\ IF {a \in Address : settled[a] = tag} = {} THEN FindTag(p, tag) = 0
               ELSE /\ FindTag(p, tag) # 0
                    /\ p[FindTag(p, tag)].start = Min({a \in Address : settled[a] = tag})
    <3> HIDE DEF p
    <3> TAKE tag \in Tag
    <3>1. p = recs
      BY <2>4 DEF p
    <3>2. PICK held : held = {a \in Address : settled[a] = tag}
      OBVIOUS
    <3>3. held = Held(recs, tag)
      BY <2>5, <3>2
    <3>4. /\ SumOf(p, tag) = Cardinality(held)
          /\ IF held = {} THEN FindTag(p, tag) = 0
             ELSE FindTag(p, tag) # 0 /\ p[FindTag(p, tag)].start = Min(held)
      BY <2>8, <3>1, <3>3
    <3> QED BY <3>2, <3>4
  <2>12. free # {} => UsableRange(p) = [start |-> Min(free), size |-> Max(free) - Min(free) + 1]
    <3> HIDE DEF free, p
    <3>1. p = recs
      BY <2>4 DEF p
    <3> QED BY <2>5, <2>9, <3>1
  <2> QED BY <2>10, <2>11, <2>12, Zenon DEF QueriesTellTheMap
<1>2. Init => FreshInv
  BY DEF Init, FreshInv
<1>3. Init => IInv /\ MapInv
  BY IInvInit, MapInvInit
<1>4. IInv /\ MapInv /\ [Next]_vars => IInv' /\ MapInv'
  BY NextKeepsTheMap
<1>5. FreshInv /\ [Next]_vars => FreshInv'
  BY FreshStep
<1> QED BY <1>1, <1>2, <1>3, <1>4, <1>5, PTL DEF Spec
=============================================================================
