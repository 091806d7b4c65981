-------------------------- MODULE HandoverPayload --------------------------
(***************************************************************************)
(* Records of the handover payload (vaerk-handover/spec.cpp): an address  *)
(* range held by a tag, the range arithmetic the builder does on them,    *)
(* and the queries a kernel runs over the payload it is handed.  Ranges   *)
(* come from a memory map below 2^64, so no end wraps.  flags and the     *)
(* union of the record are carried along by the code and never read.      *)
(***************************************************************************)
EXTENDS Integers, Sequences, SequencesExt

CONSTANTS Tag, FREE, LOADER

ASSUME TagAssumption == FREE \in Tag /\ LOADER \in Tag /\ FREE # LOADER

(* The layout of the payload in bytes: four u32 of header, 32-byte records. *)
PayloadSize == 16
RecordSize  == 32

Record == [tag : Tag, start : Nat, size : Nat]

(* What Payload::find returns when nothing fits: a value-initialised Record. *)
NoRecord == [start |-> 0, size |-> 0]

End(r) == r.start + r.size

Extent(r) == r.start .. End(r) - 1

Collides(r, other) == r.start < End(other) /\ other.start < End(r)

(* Mutant: the lower part computed without asking whether there is one. *)
BelowUnclamped(r, other) == [r EXCEPT !.size = other.start - r.start]

(* The parts of r below and above other; a part may be empty. *)
Below(r, other) ==
    [r EXCEPT !.size = IF other.start > r.start THEN other.start - r.start ELSE 0]

Above(r, other) ==
    [tag   |-> r.tag,
     start |-> End(other),
     size  |-> IF End(r) > End(other) THEN End(r) - End(other) ELSE 0]

CollisionRank(tag) == IF tag = FREE THEN 0 ELSE IF tag = LOADER THEN 1 ELSE 2

-----------------------------------------------------------------------------
(* Queries over the published records p. *)

(* Mutant: a record of exactly the size asked for is passed over. *)
FindLarger(p, size) ==
    LET i == SelectInSeq(p, LAMBDA r : r.tag = FREE /\ r.size > size)
    IN  IF i = 0 THEN NoRecord ELSE [start |-> p[i].start, size |-> p[i].size]

Find(p, size) ==
    LET i == SelectInSeq(p, LAMBDA r : r.tag = FREE /\ r.size >= size)
    IN  IF i = 0 THEN NoRecord ELSE [start |-> p[i].start, size |-> p[i].size]

(* findTag: where the record is, 0 for none. *)
FindTag(p, tag) == SelectInSeq(p, LAMBDA r : r.tag = tag)

(* sum, record after record. *)
SumOf(p, tag) ==
    LET sum[n \in 0 .. Len(p)] ==
            IF n = 0 THEN 0 ELSE sum[n - 1] + (IF p[n].tag = tag THEN p[n].size ELSE 0)
    IN  sum[Len(p)]

UsableRange(p) ==
    LET free == {r \in ToSet(p) : r.tag = FREE}
        lo   == Min({r.start : r \in free})
        hi   == Max({End(r) : r \in free})
    IN  IF free = {} THEN [start |-> 0, size |-> 0]
        ELSE [start |-> lo, size |-> hi - lo]
=============================================================================
