-------------------------- MODULE DeviceTree_proofs --------------------------
(***************************************************************************)
(* Node::dump reads the tape from its first token to its last, whatever   *)
(* tree was flattened and however deep it nests, and a property is parsed *)
(* with the cells of the innermost node that says.                        *)
(***************************************************************************)
EXTENDS DeviceTree, WellFoundedInduction, FiniteSetTheorems, SequenceTheorems, TLAPS

-----------------------------------------------------------------------------
(* Induction, over a set of places in place of a predicate. *)

LEMMA Least ==
    ASSUME NEW S, S \subseteq Nat, S # {} PROVE \E n \in S : \A m \in S : n <= m
<1> DEFINE R == OpToRel(<, Nat)
<1>1. IsWellFoundedOn(R, Nat)
  BY NatLessThanWellFounded
<1>2. \A x, y \in Nat : y < x => <<y, x>> \in R
  BY DEF OpToRel
<1> HIDE DEF R
<1>3. \E x \in S : \A y \in S : ~(<<y, x>> \in R)
  BY <1>1, WFMin
<1>4. \E x \in S : \A y \in S : ~(y < x)
  BY <1>2, <1>3, Zenon
<1> QED BY <1>4

Inductive(S) == 0 \in S /\ \A n \in Nat : n \in S => n + 1 \in S

LEMMA Upwards == ASSUME NEW S, Inductive(S) PROVE Nat \subseteq S
<1> DEFINE rest == Nat \ S
<1>1. CASE rest = {}
  BY <1>1
<1>2. CASE rest # {}
  <2>1. PICK n \in rest : \A m \in rest : n <= m
    <3> HIDE DEF rest
    <3>1. rest \subseteq Nat
      BY DEF rest
    <3> QED BY <1>2, <3>1, Least
  <2>2. n # 0
    BY DEF Inductive
  <2>3. n - 1 \in Nat /\ n - 1 \in S
    BY <2>1, <2>2
  <2>4. (n - 1) + 1 \in S
    BY <2>3 DEF Inductive
  <2> QED BY <2>3, <2>4
<1> QED BY <1>1, <1>2

-----------------------------------------------------------------------------
(* Heights: every begin is one up, every end one down. *)

Weight(type) == IF type = "begin" THEN 1 ELSE IF type = "end" THEN -1 ELSE 0

Marks(t, type, k) == {j \in 1 .. k : t[j].type = type}

LEMMA CountOf ==
    ASSUME NEW t, NEW type, NEW k \in Nat
    PROVE  /\ Cardinality(Marks(t, type, k)) \in Nat /\ Cardinality(Marks(t, type, 0)) = 0
           /\ Cardinality(Marks(t, type, k + 1))
                = Cardinality(Marks(t, type, k)) + (IF t[k + 1].type = type THEN 1 ELSE 0)
<1>1. IsFiniteSet(Marks(t, type, k))
  <2>1. IsFiniteSet(1 .. k) /\ Marks(t, type, k) \subseteq 1 .. k
    BY FS_Interval DEF Marks
  <2> QED BY <2>1, FS_Subset
<1>2. Cardinality(Marks(t, type, k)) \in Nat
  BY <1>1, FS_CardinalityType
<1>3. Marks(t, type, 0) = {} /\ Cardinality({}) = 0
  BY FS_EmptySet DEF Marks
<1>4. k + 1 \notin Marks(t, type, k)
  BY DEF Marks
<1>5. CASE t[k + 1].type = type
  <2>1. Marks(t, type, k + 1) = Marks(t, type, k) \cup {k + 1}
    BY <1>5 DEF Marks
  <2>2. Cardinality(Marks(t, type, k) \cup {k + 1}) = Cardinality(Marks(t, type, k)) + 1
    BY <1>1, <1>4, FS_AddElement
  <2> QED BY <1>2, <1>3, <1>5, <2>1, <2>2
<1>6. CASE t[k + 1].type # type
  <2>1. Marks(t, type, k + 1) = Marks(t, type, k)
    BY <1>6 DEF Marks
  <2> QED BY <1>2, <1>3, <1>6, <2>1
<1> QED BY <1>5, <1>6

LEMMA HeightIs ==
    ASSUME NEW t, NEW k \in Nat
    PROVE  Height(t, k) \in Int /\ Height(t, 0) = 0 /\ Height(t, k + 1) = Height(t, k) + Weight(t[k + 1].type)
<1> DEFINE count(type, n) == Cardinality(Marks(t, type, n))
<1>1. ASSUME NEW type
      PROVE  /\ count(type, k) \in Nat /\ count(type, 0) = 0
             /\ count(type, k + 1) = count(type, k) + (IF t[k + 1].type = type THEN 1 ELSE 0)
  BY CountOf
<1>2. \A n : Height(t, n) = count("begin", n) - count("end", n)
  BY DEF Height, Marks
<1> HIDE DEF count
<1>3. /\ count("begin", k) \in Nat /\ count("begin", 0) = 0
      /\ count("begin", k + 1) = count("begin", k) + (IF t[k + 1].type = "begin" THEN 1 ELSE 0)
  BY <1>1
<1>4. /\ count("end", k) \in Nat /\ count("end", 0) = 0
      /\ count("end", k + 1) = count("end", k) + (IF t[k + 1].type = "end" THEN 1 ELSE 0)
  BY <1>1
<1> QED BY <1>2, <1>3, <1>4 DEF Weight

(* What is written later changes no height before it.                       *)
LEMMA HeightKept ==
    ASSUME NEW t, NEW u, NEW k \in Nat, \A j \in 1 .. k : u[j] = t[j]
    PROVE  Height(u, k) = Height(t, k)
<1> DEFINE of(s, type) == {j \in 1 .. k : s[j].type = type}
<1>1. \A type : of(u, type) = of(t, type)
  OBVIOUS
<1>2. \A s : Height(s, k) = Cardinality(of(s, "begin")) - Cardinality(of(s, "end"))
  BY DEF Height
<1> HIDE DEF of
<1> QED BY <1>1, <1>2

-----------------------------------------------------------------------------
(* The tape a flattener writes. *)

Kinds == {"begin", "end", "prop", "nop"}
Tokens == [type : Kinds, cells : CellCounts \cup {NoCells}]

(* No node ends before it begins, there is one root, and properties come    *)
(* after the begin of their node or other properties.                       *)
WellWritten(t, height) ==
    /\ t \in Seq(Tokens)
    /\ \A k \in 0 .. Len(t) : Height(t, k) >= 0
    /\ height = Height(t, Len(t))
    /\ \A k \in 1 .. Len(t) : t[k].type = "begin" /\ Height(t, k - 1) = 0
          => \A j \in 1 .. k - 1 : t[j].type = "nop"
    /\ \A k \in 1 .. Len(t) : t[k].type = "prop"
          => \E j \in 1 .. k - 1 : /\ t[j].type \in {"begin", "prop"}
                                   /\ \A m \in j + 1 .. k - 1 : t[m].type = "nop"

LEMMA NothingWritten == WellWritten(<<>>, 0)
<1>1. Height(<<>>, 0) = 0
  BY HeightIs
<1> QED BY <1>1 DEF WellWritten

LEMMA Written ==
    ASSUME NEW t, NEW height, WellWritten(t, height), NEW token \in Tokens,
           token.type = "begin" => height > 0 \/ \A j \in 1 .. Len(t) : t[j].type = "nop",
           token.type = "end" => height > 0,
           token.type = "prop" => \E j \in 1 .. Len(t) : /\ t[j].type \in {"begin", "prop"}
                                                         /\ \A m \in j + 1 .. Len(t) : t[m].type = "nop"
    PROVE  WellWritten(Append(t, token), height + Weight(token.type))
<1>1. PICK u, n : u = Append(t, token) /\ n = Len(t)
  OBVIOUS
<1>2. t \in Seq(Tokens) /\ n \in Nat
  BY <1>1 DEF WellWritten
<1>3. u \in Seq(Tokens) /\ Len(u) = n + 1 /\ u[n + 1] = token /\ \A j \in 1 .. n : u[j] = t[j]
  BY <1>1, <1>2
<1>4. \A k \in 0 .. n : Height(u, k) = Height(t, k) /\ Height(t, k) \in Int
  <2>1. ASSUME NEW k \in 0 .. n PROVE Height(u, k) = Height(t, k) /\ Height(t, k) \in Int
    <3>1. k \in Nat /\ \A j \in 1 .. k : u[j] = t[j]
      BY <1>2, <1>3
    <3> QED BY <3>1, HeightKept, HeightIs
  <2> QED BY <2>1
<1>5. Height(u, n + 1) = height + Weight(token.type) /\ height = Height(t, n) /\ height \in Int /\ height >= 0
  <2>1. Height(u, n + 1) = Height(u, n) + Weight(token.type)
    BY <1>2, <1>3, HeightIs
  <2> QED BY <1>1, <1>2, <1>4, <2>1 DEF WellWritten
<1>6. \A k : k \in 1 .. n + 1 <=> (k \in 1 .. n \/ k = n + 1)
  BY <1>2
<1>7. \A k \in 0 .. n + 1 : Height(u, k) >= 0
  <2>1. \A k \in 0 .. n : Height(u, k) >= 0
    BY <1>1, <1>4 DEF WellWritten
  <2>2. Height(u, n + 1) >= 0
    BY <1>5 DEF Weight
  <2> QED BY <1>2, <2>1, <2>2
<1>8. \A k \in 1 .. n + 1 : u[k].type = "begin" /\ Height(u, k - 1) = 0 => \A j \in 1 .. k - 1 : u[j].type = "nop"
  <2>1. ASSUME NEW k \in 1 .. n, u[k].type = "begin", Height(u, k - 1) = 0, NEW j \in 1 .. k - 1
        PROVE  u[j].type = "nop"
    <3>1. u[k] = t[k] /\ u[j] = t[j] /\ Height(u, k - 1) = Height(t, k - 1)
      BY <1>2, <1>3, <1>4
    <3> QED BY <1>1, <2>1, <3>1 DEF WellWritten
  <2>2. ASSUME token.type = "begin", Height(u, n) = 0, NEW j \in 1 .. n PROVE u[j].type = "nop"
    <3>1. height = 0
      BY <1>2, <1>4, <1>5, <2>2
    <3> QED BY <1>1, <1>3, <2>2, <3>1
  <2>3. (n + 1) - 1 = n
    BY <1>2
  <2> QED BY <1>3, <1>6, <2>1, <2>2, <2>3
<1>9. \A k \in 1 .. n + 1 : u[k].type = "prop"
          => \E j \in 1 .. k - 1 : /\ u[j].type \in {"begin", "prop"}
                                   /\ \A m \in j + 1 .. k - 1 : u[m].type = "nop"
  <2>1. ASSUME NEW k \in 1 .. n, u[k].type = "prop"
        PROVE  \E j \in 1 .. k - 1 : /\ u[j].type \in {"begin", "prop"}
                                     /\ \A m \in j + 1 .. k - 1 : u[m].type = "nop"
    <3>1. t[k].type = "prop"
      BY <1>3, <2>1
    <3>2. PICK j \in 1 .. k - 1 : t[j].type \in {"begin", "prop"} /\ \A m \in j + 1 .. k - 1 : t[m].type = "nop"
      BY <1>1, <3>1 DEF WellWritten
    <3>3. u[j] = t[j] /\ \A m \in j + 1 .. k - 1 : u[m] = t[m]
      BY <1>2, <1>3
    <3> QED BY <3>2, <3>3
  <2>2. ASSUME token.type = "prop"
        PROVE  \E j \in 1 .. n : /\ u[j].type \in {"begin", "prop"}
                                 /\ \A m \in j + 1 .. n : u[m].type = "nop"
    <3>1. PICK j \in 1 .. n : t[j].type \in {"begin", "prop"} /\ \A m \in j + 1 .. n : t[m].type = "nop"
      BY <1>1, <2>2
    <3>2. u[j] = t[j] /\ \A m \in j + 1 .. n : u[m] = t[m]
      BY <1>2, <1>3
    <3> QED BY <3>1, <3>2
  <2>3. (n + 1) - 1 = n
    BY <1>2
  <2> QED BY <1>3, <1>6, <2>1, <2>2, <2>3
<1> QED BY <1>1, <1>3, <1>5, <1>7, <1>8, <1>9 DEF WellWritten

(* On a complete tape with no NOP out of place, the root comes first and a  *)
(* property right after the begin of its node or another property.          *)
TidyTape ==
    /\ WellWritten(tape, 0) /\ Len(tape) \in Nat /\ Len(tape) > 0
    /\ tape[1].type = "begin"
    /\ \A k \in 1 .. Len(tape) :
          /\ tape[k].type = "prop" => k > 1 /\ tape[k - 1].type \in {"begin", "prop"}
          /\ tape[k].type = "begin" /\ Height(tape, k - 1) = 0 => k = 1

LEMMA TidyIs == ASSUME WellWritten(tape, 0), ~OnlyNops, Tidy PROVE TidyTape
<1>1. /\ tape \in Seq(Tokens) /\ Len(tape) \in Nat /\ DOMAIN tape = 1 .. Len(tape)
      /\ \A k \in 1 .. Len(tape) : tape[k].type \in Kinds
  <2>1. tape \in Seq(Tokens) /\ Len(tape) \in Nat /\ DOMAIN tape = 1 .. Len(tape)
    BY DEF WellWritten
  <2>2. \A k \in 1 .. Len(tape) : tape[k] \in Tokens
    BY <2>1
  <2> QED BY <2>1, <2>2 DEF Tokens
<1>2. Len(tape) > 0
  BY <1>1 DEF OnlyNops
<1>3. \A k \in 1 .. Len(tape) : ~Misplaced(k)
  BY <1>1 DEF Tidy
<1>4. tape[1].type # "nop"
  <2>1. ~Misplaced(1) /\ \A k \in 1 .. 1 : k = 1
    BY <1>2, <1>3
  <2> QED BY <2>1 DEF Misplaced
<1>5. ASSUME NEW k \in 1 .. Len(tape), tape[k].type = "prop"
      PROVE  k > 1 /\ tape[k - 1].type \in {"begin", "prop"}
  <2>1. PICK j \in 1 .. k - 1 : tape[j].type \in {"begin", "prop"} /\ \A m \in j + 1 .. k - 1 : tape[m].type = "nop"
    BY <1>5 DEF WellWritten
  <2>2. CASE j = k - 1
    BY <2>1, <2>2
  <2>3. CASE j < k - 1
    <3>1. k - 1 \in j + 1 .. k - 1 /\ k - 1 \in 1 .. Len(tape) /\ k \in (k - 1) + 1 .. Len(tape)
      BY <2>3
    <3>2. tape[k - 1].type = "nop"
      BY <2>1, <3>1
    <3>3. \A m \in k - 1 .. k : tape[m].type \in {"nop", "prop"}
      BY <1>5, <3>2
    <3>4. Misplaced(k - 1)
      BY <1>5, <3>1, <3>2, <3>3 DEF Misplaced
    <3> QED BY <1>3, <3>1, <3>4
  <2> QED BY <2>1, <2>2, <2>3
<1>6. ASSUME NEW k \in 1 .. Len(tape), tape[k].type = "begin", Height(tape, k - 1) = 0 PROVE k = 1
  <2>1. \A j \in 1 .. k - 1 : tape[j].type = "nop"
    BY <1>6 DEF WellWritten
  <2> QED BY <1>4, <2>1
<1>7. tape[1].type = "begin"
  <2>1. tape[1].type # "prop"
    BY <1>1, <1>2, <1>5
  <2>2. tape[1].type # "end"
    <3>1. Height(tape, 0) = 0 /\ Height(tape, 0 + 1) = Height(tape, 0) + Weight(tape[0 + 1].type)
      BY HeightIs
    <3>2. Height(tape, 1) >= 0
      BY <1>2 DEF WellWritten
    <3> QED BY <3>1, <3>2 DEF Weight
  <2> QED BY <1>1, <1>2, <1>4, <2>1, <2>2 DEF Kinds
<1> QED BY <1>1, <1>2, <1>5, <1>6, <1>7 DEF TidyTape

-----------------------------------------------------------------------------
(* What the iterators see. *)

H(k) == Height(tape, k)

LEMMA Heights ==
    ASSUME TidyTape
    PROVE  /\ \A k \in 0 .. Len(tape) : H(k) \in Nat
           /\ H(0) = 0 /\ H(Len(tape)) = 0 /\ H(1) = 1
           /\ \A k \in 1 .. Len(tape) : /\ tape[k].type \in Kinds
                                        /\ H(k) = H(k - 1) + Weight(tape[k].type)
<1>1. Len(tape) \in Nat /\ tape \in Seq(Tokens)
  BY DEF TidyTape, WellWritten
<1>2. \A k \in 0 .. Len(tape) : H(k) \in Nat
  <2>1. ASSUME NEW k \in 0 .. Len(tape) PROVE H(k) \in Nat
    <3>1. Height(tape, k) >= 0 /\ Height(tape, k) \in Int
      BY <1>1, HeightIs DEF TidyTape, WellWritten
    <3> QED BY <3>1 DEF H
  <2> QED BY <2>1
<1>3. ASSUME NEW k \in 1 .. Len(tape)
      PROVE  tape[k].type \in Kinds /\ H(k) = H(k - 1) + Weight(tape[k].type)
  <2>1. tape[k] \in Tokens
    BY <1>1
  <2>2. PICK j \in Nat : j = k - 1
    BY <1>1
  <2>3. Height(tape, j + 1) = Height(tape, j) + Weight(tape[j + 1].type)
    BY HeightIs
  <2>4. j + 1 = k
    BY <1>1, <2>2
  <2> QED BY <2>1, <2>2, <2>3, <2>4 DEF H, Tokens
<1>4. H(0) = 0 /\ H(Len(tape)) = 0
  BY HeightIs DEF H, TidyTape, WellWritten
<1>5. H(1) = 1
  <2>1. 1 \in 1 .. Len(tape) /\ 1 - 1 = 0 /\ tape[1].type = "begin"
    BY DEF TidyTape
  <2> QED BY <1>3, <1>4, <2>1 DEF Weight
<1> QED BY <1>2, <1>3, <1>4, <1>5

(* Over NOPs and properties the height stays.                               *)
LEMMA Flat ==
    ASSUME TidyTape, NEW a \in 0 .. Len(tape), NEW b \in a .. Len(tape),
           \A m \in a + 1 .. b : tape[m].type \in {"nop", "prop"}
    PROVE  \A m \in a .. b : H(m) = H(a)
<1>0. Len(tape) \in Nat /\ a \in Nat /\ b \in Nat
  BY DEF TidyTape
<1> DEFINE S == {n \in Nat : a + n <= b => H(a + n) = H(a)}
<1>1. 0 \in S
  BY <1>0
<1>2. ASSUME NEW n \in Nat, n \in S PROVE n + 1 \in S
  <2> SUFFICES ASSUME a + (n + 1) <= b PROVE H(a + (n + 1)) = H(a)
    OBVIOUS
  <2>1. PICK m : m = a + (n + 1)
    OBVIOUS
  <2>2. m \in a + 1 .. b /\ m \in 1 .. Len(tape) /\ m - 1 = a + n /\ a + n <= b
    BY <1>0, <2>1
  <2>3. H(m) = H(m - 1) + Weight(tape[m].type) /\ tape[m].type \in {"nop", "prop"}
    BY <2>2, Heights
  <2>4. H(a + n) = H(a)
    BY <1>2, <2>2
  <2>5. m - 1 \in 0 .. Len(tape)
    BY <1>0, <2>2
  <2>6. H(m - 1) \in Nat
    BY <2>5, Heights
  <2> QED BY <2>1, <2>2, <2>3, <2>4, <2>6 DEF Weight
<1>3. Inductive(S)
  <2> HIDE DEF S
  <2> QED BY <1>1, <1>2, Zenon DEF Inductive
<1>4. Nat \subseteq S
  <2> HIDE DEF S
  <2> QED BY <1>3, Upwards
<1>5. ASSUME NEW m \in a .. b PROVE H(m) = H(a)
  <2>1. PICK n \in Nat : a + n = m
    <3>1. m - a \in Nat /\ a + (m - a) = m
      BY <1>0
    <3> QED BY <3>1
  <2>2. n \in S /\ a + n <= b
    <3>1. n \in S
      <4> HIDE DEF S
      <4> QED BY <1>4
    <3> QED BY <1>0, <2>1, <3>1
  <2> QED BY <2>1, <2>2
<1> QED BY <1>5

(* Behind the last property read, only NOPs come before the next begin or   *)
(* end, and inside a node there is one.                                     *)
LEMMA NextStop ==
    ASSUME TidyTape, NEW F \in 1 .. Len(tape), H(F) > 0, TypeAt(F + 1) # "prop"
    PROVE  \E j \in F + 1 .. Len(tape) :
              /\ tape[j].type \in {"begin", "end"}
              /\ \A m \in F + 1 .. j - 1 : tape[m].type = "nop"
              /\ \A m \in F .. j - 1 : H(m) = H(F)
<1>0. Len(tape) \in Nat /\ F \in Nat
  BY DEF TidyTape
<1> DEFINE S == {j \in F + 1 .. Len(tape) : tape[j].type # "nop"}
<1>1. S # {}
  <2> SUFFICES ASSUME S = {} PROVE FALSE
    OBVIOUS
  <2>1. \A m \in F + 1 .. Len(tape) : tape[m].type = "nop"
    OBVIOUS
  <2>2. F \in 0 .. Len(tape) /\ Len(tape) \in F .. Len(tape)
    BY <1>0
  <2>3. H(Len(tape)) = H(F)
    BY <2>1, <2>2, Flat
  <2>4. H(Len(tape)) = 0
    BY Heights
  <2> QED BY <2>3, <2>4
<1>2. PICK j \in S : \A m \in S : j <= m
  <2>1. S \subseteq Nat
    BY <1>0
  <2> HIDE DEF S
  <2> QED BY <1>1, <2>1, Least
<1>3. j \in F + 1 .. Len(tape) /\ j \in 1 .. Len(tape) /\ tape[j].type # "nop"
  BY <1>0
<1>4. \A m \in F + 1 .. j - 1 : tape[m].type = "nop"
  BY <1>0, <1>2
<1>5. tape[j].type # "prop"
  <2> SUFFICES ASSUME tape[j].type = "prop" PROVE FALSE
    OBVIOUS
  <2>1. CASE j = F + 1
    BY <1>0, <1>3, <2>1 DEF TypeAt
  <2>2. CASE j > F + 1
    <3>1. j - 1 \in F + 1 .. j - 1
      BY <1>0, <1>3, <2>2
    <3>2. tape[j - 1].type = "nop"
      BY <1>4, <3>1
    <3> QED BY <1>3, <3>2 DEF TidyTape
  <2> QED BY <1>0, <1>3, <2>1, <2>2
<1>6. tape[j].type \in {"begin", "end"}
  BY <1>3, <1>5, Heights DEF Kinds
<1>7. \A m \in F .. j - 1 : H(m) = H(F)
  <2>1. F \in 0 .. Len(tape) /\ j - 1 \in F .. Len(tape)
    BY <1>0, <1>3
  <2> HIDE DEF S
  <2> QED BY <1>4, <2>1, Flat
<1> QED BY <1>3, <1>4, <1>6, <1>7

(* Where next of a ChildrenIter stops.                                      *)
LEMMA ChildNextIs ==
    ASSUME TidyTape, NEW start, NEW j \in 1 .. Len(tape), start.at \in 1 .. j,
           tape[j].type \in {"begin", "end"}, start.depth + H(j - 1) - H(start.at - 1) = 0,
           \A m \in start.at .. j - 1 :
               start.depth + H(m - 1) - H(start.at - 1) = 0 => tape[m].type \notin {"begin", "end"}
    PROVE  /\ ChildNext(start).at = j
           /\ tape[j].type = "begin" =>
                 /\ ChildNext(start).found
                 /\ ChildNext(start).iter = [at |-> j + 1, depth |-> 1]
           /\ tape[j].type = "end" => ~ChildNext(start).found
<1> DEFINE depth(at) == start.depth + Height(tape, at - 1) - Height(tape, start.at - 1)
           stops(at) == \/ TypeAt(at) = "none"
                        \/ TypeAt(at) \in {"begin", "end"} /\ depth(at) = 0
           First(at) == stops(at) /\ \A k \in start.at .. at - 1 : ~stops(k)
           stop  == CHOOSE at \in start.at .. Len(tape) + 1 : First(at)
           found == TypeAt(stop) = "begin"
<1>0. Len(tape) \in Nat /\ j \in Nat /\ start.at \in Nat
  BY DEF TidyTape
<1>1. First(j)
  <2>1. stops(j)
    BY <1>0 DEF TypeAt, H
  <2>2. ASSUME NEW k \in start.at .. j - 1 PROVE ~stops(k)
    <3>1. k \in 1 .. Len(tape) /\ k <= Len(tape)
      BY <1>0
    <3>2. TypeAt(k) = tape[k].type /\ tape[k].type # "none"
      BY <3>1, Heights DEF TypeAt, Kinds
    <3> QED BY <3>2 DEF H
  <2> QED BY <2>1, <2>2
<1>2. j \in start.at .. Len(tape) + 1
  BY <1>0
<1>3. ASSUME NEW a \in start.at .. Len(tape) + 1, NEW b \in start.at .. Len(tape) + 1, First(a), First(b)
      PROVE  a = b
  <2> HIDE DEF stops
  <2>1. ~(a < b) /\ ~(b < a)
    BY <1>0, <1>3
  <2> QED BY <1>0, <2>1
<1>4. stop = j
  <2> HIDE DEF First
  <2>1. stop \in start.at .. Len(tape) + 1 /\ First(stop)
    BY <1>1, <1>2
  <2> HIDE DEF stop
  <2> QED BY <1>1, <1>2, <1>3, <2>1
<1>5. ChildNext(start) = [found |-> found, at |-> stop,
                          iter |-> [at |-> stop + 1, depth |-> IF found THEN 1 ELSE depth(stop)]]
  BY Zenon DEF ChildNext
<1>6. TypeAt(j) = tape[j].type
  BY <1>0 DEF TypeAt
<1>7. found <=> tape[j].type = "begin"
  <2> HIDE DEF stop
  <2> QED BY <1>4, <1>6
<1> HIDE DEF stop, found, depth
<1> QED BY <1>4, <1>5, <1>7

-----------------------------------------------------------------------------
(* The nodes around a place, and the cells they give. *)

CellsAmong(nodes) ==
    LET givers == {n \in nodes : OwnCells(n) # NoCells}
        inner  == CHOOSE n \in givers : \A m \in givers : m <= n
    IN  IF givers = {} THEN DefaultCells ELSE OwnCells(inner)
CellsAt(at) == CellsAmong(Enclosing(at))

(* Within a node and outside its children, the nodes around are the same.   *)
LEMMA SameNodes ==
    ASSUME TidyTape, NEW n \in 1 .. Len(tape), NEW at \in n .. Len(tape), tape[n].type = "begin",
           H(at) = H(n), \A j \in n .. at : H(j) >= H(n)
    PROVE  Enclosing(at) = Enclosing(n)
<1>0. /\ Len(tape) \in Nat /\ n \in Nat /\ at \in Nat /\ \A k \in 0 .. Len(tape) : H(k) \in Nat
      /\ \A k \in 1 .. Len(tape) : tape[k].type = "begin" => H(k) = H(k - 1) + 1
  BY Heights DEF TidyTape, Weight
<1>1. ASSUME NEW m \in Enclosing(n) PROVE m \in Enclosing(at)
  <2>1. m \in 1 .. n /\ tape[m].type = "begin" /\ \A k \in m .. n : H(k) > H(m - 1)
    BY DEF Enclosing, H
  <2>2. ASSUME NEW k \in m .. at PROVE H(k) > H(m - 1)
    <3>1. CASE k <= n
      BY <1>0, <2>1, <3>1
    <3>2. CASE k > n
      <4>1. k \in n .. at /\ k \in 0 .. Len(tape) /\ m - 1 \in 0 .. Len(tape) /\ n \in 0 .. Len(tape)
            /\ n \in m .. n
        BY <1>0, <2>1, <3>2
      <4>2. H(k) >= H(n) /\ H(n) > H(m - 1)
        BY <2>1, <4>1
      <4>3. H(k) \in Nat /\ H(n) \in Nat /\ H(m - 1) \in Nat
        BY <1>0, <4>1
      <4> QED BY <4>2, <4>3
    <3> QED BY <1>0, <2>1, <3>1, <3>2
  <2>3. m \in 1 .. at
    BY <1>0, <2>1
  <2> QED BY <2>1, <2>2, <2>3 DEF Enclosing, H
<1>2. ASSUME NEW m \in Enclosing(at) PROVE m \in Enclosing(n)
  <2>1. m \in 1 .. at /\ tape[m].type = "begin" /\ \A k \in m .. at : H(k) > H(m - 1)
    BY DEF Enclosing, H
  <2>2. CASE m <= n
    <3>1. m \in 1 .. n /\ \A k \in m .. n : k \in m .. at
      BY <1>0, <2>1, <2>2
    <3> QED BY <2>1, <3>1 DEF Enclosing, H
  <2>3. CASE m > n
    <3>1. m - 1 \in n .. at /\ at \in m .. at /\ m - 1 \in 0 .. Len(tape) /\ n \in 0 .. Len(tape)
      BY <1>0, <2>1, <2>3
    <3>2. H(m - 1) >= H(n) /\ H(at) > H(m - 1) /\ H(n) \in Nat /\ H(m - 1) \in Nat
      BY <1>0, <2>1, <3>1
    <3> QED BY <3>2
  <2> QED BY <1>0, <2>1, <2>2, <2>3
<1> QED BY <1>1, <1>2

(* A child is one more.                                                     *)
LEMMA ChildNodes ==
    ASSUME TidyTape, NEW at \in 1 .. Len(tape), tape[at].type = "begin"
    PROVE  at \notin Enclosing(at - 1) /\ Enclosing(at) = Enclosing(at - 1) \cup {at}
           /\ \A m \in Enclosing(at - 1) : m < at
<1>0. /\ Len(tape) \in Nat /\ at \in Nat /\ \A k \in 0 .. Len(tape) : H(k) \in Nat
      /\ H(at) = H(at - 1) + 1
  BY Heights DEF TidyTape, Weight
<1>1. \A m \in Enclosing(at - 1) : m \in 1 .. at - 1
  BY DEF Enclosing
<1>2. ASSUME NEW m \in Enclosing(at - 1) PROVE m \in Enclosing(at)
  <2>1. m \in 1 .. at - 1 /\ tape[m].type = "begin" /\ \A k \in m .. at - 1 : H(k) > H(m - 1)
    BY DEF Enclosing, H
  <2>2. m - 1 \in 0 .. Len(tape) /\ at - 1 \in m .. at - 1 /\ at - 1 \in 0 .. Len(tape) /\ m \in 1 .. at
    BY <1>0, <2>1
  <2>3. H(at) > H(m - 1)
    BY <1>0, <2>1, <2>2
  <2>4. \A k \in m .. at : k \in m .. at - 1 \/ k = at
    BY <1>0, <2>1
  <2> QED BY <2>1, <2>2, <2>3, <2>4 DEF Enclosing, H
<1>3. at \in Enclosing(at)
  <2>1. at - 1 \in 0 .. Len(tape) /\ at \in 1 .. at /\ \A k \in at .. at : k = at
    BY <1>0
  <2>2. H(at) > H(at - 1)
    BY <1>0, <2>1
  <2> QED BY <2>1, <2>2 DEF Enclosing, H
<1>4. ASSUME NEW m \in Enclosing(at), m # at PROVE m \in Enclosing(at - 1)
  <2>1. m \in 1 .. at /\ tape[m].type = "begin" /\ \A k \in m .. at : H(k) > H(m - 1)
    BY DEF Enclosing, H
  <2>2. m \in 1 .. at - 1 /\ \A k \in m .. at - 1 : k \in m .. at
    BY <1>0, <1>4, <2>1
  <2> QED BY <2>1, <2>2 DEF Enclosing, H
<1> QED BY <1>0, <1>1, <1>2, <1>3, <1>4

LEMMA NodeCells ==
    ASSUME TidyTape, NEW at \in 1 .. Len(tape), tape[at].type = "begin"
    PROVE  Node(at, CellsAt(at - 1)).cells = CellsAt(at)
<1>1. PICK own : own = OwnCells(at)
  OBVIOUS
<1>2. Node(at, CellsAt(at - 1)).cells = IF own = NoCells THEN CellsAt(at - 1) ELSE own
  BY <1>1 DEF Node
<1> DEFINE giversAt(p) == {n \in Enclosing(p) : OwnCells(n) # NoCells}
           innerAt(p) == CHOOSE n \in giversAt(p) : \A m \in giversAt(p) : m <= n
<1>3. \A p : CellsAt(p) = IF giversAt(p) = {} THEN DefaultCells ELSE OwnCells(innerAt(p))
  BY Zenon DEF CellsAt, CellsAmong
<1>4. CASE own = NoCells
  <2>1. giversAt(at) = giversAt(at - 1)
    BY <1>1, <1>4, ChildNodes
  <2>2. innerAt(at) = innerAt(at - 1)
    <3> HIDE DEF giversAt
    <3> QED BY <2>1
  <2> HIDE DEF giversAt, innerAt
  <2>3. CellsAt(at) = CellsAt(at - 1)
    BY <1>3, <2>1, <2>2, Zenon
  <2> QED BY <1>2, <1>4, <2>3
<1>5. CASE own # NoCells
  <2>1. at \in giversAt(at) /\ \A m \in giversAt(at) : m <= at /\ m \in Nat /\ at \in Nat
    <3>1. \A m \in Enclosing(at) : m \in 1 .. at
      BY DEF Enclosing
    <3>2. Len(tape) \in Nat
      BY DEF TidyTape
    <3> QED BY <1>1, <1>5, <3>1, <3>2, ChildNodes
  <2>2. innerAt(at) = at
    <3> HIDE DEF giversAt
    <3>1. innerAt(at) \in giversAt(at) /\ \A m \in giversAt(at) : m <= innerAt(at)
      BY <2>1
    <3> HIDE DEF innerAt
    <3> QED BY <2>1, <3>1
  <2> HIDE DEF giversAt, innerAt
  <2> QED BY <1>1, <1>2, <1>3, <1>5, <2>1, <2>2
<1> QED BY <1>4, <1>5

-----------------------------------------------------------------------------
(* The places of the first tokens. *)

Placed(k, before) ==
    IF k <= 1 THEN <<>> ELSE IF tape[k].type \in {"begin", "prop"} THEN Append(before, k) ELSE before

LEMMA PlacesIs ==
    ASSUME Len(tape) \in Nat
    PROVE  \A k \in 0 .. Len(tape) : Places[k] = Placed(k, Places[k - 1])
<1> DEFINE Loops(f, n) == f = [k \in 0 .. n |-> Placed(k, f[k - 1])]
           S == {n \in Nat : \E f : Loops(f, n)}
<1>0. \A before : Placed(0, before) = <<>>
  BY DEF Placed
<1>1. 0 \in S
  <2>1. Loops([k \in 0 .. 0 |-> <<>>], 0)
    BY <1>0
  <2> QED BY <2>1
<1>2. ASSUME NEW n \in Nat, n \in S PROVE n + 1 \in S
  <2>1. PICK f : Loops(f, n)
    BY <1>2
  <2> DEFINE g == [k \in 0 .. n + 1 |-> IF k = n + 1 THEN Placed(n + 1, f[n]) ELSE f[k]]
  <2>2. ASSUME NEW k \in 0 .. n + 1 PROVE g[k] = Placed(k, g[k - 1])
    <3>1. CASE k = 0
      BY <1>0, <2>1, <3>1
    <3>2. CASE k \in 1 .. n
      <4>1. g[k] = f[k] /\ g[k - 1] = f[k - 1] /\ k \in 0 .. n
        BY <3>2
      <4>2. f[k] = Placed(k, f[k - 1])
        BY <2>1, <4>1
      <4> QED BY <4>1, <4>2
    <3>3. CASE k = n + 1
      BY <3>3
    <3> QED BY <3>1, <3>2, <3>3
  <2>3. Loops(g, n + 1)
    <3>1. g = [k \in 0 .. n + 1 |-> g[k]]
      OBVIOUS
    <3> HIDE DEF g
    <3> QED BY <2>2, <3>1
  <2>4. Loops(g, n + 1) /\ n + 1 \in Nat
    BY <2>3
  <2> QED BY <2>4, Zenon
<1>3. Len(tape) \in S
  <2>1. Inductive(S)
    <3> HIDE DEF S
    <3> QED BY <1>1, <1>2, Zenon DEF Inductive
  <2> HIDE DEF S
  <2> QED BY <2>1, Upwards
<1>4. PICK f : Loops(f, Len(tape))
  BY <1>3
<1> DEFINE at == CHOOSE g : Loops(g, Len(tape))
<1>5. Loops(at, Len(tape))
  BY <1>4
<1>6. Places = at
  BY DEF Places, Placed
<1> HIDE DEF at
<1> QED BY <1>5, <1>6

Extends(s, t) == Len(s) <= Len(t) /\ \A k \in 1 .. Len(s) : s[k] = t[k]

LEMMA PrefixIs ==
    ASSUME NEW s \in Seq(Nat), NEW t \in Seq(Nat), Extends(s, t)
    PROVE  IsPrefix(s, t)
BY DEF Extends, IsPrefix

LEMMA PlacesAre ==
    ASSUME TidyTape
    PROVE  /\ \A k \in 0 .. Len(tape) : Places[k] \in Seq(Nat)
           /\ Places[1] = <<>>
           /\ \A k \in 2 .. Len(tape) :
                 Places[k] = IF tape[k].type \in {"begin", "prop"} THEN Append(Places[k - 1], k) ELSE Places[k - 1]
<1>0. Len(tape) \in Nat /\ Len(tape) > 0
  BY DEF TidyTape
<1> DEFINE S == {n \in Nat : n <= Len(tape) => Places[n] \in Seq(Nat)}
<1>1. 0 \in S
  <2>1. PICK k \in 0 .. Len(tape) : k = 0
    BY <1>0
  <2>2. Places[k] = Placed(k, Places[k - 1])
    BY <1>0, PlacesIs
  <2>3. Places[0] = <<>>
    BY <2>1, <2>2 DEF Placed
  <2>4. <<>> \in Seq(Nat) /\ 0 \in Nat
    OBVIOUS
  <2> QED BY <2>3, <2>4, Zenon
<1>2. ASSUME NEW n \in Nat, n \in S PROVE n + 1 \in S
  <2> SUFFICES ASSUME n + 1 <= Len(tape) PROVE Places[n + 1] \in Seq(Nat)
    OBVIOUS
  <2>1. n + 1 \in 0 .. Len(tape) /\ (n + 1) - 1 = n /\ n + 1 \in Nat
    BY <1>0
  <2>2. Places[n + 1] = Placed(n + 1, Places[n]) /\ Places[n] \in Seq(Nat)
    <3>1. Places[n + 1] = Placed(n + 1, Places[(n + 1) - 1])
      BY <1>0, <2>1, PlacesIs
    <3> QED BY <1>0, <1>2, <2>1, <3>1
  <2> QED BY <2>1, <2>2 DEF Placed
<1>3. Nat \subseteq S
  <2>1. Inductive(S)
    <3> HIDE DEF S
    <3> QED BY <1>1, <1>2, Zenon DEF Inductive
  <2> HIDE DEF S
  <2> QED BY <2>1, Upwards
<1>4. \A k \in 0 .. Len(tape) : Places[k] \in Seq(Nat)
  <2>1. ASSUME NEW k \in 0 .. Len(tape) PROVE Places[k] \in Seq(Nat)
    <3>1. k \in S /\ k <= Len(tape)
      <4> HIDE DEF S
      <4> QED BY <1>0, <1>3
    <3> QED BY <3>1
  <2> QED BY <2>1
<1>5. Places[1] = <<>>
  <2>1. PICK k \in 0 .. Len(tape) : k = 1
    BY <1>0
  <2>2. Places[k] = Placed(k, Places[k - 1])
    BY <1>0, PlacesIs
  <2> QED BY <2>1, <2>2 DEF Placed
<1>6. ASSUME NEW k \in 2 .. Len(tape)
      PROVE  Places[k] = IF tape[k].type \in {"begin", "prop"} THEN Append(Places[k - 1], k) ELSE Places[k - 1]
  <2>1. k \in 0 .. Len(tape) /\ ~(k <= 1)
    BY <1>0
  <2>2. Places[k] = Placed(k, Places[k - 1])
    BY <1>0, <2>1, PlacesIs
  <2> QED BY <2>1, <2>2 DEF Placed
<1> QED BY <1>4, <1>5, <1>6

(* Fewer tokens, a first part of their places.                              *)
LEMMA PlacesExtend ==
    ASSUME TidyTape, NEW F \in 1 .. Len(tape), NEW L \in F .. Len(tape)
    PROVE  Extends(Places[F], Places[L])
<1>0. Len(tape) \in Nat /\ F \in Nat /\ L \in Nat
  BY DEF TidyTape
<1> DEFINE S == {n \in Nat : F + n <= Len(tape) => Extends(Places[F], Places[F + n])}
<1>1. 0 \in S
  <2>1. F + 0 = F /\ Places[F] \in Seq(Nat)
    BY <1>0, PlacesAre
  <2> QED BY <2>1 DEF Extends
<1>2. ASSUME NEW n \in Nat, n \in S PROVE n + 1 \in S
  <2> SUFFICES ASSUME F + (n + 1) <= Len(tape) PROVE Extends(Places[F], Places[F + (n + 1)])
    OBVIOUS
  <2>1. PICK k : k = F + (n + 1)
    OBVIOUS
  <2>2. k \in 2 .. Len(tape) /\ k - 1 = F + n /\ F + n <= Len(tape) /\ k - 1 \in 0 .. Len(tape) /\ F \in 0 .. Len(tape)
    BY <1>0, <2>1
  <2>3. PICK s, t, u : s = Places[F] /\ t = Places[k - 1] /\ u = Places[k]
    OBVIOUS
  <2>4. s \in Seq(Nat) /\ t \in Seq(Nat) /\ (u = t \/ u = Append(t, k)) /\ k \in Nat
    <3>1. s \in Seq(Nat) /\ t \in Seq(Nat)
      BY <2>2, <2>3, PlacesAre
    <3>2. u = IF tape[k].type \in {"begin", "prop"} THEN Append(t, k) ELSE t
      BY <2>2, <2>3, PlacesAre
    <3> QED BY <2>2, <3>1, <3>2
  <2>5. Extends(s, t)
    BY <1>2, <2>2, <2>3
  <2>6. Extends(s, u)
    <3>1. CASE u = t
      BY <2>5, <3>1
    <3>2. CASE u = Append(t, k)
      <4>1. Len(u) = Len(t) + 1 /\ \A m \in 1 .. Len(t) : u[m] = t[m]
        BY <2>4, <3>2
      <4>2. Len(s) \in Nat /\ Len(t) \in Nat
        BY <2>4
      <4> QED BY <2>5, <4>1, <4>2 DEF Extends
    <3> QED BY <2>4, <3>1, <3>2
  <2> QED BY <2>1, <2>3, <2>6
<1>3. Nat \subseteq S
  <2>1. Inductive(S)
    <3> HIDE DEF S
    <3> QED BY <1>1, <1>2, Zenon DEF Inductive
  <2> HIDE DEF S
  <2> QED BY <2>1, Upwards
<1>4. PICK n \in Nat : F + n = L
  <2>1. L - F \in Nat /\ F + (L - F) = L
    BY <1>0
  <2> QED BY <2>1
<1>5. n \in S /\ F + n <= Len(tape)
  <2> HIDE DEF S
  <2> QED BY <1>0, <1>3, <1>4
<1> QED BY <1>4, <1>5

(* Tokens that are neither add nothing.                                     *)
LEMMA PlacesStay ==
    ASSUME TidyTape, NEW F \in 1 .. Len(tape), NEW L \in F .. Len(tape),
           \A k \in F + 1 .. L : tape[k].type \in {"nop", "end"}
    PROVE  Places[L] = Places[F]
<1>0. Len(tape) \in Nat /\ F \in Nat /\ L \in Nat
  BY DEF TidyTape
<1> DEFINE S == {n \in Nat : F + n <= L => Places[F + n] = Places[F]}
<1>1. 0 \in S
  BY <1>0
<1>2. ASSUME NEW n \in Nat, n \in S PROVE n + 1 \in S
  <2> SUFFICES ASSUME F + (n + 1) <= L PROVE Places[F + (n + 1)] = Places[F]
    OBVIOUS
  <2>1. PICK k : k = F + (n + 1)
    OBVIOUS
  <2>2. k \in 2 .. Len(tape) /\ k - 1 = F + n /\ F + n <= L /\ k \in F + 1 .. L
    BY <1>0, <2>1
  <2>3. Places[k] = Places[k - 1]
    BY <2>2, PlacesAre
  <2> QED BY <1>2, <2>1, <2>2, <2>3
<1>3. Nat \subseteq S
  <2>1. Inductive(S)
    <3> HIDE DEF S
    <3> QED BY <1>1, <1>2, Zenon DEF Inductive
  <2> HIDE DEF S
  <2> QED BY <2>1, Upwards
<1>4. PICK n \in Nat : F + n = L
  <2>1. L - F \in Nat /\ F + (L - F) = L
    BY <1>0
  <2> QED BY <2>1
<1>5. n \in S /\ F + n <= L
  <2> HIDE DEF S
  <2> QED BY <1>0, <1>3, <1>4
<1> QED BY <1>4, <1>5

-----------------------------------------------------------------------------
(* The calls in flight once the first F tokens are read: one for each open  *)
(* node, and together their iterators have left nothing behind.             *)

AllCells == {CellsAt(n) : n \in 0 .. Len(tape)}

Frames == [node : Nat, of : {"props", "children"}, cells : AllCells, iter : [at : Nat, depth : Int]]

(* The call at depth k is on the k-th open node, and has counted right.     *)
Frame(f, k, F) ==
    /\ f.node \in 1 .. F /\ tape[f.node].type = "begin" /\ H(f.node) = k
    /\ \A j \in f.node .. F : H(j) >= k
    /\ f.iter.at \in f.node + 1 .. F + 1 /\ f.iter.depth = H(f.iter.at - 1) - k
    /\ f.of = "children" => \A j \in f.iter.at .. F : H(j - 1) = k => tape[j].type \notin {"begin", "end"}
    /\ f.cells = CellsAt(f.node)

Foremost(f, F) ==
    /\ f.of = "props" => f.iter.at = F + 1 /\ \A j \in f.node + 1 .. F : tape[j].type = "prop"
    /\ f.of = "children" => TypeAt(F + 1) # "prop"

Reading(calls, F) ==
    /\ calls \in Seq(Frames) /\ Len(calls) > 0 /\ H(F) = Len(calls)
    /\ \A k \in 1 .. Len(calls) : Frame(calls[k], k, F)
    /\ \A k \in 1 .. Len(calls) - 1 : calls[k].of = "children"
    /\ Foremost(calls[Len(calls)], F)

SeenTo(dumped, F) ==
    /\ dumped \in Seq([at : Nat, cells : AllCells])
    /\ [k \in DOMAIN dumped |-> dumped[k].at] = Places[F]
    /\ \A k \in DOMAIN dumped : tape[dumped[k].at].type = "prop" => dumped[k].cells = CellsAt(dumped[k].at)

LEMMA FrontIs ==
    ASSUME NEW S, NEW s \in Seq(S), Len(s) > 0
    PROVE  /\ Front(s) \in Seq(S) /\ Len(Front(s)) = Len(s) - 1
           /\ \A k \in 1 .. Len(s) - 1 : Front(s)[k] = s[k]
<1>1. CASE Len(s) > 1
  BY <1>1 DEF Front
<1>2. CASE Len(s) = 1
  <2>1. PICK n : n = Len(s) - 1
    OBVIOUS
  <2>2. n \in Int /\ n = 0 /\ Front(s) = SubSeq(s, 1, n) /\ \A i \in 1 .. n : s[i] \in S
    BY <1>2, <2>1 DEF Front
  <2>3. SubSeq(s, 1, n) \in Seq(S) /\ Len(SubSeq(s, 1, n)) = IF 1 <= n THEN n - 1 + 1 ELSE 0
    BY <2>2, SubSeqProperties
  <2> QED BY <1>2, <2>1, <2>2, <2>3
<1>3. Len(s) \in Nat
  OBVIOUS
<1>4. Len(s) > 1 \/ Len(s) = 1
  <2>1. PICK n \in Nat : n = Len(s)
    BY <1>3
  <2>2. n > 0
    BY <2>1
  <2>3. n > 1 \/ n = 1
    BY <2>2
  <2> QED BY <2>1, <2>3
<1> QED BY <1>1, <1>2, <1>4, Zenon

LEMMA ReplaceIs ==
    ASSUME NEW S, NEW s \in Seq(S), Len(s) > 0, NEW x \in S
    PROVE  /\ Append(Front(s), x) \in Seq(S) /\ Len(Append(Front(s), x)) = Len(s)
           /\ Append(Front(s), x)[Len(s)] = x
           /\ \A k \in 1 .. Len(s) - 1 : Append(Front(s), x)[k] = s[k]
<1>1. /\ Front(s) \in Seq(S) /\ Len(Front(s)) = Len(s) - 1
      /\ \A k \in 1 .. Len(s) - 1 : Front(s)[k] = s[k]
  BY FrontIs
<1>2. PICK f : f = Front(s)
  OBVIOUS
<1>3. f \in Seq(S) /\ Len(f) = Len(s) - 1 /\ Len(s) \in Nat
  BY <1>1, <1>2
<1>4. /\ Append(f, x) \in Seq(S) /\ Len(Append(f, x)) = Len(s) /\ Append(f, x)[Len(s)] = x
      /\ \A k \in 1 .. Len(s) - 1 : Append(f, x)[k] = f[k]
  BY <1>3
<1> QED BY <1>1, <1>2, <1>4

(* The call on a node just come to.                                         *)
LEMMA NodeIs ==
    ASSUME TidyTape, NEW at \in 1 .. Len(tape), tape[at].type = "begin"
    PROVE  /\ Node(at, CellsAt(at - 1)) \in Frames
           /\ Frame(Node(at, CellsAt(at - 1)), H(at), at)
           /\ Foremost(Node(at, CellsAt(at - 1)), at)
<1>0. Len(tape) \in Nat /\ at \in Nat /\ at \in 0 .. Len(tape) /\ H(at) \in Nat
  BY Heights DEF TidyTape
<1>1. PICK f : f = Node(at, CellsAt(at - 1))
  OBVIOUS
<1>2. f.cells = CellsAt(at)
  BY <1>1, NodeCells
<1>3. PICK cells : f = [node |-> at, of |-> "props", iter |-> [at |-> at + 1, depth |-> 0], cells |-> cells]
  BY <1>1 DEF Node, Inside
<1>4. CellsAt(at) \in AllCells
  BY <1>0 DEF AllCells
<1>5. f \in Frames
  BY <1>0, <1>2, <1>3, <1>4 DEF Frames
<1>6. f.node = at /\ f.of = "props" /\ f.iter.at = at + 1 /\ f.iter.depth = 0
  BY <1>3
<1>7. Frame(f, H(at), at)
  <2>1. \A j \in at .. at : j = at
    BY <1>0
  <2>2. (at + 1) - 1 = at
    BY <1>0
  <2> QED BY <1>0, <1>2, <1>6, <2>1, <2>2 DEF Frame
<1>8. Foremost(f, at)
  BY <1>0, <1>6 DEF Foremost
<1> QED BY <1>1, <1>5, <1>7, <1>8

(* A call that waits for one above it is not disturbed by what that reads.  *)
LEMMA FrameWaits ==
    ASSUME TidyTape, NEW f \in Frames, NEW k \in Nat, NEW F \in 1 .. Len(tape), NEW G \in F .. Len(tape),
           Frame(f, k, F), \A m \in F .. G - 1 : H(m) > k, H(G) >= k
    PROVE  Frame(f, k, G)
<1>0. Len(tape) \in Nat /\ F \in Nat /\ G \in Nat
  BY DEF TidyTape
<1>1. f.node \in 1 .. F /\ f.iter.at \in f.node + 1 .. F + 1
  BY DEF Frame
<1>2. f.node \in 1 .. G /\ f.iter.at \in f.node + 1 .. G + 1
  BY <1>0, <1>1
<1>3. ASSUME NEW j \in f.node .. G PROVE H(j) >= k
  <2>1. CASE j <= F
    BY <1>0, <1>1, <2>1 DEF Frame
  <2>2. CASE j > F /\ j < G
    <3>1. j \in F .. G - 1 /\ j \in 0 .. Len(tape)
      BY <1>0, <1>1, <2>2
    <3>2. H(j) > k /\ H(j) \in Nat
      BY <3>1, Heights
    <3> QED BY <3>2
  <2>3. CASE j = G
    BY <2>3
  <2> QED BY <1>0, <1>1, <2>1, <2>2, <2>3
<1>4. ASSUME f.of = "children", NEW j \in f.iter.at .. G, H(j - 1) = k PROVE tape[j].type \notin {"begin", "end"}
  <2>1. CASE j <= F
    BY <1>0, <1>1, <1>4, <2>1 DEF Frame
  <2>2. CASE j > F
    <3>1. j - 1 \in F .. G - 1
      BY <1>0, <1>1, <2>2
    <3>2. H(j - 1) > k
      BY <3>1
    <3> QED BY <1>4, <3>2
  <2> QED BY <1>0, <1>1, <2>1, <2>2
<1> QED BY <1>2, <1>3, <1>4 DEF Frame

(* What the top call has dumped, and the place of the next token.           *)
LEMMA SeenMore ==
    ASSUME TidyTape, NEW dumped, NEW F \in 1 .. Len(tape), SeenTo(dumped, F), NEW G \in F + 1 .. Len(tape),
           Places[G - 1] = Places[F], tape[G].type \in {"begin", "prop"},
           NEW cells \in AllCells, tape[G].type = "prop" => cells = CellsAt(G)
    PROVE  SeenTo(Append(dumped, [at |-> G, cells |-> cells]), G)
<1>0. Len(tape) \in Nat /\ F \in Nat /\ G \in Nat /\ G \in 2 .. Len(tape) /\ G - 1 \in 0 .. Len(tape)
  BY DEF TidyTape
<1>1. PICK more, new, n : /\ new = [at |-> G, cells |-> cells] /\ more = Append(dumped, new)
                          /\ n = Len(dumped)
  OBVIOUS
<1>2. dumped \in Seq([at : Nat, cells : AllCells]) /\ new \in [at : Nat, cells : AllCells]
  BY <1>0, <1>1 DEF SeenTo
<1>3. /\ n \in Nat /\ DOMAIN dumped = 1 .. n /\ more \in Seq([at : Nat, cells : AllCells])
      /\ DOMAIN more = 1 .. n + 1 /\ more[n + 1] = new /\ \A k \in 1 .. n : more[k] = dumped[k]
  BY <1>1, <1>2
<1>4. new.at = G /\ new.cells = cells
  BY <1>1
<1>5. [k \in DOMAIN more |-> more[k].at] = Places[G]
  <2>1. Places[G] = Append(Places[F], G)
    BY <1>0, PlacesAre
  <2>2. PICK s : s = [k \in 1 .. n |-> dumped[k].at]
    OBVIOUS
  <2>3. s = Places[F] /\ s \in Seq(Nat) /\ Len(s) = n
    <3>0. [k \in DOMAIN dumped |-> dumped[k].at] = Places[F]
      BY DEF SeenTo
    <3>5. s = [k \in DOMAIN dumped |-> dumped[k].at]
      BY <1>3, <2>2
    <3>1. s = Places[F] /\ F \in 0 .. Len(tape)
      BY <1>0, <3>0, <3>5
    <3>2. s \in Seq(Nat)
      BY <3>1, PlacesAre
    <3>3. DOMAIN s = 1 .. n
      BY <2>2
    <3>4. Len(s) = n
      BY <1>3, <3>2, <3>3
    <3> QED BY <3>1, <3>2, <3>4
  <2>4. Append(s, G) = [k \in 1 .. n + 1 |-> IF k = n + 1 THEN G ELSE s[k]]
    BY <1>0, <1>3, <2>3
  <2>5. ASSUME NEW k \in 1 .. n + 1 PROVE more[k].at = IF k = n + 1 THEN G ELSE s[k]
    BY <1>3, <1>4, <2>2
  <2> QED BY <1>3, <2>1, <2>3, <2>4, <2>5
<1>6. \A k \in DOMAIN more : tape[more[k].at].type = "prop" => more[k].cells = CellsAt(more[k].at)
  <2>1. \A k \in 1 .. n + 1 : k \in 1 .. n \/ k = n + 1
    BY <1>3
  <2>2. \A k \in 1 .. n : tape[dumped[k].at].type = "prop" => dumped[k].cells = CellsAt(dumped[k].at)
    BY <1>3 DEF SeenTo
  <2> QED BY <1>3, <1>4, <2>1, <2>2
<1> QED BY <1>1, <1>3, <1>5, <1>6 DEF SeenTo

LEMMA RootIs ==
    ASSUME TidyTape
    PROVE  Reading(<<Node(1, DefaultCells)>>, 1) /\ SeenTo(<<>>, 1)
<1>1. Len(tape) \in Nat /\ 1 \in 1 .. Len(tape) /\ tape[1].type = "begin" /\ H(1) = 1
  BY Heights DEF TidyTape
<1>2. CellsAt(1 - 1) = DefaultCells
  <2>1. Enclosing(0) = {} /\ 1 - 1 = 0
    BY DEF Enclosing
  <2> QED BY <2>1 DEF CellsAt, CellsAmong
<1>3. PICK f : f = Node(1, DefaultCells)
  OBVIOUS
<1>4. f \in Frames /\ Frame(f, 1, 1) /\ Foremost(f, 1)
  BY <1>1, <1>2, <1>3, NodeIs
<1>5. PICK s : s = <<f>>
  OBVIOUS
<1>6. s \in Seq(Frames) /\ Len(s) = 1 /\ s[1] = f
  BY <1>4, <1>5
<1>7. Reading(s, 1)
  <2>1. (\A k \in 1 .. 1 : k = 1) /\ 1 .. 1 - 1 = {}
    OBVIOUS
  <2> QED BY <1>1, <1>4, <1>6, <2>1 DEF Reading
<1>8. SeenTo(<<>>, 1)
  BY PlacesAre DEF SeenTo
<1> QED BY <1>3, <1>5, <1>7, <1>8

(* The top call asks iterProp, and there is another property.               *)
LEMMA PropFound ==
    ASSUME TidyTape, NEW calls, NEW dumped, NEW F \in 1 .. Len(tape), Reading(calls, F), SeenTo(dumped, F),
           NEW top, top = Last(calls), top.of = "props", TypeAt(top.iter.at) = "prop"
    PROVE  /\ F + 1 \in 1 .. Len(tape)
           /\ Reading(Append(Front(calls), [top EXCEPT !.iter = PropNext(top.iter).iter]), F + 1)
           /\ SeenTo(Append(dumped, [at |-> top.iter.at, cells |-> top.cells]), F + 1)
<1>0. Len(tape) \in Nat /\ F \in Nat /\ F \in 0 .. Len(tape)
  BY DEF TidyTape
<1>1. PICK n : n = Len(calls)
  OBVIOUS
<1>2. calls \in Seq(Frames) /\ n \in Nat /\ n > 0 /\ H(F) = n /\ top = calls[n] /\ top \in Frames
  BY <1>1 DEF Reading, Last
<1>3. Frame(top, n, F) /\ Foremost(top, F)
  BY <1>1, <1>2 DEF Reading
<1>4. PICK G : G = F + 1
  OBVIOUS
<1>5. top.iter.at = G /\ \A j \in top.node + 1 .. F : tape[j].type = "prop"
  BY <1>3, <1>4 DEF Foremost
<1>6. G \in 1 .. Len(tape) /\ G \in F + 1 .. Len(tape) /\ G - 1 = F /\ G \in Nat /\ tape[G].type = "prop"
  BY <1>0, <1>4, <1>5 DEF TypeAt
<1>7. H(G) = n
  <2>1. H(G) = H(G - 1) + Weight(tape[G].type)
    BY <1>6, Heights
  <2>2. Weight(tape[G].type) = 0
    BY <1>6 DEF Weight
  <2> QED BY <1>2, <1>6, <2>1, <2>2
<1>8. top.iter = [at |-> top.iter.at, depth |-> top.iter.depth] /\ top.iter.depth \in Int
  BY <1>2 DEF Frames
<1>9. PICK new : new = [top EXCEPT !.iter = PropNext(top.iter).iter]
  OBVIOUS
<1>10. /\ new \in Frames /\ new.node = top.node /\ new.of = "props" /\ new.cells = top.cells
       /\ new.iter.at = G + 1 /\ new.iter.depth = top.iter.depth
  <2>1. PropNext(top.iter).iter = [at |-> G + 1, depth |-> top.iter.depth]
    BY <1>5, <1>8 DEF PropNext
  <2>2. PICK iter : iter = [at |-> G + 1, depth |-> top.iter.depth]
    OBVIOUS
  <2>3. iter \in [at : Nat, depth : Int] /\ iter.at = G + 1 /\ iter.depth = top.iter.depth
    BY <1>6, <1>8, <2>2
  <2>4. new = [top EXCEPT !.iter = iter]
    BY <1>9, <2>1, <2>2
  <2> QED BY <1>2, <2>3, <2>4 DEF Frames
<1>11. top.node \in 1 .. F /\ tape[top.node].type = "begin" /\ H(top.node) = n /\ top.cells = CellsAt(top.node)
       /\ top.iter.depth = 0
  <2>1. top.iter.depth = H(top.iter.at - 1) - n
    BY <1>3 DEF Frame
  <2> QED BY <1>2, <1>3, <1>5, <1>6, <2>1 DEF Frame
<1>12. \A j \in top.node .. G : H(j) >= n
  <2>1. \A j \in top.node .. G : j \in top.node .. F \/ j = G
    BY <1>4, <1>6, <1>11
  <2>2. \A j \in top.node .. F : H(j) >= n
    BY <1>3 DEF Frame
  <2> QED BY <1>2, <1>7, <2>1, <2>2
<1>13. Frame(new, n, G)
  <2>1. new.node \in 1 .. G /\ new.iter.at \in new.node + 1 .. G + 1 /\ (G + 1) - 1 = G
    BY <1>4, <1>6, <1>10, <1>11
  <2>2. new.iter.depth = H(new.iter.at - 1) - n
    BY <1>2, <1>7, <1>10, <1>11, <2>1
  <2> QED BY <1>10, <1>11, <1>12, <2>1, <2>2 DEF Frame
<1>14. Foremost(new, G)
  <2>1. \A j \in new.node + 1 .. G : j \in top.node + 1 .. F \/ j = G
    BY <1>4, <1>6, <1>10, <1>11
  <2> QED BY <1>5, <1>6, <1>10, <2>1 DEF Foremost
<1>15. PICK next : next = Append(Front(calls), new)
  OBVIOUS
<1>16. /\ next \in Seq(Frames) /\ Len(next) = n /\ next[n] = new
       /\ \A k \in 1 .. n - 1 : next[k] = calls[k]
  BY <1>1, <1>2, <1>10, <1>15, ReplaceIs
<1>17. Reading(next, G)
  <2>1. ASSUME NEW k \in 1 .. n - 1 PROVE Frame(next[k], k, G) /\ next[k].of = "children"
    <3>1. k \in Nat /\ k \in 1 .. n /\ k < n
      BY <1>2
    <3>2. Frame(calls[k], k, F) /\ calls[k].of = "children" /\ calls[k] \in Frames
      BY <1>1, <1>2, <3>1 DEF Reading
    <3>3. \A m \in F .. G - 1 : H(m) > k
      BY <1>0, <1>2, <1>6, <3>1
    <3>4. H(G) >= k /\ G \in F .. Len(tape)
      BY <1>0, <1>2, <1>6, <1>7, <3>1
    <3>5. Frame(calls[k], k, G)
      BY <3>1, <3>2, <3>3, <3>4, FrameWaits
    <3> QED BY <1>16, <3>2, <3>5
  <2>2. \A k \in 1 .. n : k \in 1 .. n - 1 \/ k = n
    BY <1>2
  <2> QED BY <1>2, <1>7, <1>13, <1>14, <1>16, <2>1, <2>2 DEF Reading
<1>18. SeenTo(Append(dumped, [at |-> G, cells |-> top.cells]), G)
  <2>1. CellsAt(G) = top.cells
    <3>1. top.node \in 1 .. Len(tape) /\ G \in top.node .. Len(tape) /\ H(G) = H(top.node)
          /\ \A j \in top.node .. G : H(j) >= H(top.node)
      BY <1>0, <1>4, <1>6, <1>7, <1>11, <1>12
    <3>2. Enclosing(G) = Enclosing(top.node)
      BY <1>11, <3>1, SameNodes
    <3> QED BY <1>11, <3>2 DEF CellsAt
  <2>2. top.cells \in AllCells
    BY <1>2 DEF Frames
  <2>3. Places[G - 1] = Places[F]
    BY <1>6
  <2> QED BY <1>6, <2>1, <2>2, <2>3, SeenMore
<1> QED BY <1>4, <1>5, <1>6, <1>9, <1>15, <1>17, <1>18

(* There is none, and dump goes on to the children.                         *)
LEMMA PropsOver ==
    ASSUME TidyTape, NEW calls, NEW F \in 1 .. Len(tape), Reading(calls, F),
           NEW top, top = Last(calls), top.of = "props", TypeAt(top.iter.at) # "prop"
    PROVE  Reading(Append(Front(calls), [top EXCEPT !.of = "children", !.iter = Inside(top.node)]), F)
<1>0. Len(tape) \in Nat /\ F \in Nat /\ F \in 0 .. Len(tape)
  BY DEF TidyTape
<1>1. PICK n : n = Len(calls)
  OBVIOUS
<1>2. calls \in Seq(Frames) /\ n \in Nat /\ n > 0 /\ H(F) = n /\ top = calls[n] /\ top \in Frames
  BY <1>1 DEF Reading, Last
<1>3. Frame(top, n, F) /\ Foremost(top, F)
  BY <1>1, <1>2 DEF Reading
<1>4. top.iter.at = F + 1 /\ \A j \in top.node + 1 .. F : tape[j].type = "prop"
  BY <1>3 DEF Foremost
<1>5. top.node \in 1 .. F /\ H(top.node) = n
  BY <1>3 DEF Frame
<1>6. PICK new : new = [top EXCEPT !.of = "children", !.iter = Inside(top.node)]
  OBVIOUS
<1>7. /\ new \in Frames /\ new.node = top.node /\ new.of = "children" /\ new.cells = top.cells
      /\ new.iter.at = top.node + 1 /\ new.iter.depth = 0
  <2>1. PICK iter : iter = [at |-> top.node + 1, depth |-> 0]
    OBVIOUS
  <2>2. iter \in [at : Nat, depth : Int] /\ iter.at = top.node + 1 /\ iter.depth = 0
    BY <1>0, <1>5, <2>1
  <2>3. new = [top EXCEPT !.of = "children", !.iter = iter]
    BY <1>6, <2>1 DEF Inside
  <2> QED BY <1>2, <2>2, <2>3 DEF Frames
<1>8. Frame(new, n, F)
  <2>1. (top.node + 1) - 1 = top.node /\ new.iter.at \in new.node + 1 .. F + 1
    BY <1>0, <1>5, <1>7
  <2>2. new.iter.depth = H(new.iter.at - 1) - n
    BY <1>2, <1>5, <1>7, <2>1
  <2> QED BY <1>3, <1>4, <1>7, <2>1, <2>2 DEF Frame
<1>9. Foremost(new, F)
  BY <1>4, <1>7 DEF Foremost
<1>10. PICK next : next = Append(Front(calls), new)
  OBVIOUS
<1>11. /\ next \in Seq(Frames) /\ Len(next) = n /\ next[n] = new
       /\ \A k \in 1 .. n - 1 : next[k] = calls[k]
  BY <1>1, <1>2, <1>7, <1>10, ReplaceIs
<1>12. Reading(next, F)
  <2>1. ASSUME NEW k \in 1 .. n - 1 PROVE Frame(next[k], k, F) /\ next[k].of = "children"
    <3>1. k \in 1 .. n
      BY <1>2
    <3> QED BY <1>1, <1>11, <3>1 DEF Reading
  <2>2. \A k \in 1 .. n : k \in 1 .. n - 1 \/ k = n
    BY <1>2
  <2> QED BY <1>2, <1>8, <1>9, <1>11, <2>1, <2>2 DEF Reading
<1> QED BY <1>6, <1>10, <1>12

(* The answer of iterChildren to the top call: the next begin or end that   *)
(* nobody has read, with only NOPs before it.                               *)
Answers(answer, F, j) ==
    /\ tape[j].type \in {"begin", "end"}
    /\ \A m \in F + 1 .. j - 1 : tape[m].type = "nop"
    /\ \A m \in F .. j - 1 : H(m) = H(F)
    /\ answer.at = j
    /\ tape[j].type = "begin" => answer.found /\ answer.iter = [at |-> j + 1, depth |-> 1]
    /\ tape[j].type = "end" => ~answer.found

LEMMA ChildAnswer ==
    ASSUME TidyTape, NEW calls, NEW F \in 1 .. Len(tape), Reading(calls, F),
           NEW top, top = Last(calls), top.of = "children"
    PROVE  \E j \in F + 1 .. Len(tape) : Answers(ChildNext(top.iter), F, j)
<1>0. Len(tape) \in Nat /\ F \in Nat /\ F \in 0 .. Len(tape)
  BY DEF TidyTape
<1>1. PICK n : n = Len(calls)
  OBVIOUS
<1>2. calls \in Seq(Frames) /\ n \in Nat /\ n > 0 /\ H(F) = n /\ top = calls[n] /\ top \in Frames
  BY <1>1 DEF Reading, Last
<1>3. Frame(top, n, F) /\ TypeAt(F + 1) # "prop"
  BY <1>1, <1>2 DEF Reading, Foremost
<1>4. PICK j \in F + 1 .. Len(tape) :
          /\ tape[j].type \in {"begin", "end"}
          /\ \A m \in F + 1 .. j - 1 : tape[m].type = "nop"
          /\ \A m \in F .. j - 1 : H(m) = H(F)
  BY <1>2, <1>3, NextStop
<1>5. PICK start : start = top.iter
  OBVIOUS
<1>6. /\ start.at \in Nat /\ start.at \in 1 .. F + 1 /\ start.depth = H(start.at - 1) - n
      /\ H(start.at - 1) \in Nat
  <2>1. top.node \in 1 .. F /\ start.at \in top.node + 1 .. F + 1 /\ start.depth = H(start.at - 1) - n
    BY <1>3, <1>5 DEF Frame
  <2>2. start.at \in Nat /\ start.at \in 1 .. F + 1 /\ start.at - 1 \in 0 .. Len(tape)
    BY <1>0, <2>1
  <2>3. H(start.at - 1) \in Nat
    BY <2>2, Heights
  <2> QED BY <2>1, <2>2, <2>3
<1>7. j \in 1 .. Len(tape) /\ start.at \in 1 .. j /\ j - 1 \in F .. j - 1
  BY <1>0, <1>6
<1>8. start.depth + H(j - 1) - H(start.at - 1) = 0
  BY <1>2, <1>4, <1>6, <1>7
<1>9. ASSUME NEW m \in start.at .. j - 1, start.depth + H(m - 1) - H(start.at - 1) = 0
      PROVE  tape[m].type \notin {"begin", "end"}
  <2>1. CASE m > F
    <3>1. m \in F + 1 .. j - 1
      BY <1>0, <1>6, <2>1
    <3> QED BY <1>4, <3>1
  <2>2. CASE m <= F
    <3>1. m \in start.at .. F /\ m - 1 \in 0 .. Len(tape)
      BY <1>0, <1>6, <2>2
    <3>2. H(m - 1) \in Nat
      BY <3>1, Heights
    <3>3. H(m - 1) = n
      BY <1>2, <1>6, <1>9, <3>2
    <3> QED BY <1>3, <1>5, <3>1, <3>3 DEF Frame
  <2> QED BY <1>0, <1>6, <2>1, <2>2
<1>10. /\ ChildNext(start).at = j
       /\ tape[j].type = "begin" =>
             /\ ChildNext(start).found
             /\ ChildNext(start).iter = [at |-> j + 1, depth |-> 1]
       /\ tape[j].type = "end" => ~ChildNext(start).found
  BY <1>4, <1>7, <1>8, <1>9, ChildNextIs
<1>11. Answers(ChildNext(start), F, j)
  BY <1>4, <1>10 DEF Answers
<1> QED BY <1>5, <1>11

(* A child: it is dumped, and its own call goes on top.                     *)
LEMMA ChildFound ==
    ASSUME TidyTape, NEW calls, NEW dumped, NEW F \in 1 .. Len(tape), Reading(calls, F), SeenTo(dumped, F),
           NEW top, top = Last(calls), top.of = "children", NEW answer, answer = ChildNext(top.iter), answer.found
    PROVE  /\ answer.at \in 1 .. Len(tape)
           /\ Reading(Append(Append(Front(calls), [top EXCEPT !.iter = answer.iter]), Node(answer.at, top.cells)),
                      answer.at)
           /\ SeenTo(Append(dumped, [at |-> answer.at, cells |-> top.cells]), answer.at)
<1>0. Len(tape) \in Nat /\ F \in Nat /\ F \in 0 .. Len(tape)
  BY DEF TidyTape
<1>1. PICK n : n = Len(calls)
  OBVIOUS
<1>2. calls \in Seq(Frames) /\ n \in Nat /\ n > 0 /\ H(F) = n /\ top = calls[n] /\ top \in Frames
  BY <1>1 DEF Reading, Last
<1>3. Frame(top, n, F)
  BY <1>1, <1>2 DEF Reading
<1>4. PICK G \in F + 1 .. Len(tape) :
         /\ tape[G].type = "begin"
         /\ \A m \in F + 1 .. G - 1 : tape[m].type = "nop"
         /\ \A m \in F .. G - 1 : H(m) = H(F)
         /\ answer.at = G /\ answer.iter = [at |-> G + 1, depth |-> 1]
  <2>1. PICK G \in F + 1 .. Len(tape) : Answers(answer, F, G)
    BY ChildAnswer
  <2> QED BY <2>1 DEF Answers
<1>5. G \in 1 .. Len(tape) /\ G \in 0 .. Len(tape) /\ G \in Nat /\ G - 1 \in F .. G - 1 /\ G - 1 \in F .. Len(tape)
  BY <1>0
<1>6. H(G) = n + 1 /\ H(G - 1) = n
  <2>1. H(G) = H(G - 1) + Weight(tape[G].type)
    BY <1>5, Heights
  <2>2. Weight(tape[G].type) = 1
    BY <1>4 DEF Weight
  <2> QED BY <1>2, <1>4, <1>5, <2>1, <2>2
<1>7. top.node \in 1 .. F /\ tape[top.node].type = "begin" /\ H(top.node) = n /\ top.cells = CellsAt(top.node)
  BY <1>3 DEF Frame
<1>8. \A m \in top.node .. G - 1 : H(m) >= n
  <2>1. \A m \in top.node .. G - 1 : m \in top.node .. F \/ m \in F .. G - 1
    BY <1>0, <1>5, <1>7
  <2>2. \A m \in top.node .. F : H(m) >= n
    BY <1>3 DEF Frame
  <2>3. \A m \in F .. G - 1 : H(m) >= n
    BY <1>2, <1>4
  <2> QED BY <2>1, <2>2, <2>3
<1>9. PICK old : old = [top EXCEPT !.iter = answer.iter]
  OBVIOUS
<1>10. /\ old \in Frames /\ old.node = top.node /\ old.of = "children" /\ old.cells = top.cells
       /\ old.iter.at = G + 1 /\ old.iter.depth = 1
  <2>1. PICK iter : iter = [at |-> G + 1, depth |-> 1]
    OBVIOUS
  <2>2. iter \in [at : Nat, depth : Int] /\ iter.at = G + 1 /\ iter.depth = 1
    BY <1>5, <2>1
  <2>3. old = [top EXCEPT !.iter = iter]
    BY <1>4, <1>9, <2>1
  <2> QED BY <1>2, <2>2, <2>3 DEF Frames
<1>11. Frame(old, n, G)
  <2>1. old.node \in 1 .. G /\ old.iter.at \in old.node + 1 .. G + 1 /\ (G + 1) - 1 = G
    BY <1>0, <1>5, <1>7, <1>10
  <2>2. old.iter.depth = H(old.iter.at - 1) - n
    BY <1>2, <1>6, <1>10, <2>1
  <2>3. \A m \in old.node .. G : H(m) >= n
    <3>1. \A m \in old.node .. G : m \in top.node .. G - 1 \/ m = G
      BY <1>0, <1>5, <1>7, <1>10
    <3>2. H(G) >= n
      BY <1>2, <1>6
    <3> QED BY <1>8, <3>1, <3>2
  <2>4. old.iter.at .. G = {}
    BY <1>5, <1>10
  <2> QED BY <1>7, <1>10, <2>1, <2>2, <2>3, <2>4 DEF Frame
<1>12. CellsAt(G - 1) = top.cells
  <2>1. top.node \in 1 .. Len(tape) /\ G - 1 \in top.node .. Len(tape) /\ H(G - 1) = H(top.node)
        /\ \A m \in top.node .. G - 1 : H(m) >= H(top.node)
    BY <1>0, <1>5, <1>6, <1>7, <1>8
  <2>2. Enclosing(G - 1) = Enclosing(top.node)
    BY <1>7, <2>1, SameNodes
  <2> QED BY <1>7, <2>2 DEF CellsAt
<1>13. PICK new : new = Node(G, top.cells)
  OBVIOUS
<1>14. new \in Frames /\ Frame(new, n + 1, G) /\ Foremost(new, G)
  BY <1>4, <1>5, <1>6, <1>12, <1>13, NodeIs
<1>15. PICK below, next : below = Append(Front(calls), old) /\ next = Append(below, new)
  OBVIOUS
<1>16. /\ below \in Seq(Frames) /\ Len(below) = n /\ below[n] = old
       /\ \A k \in 1 .. n - 1 : below[k] = calls[k]
  BY <1>1, <1>2, <1>10, <1>15, ReplaceIs
<1>17. /\ next \in Seq(Frames) /\ Len(next) = n + 1 /\ next[n + 1] = new
       /\ \A k \in 1 .. n : next[k] = below[k]
  BY <1>2, <1>14, <1>15, <1>16
<1>18. Reading(next, G)
  <2>1. ASSUME NEW k \in 1 .. n - 1 PROVE Frame(next[k], k, G) /\ next[k].of = "children"
    <3>1. k \in Nat /\ k \in 1 .. n /\ k < n
      BY <1>2
    <3>2. Frame(calls[k], k, F) /\ calls[k].of = "children" /\ calls[k] \in Frames
      BY <1>1, <1>2, <3>1 DEF Reading
    <3>3. \A m \in F .. G - 1 : H(m) > k
      BY <1>2, <1>4, <3>1
    <3>4. H(G) >= k /\ G \in F .. Len(tape)
      BY <1>0, <1>2, <1>5, <1>6, <3>1
    <3>5. Frame(calls[k], k, G)
      BY <3>1, <3>2, <3>3, <3>4, FrameWaits
    <3> QED BY <1>16, <1>17, <3>1, <3>2, <3>5
  <2>2. Frame(next[n], n, G) /\ next[n].of = "children"
    BY <1>2, <1>10, <1>11, <1>16, <1>17
  <2>3. \A k \in 1 .. n : k \in 1 .. n - 1 \/ k = n
    BY <1>2
  <2>4. \A k \in 1 .. n + 1 : k \in 1 .. n \/ k = n + 1
    BY <1>2
  <2>5. \A k \in 1 .. n : Frame(next[k], k, G) /\ next[k].of = "children"
    BY <2>1, <2>2, <2>3
  <2>6. (n + 1) - 1 = n /\ n + 1 > 0
    BY <1>2
  <2> QED BY <1>6, <1>14, <1>17, <2>4, <2>5, <2>6 DEF Reading
<1>19. SeenTo(Append(dumped, [at |-> G, cells |-> top.cells]), G)
  <2>1. top.cells \in AllCells
    BY <1>2 DEF Frames
  <2>2. Places[G - 1] = Places[F]
    BY <1>4, <1>5, PlacesStay
  <2> QED BY <1>4, <2>1, <2>2, SeenMore
<1> QED BY <1>4, <1>5, <1>9, <1>13, <1>15, <1>18, <1>19

(* Behind the end of the root there are only NOPs.                          *)
LEMMA AfterTheRoot ==
    ASSUME TidyTape, NEW G \in 1 .. Len(tape), H(G) = 0, tape[G].type = "end"
    PROVE  \A m \in G + 1 .. Len(tape) : tape[m].type = "nop"
<1>0. Len(tape) \in Nat /\ G \in Nat
  BY DEF TidyTape
<1> DEFINE S == {m \in G + 1 .. Len(tape) : tape[m].type # "nop"}
<1>1. CASE S = {}
  BY <1>1
<1>2. CASE S # {}
  <2>1. PICK m \in S : \A k \in S : m <= k
    <3>1. S \subseteq Nat
      BY <1>0
    <3> HIDE DEF S
    <3> QED BY <1>2, <3>1, Least
  <2>2. m \in G + 1 .. Len(tape) /\ tape[m].type # "nop" /\ m \in 1 .. Len(tape) /\ m > 1 /\ m \in Nat
    BY <1>0
  <2>3. \A k \in G + 1 .. m - 1 : tape[k].type = "nop"
    BY <1>0, <2>1
  <2>4. H(m - 1) = 0
    <3>1. G \in 0 .. Len(tape) /\ m - 1 \in G .. Len(tape) /\ m - 1 \in G .. m - 1
      BY <1>0, <2>2
    <3> HIDE DEF S
    <3> QED BY <2>3, <3>1, Flat
  <2>5. tape[m].type # "begin"
    BY <2>2, <2>4 DEF TidyTape, H
  <2>6. tape[m].type # "prop"
    <3> SUFFICES ASSUME tape[m].type = "prop" PROVE FALSE
      OBVIOUS
    <3>1. tape[m - 1].type \in {"begin", "prop"}
      BY <2>2 DEF TidyTape
    <3>2. m - 1 = G \/ m - 1 \in G + 1 .. m - 1
      BY <1>0, <2>2
    <3> QED BY <2>3, <3>1, <3>2
  <2>7. tape[m].type # "end"
    <3>1. H(m) = H(m - 1) + Weight(tape[m].type) /\ H(m) \in Nat
      <4>1. m \in 0 .. Len(tape)
        BY <2>2
      <4> QED BY <2>2, <4>1, Heights
    <3> QED BY <2>4, <3>1 DEF Weight
  <2> QED BY <2>2, <2>5, <2>6, <2>7, Heights DEF Kinds
<1> QED BY <1>1, <1>2

(* No other child: the call returns, to the one below or, at the root, for  *)
(* good.                                                                    *)
LEMMA ChildrenOver ==
    ASSUME TidyTape, NEW calls, NEW dumped, NEW F \in 1 .. Len(tape), Reading(calls, F), SeenTo(dumped, F),
           NEW top, top = Last(calls), top.of = "children", NEW answer, answer = ChildNext(top.iter), ~answer.found
    PROVE  /\ answer.at \in 1 .. Len(tape)
           /\ SeenTo(dumped, answer.at)
           /\ Len(calls) # 1 => Reading(Front(calls), answer.at)
           /\ Len(calls) = 1 => \A m \in answer.at + 1 .. Len(tape) : tape[m].type = "nop"
<1>0. Len(tape) \in Nat /\ F \in Nat /\ F \in 0 .. Len(tape)
  BY DEF TidyTape
<1>1. PICK n : n = Len(calls)
  OBVIOUS
<1>2. calls \in Seq(Frames) /\ n \in Nat /\ n > 0 /\ H(F) = n
  BY <1>1 DEF Reading
<1>3. PICK G \in F + 1 .. Len(tape) :
         /\ tape[G].type = "end"
         /\ \A m \in F + 1 .. G - 1 : tape[m].type = "nop"
         /\ \A m \in F .. G - 1 : H(m) = H(F)
         /\ answer.at = G
  <2>1. PICK G \in F + 1 .. Len(tape) : Answers(answer, F, G)
    BY ChildAnswer
  <2> QED BY <2>1 DEF Answers
<1>4. G \in 1 .. Len(tape) /\ G \in 0 .. Len(tape) /\ G \in Nat /\ G - 1 \in F .. G - 1 /\ G \in F .. Len(tape)
  BY <1>0
<1>5. H(G) = n - 1
  <2>1. H(G) = H(G - 1) + Weight(tape[G].type)
    BY <1>4, Heights
  <2>2. Weight(tape[G].type) = -1
    BY <1>3 DEF Weight
  <2> QED BY <1>2, <1>3, <1>4, <2>1, <2>2
<1>6. SeenTo(dumped, G)
  <2>1. \A m \in F + 1 .. G : m \in F + 1 .. G - 1 \/ m = G
    BY <1>0, <1>4
  <2>2. Places[G] = Places[F]
    BY <1>3, <1>4, <2>1, PlacesStay
  <2> QED BY <2>2 DEF SeenTo
<1>7. ASSUME n # 1 PROVE Reading(Front(calls), G)
  <2>1. PICK next : next = Front(calls)
    OBVIOUS
  <2>2. next \in Seq(Frames) /\ Len(next) = n - 1 /\ \A k \in 1 .. n - 1 : next[k] = calls[k]
    BY <1>1, <1>2, <2>1, FrontIs
  <2>3. ASSUME NEW k \in 1 .. n - 1 PROVE Frame(next[k], k, G) /\ next[k].of = "children"
    <3>1. k \in Nat /\ k \in 1 .. n /\ k < n
      BY <1>2
    <3>2. Frame(calls[k], k, F) /\ calls[k].of = "children" /\ calls[k] \in Frames
      BY <1>1, <1>2, <3>1 DEF Reading
    <3>3. \A m \in F .. G - 1 : H(m) > k
      BY <1>2, <1>3, <3>1
    <3>4. H(G) >= k
      BY <1>2, <1>5, <3>1
    <3>5. Frame(calls[k], k, G)
      BY <1>4, <3>1, <3>2, <3>3, <3>4, FrameWaits
    <3> QED BY <2>2, <3>2, <3>5
  <2>4. n - 1 > 0 /\ n - 1 \in 1 .. n - 1 /\ \A k \in 1 .. (n - 1) - 1 : k \in 1 .. n - 1
    BY <1>2, <1>7
  <2>5. Foremost(next[n - 1], G)
    <3>1. TypeAt(G + 1) # "prop"
      <4> SUFFICES ASSUME TypeAt(G + 1) = "prop" PROVE FALSE
        OBVIOUS
      <4>1. G + 1 \in 1 .. Len(tape) /\ tape[G + 1].type = "prop" /\ (G + 1) - 1 = G
        BY <1>0, <1>4 DEF TypeAt
      <4>2. tape[(G + 1) - 1].type \in {"begin", "prop"}
        BY <4>1 DEF TidyTape
      <4> QED BY <1>3, <4>1, <4>2
    <3> QED BY <2>3, <2>4, <3>1 DEF Foremost
  <2> QED BY <1>5, <2>1, <2>2, <2>3, <2>4, <2>5 DEF Reading
<1>8. ASSUME n = 1 PROVE \A m \in G + 1 .. Len(tape) : tape[m].type = "nop"
  BY <1>3, <1>4, <1>5, <1>8, AfterTheRoot
<1> QED BY <1>1, <1>3, <1>4, <1>6, <1>7, <1>8

-----------------------------------------------------------------------------
(* The invariant: a tape is as flatteners write it, and a dump of a tidy    *)
(* one has read just a first part of it.                                    *)

ReadTo(F) ==
    /\ SeenTo(seen, F)
    /\ phase = "dump" => Reading(stack, F)
    /\ phase = "done" => \A m \in F + 1 .. Len(tape) : tape[m].type = "nop"

DInv ==
    /\ phase \in {"write", "dump", "done"}
    /\ WellWritten(tape, open)
    /\ phase # "write" => open = 0 /\ ~OnlyNops
    /\ phase # "write" /\ Tidy => \E F \in 1 .. Len(tape) : ReadTo(F)

LEMMA SameTape ==
    ASSUME tape' = tape
    PROVE  /\ OnlyNops' = OnlyNops /\ Tidy' = Tidy
           /\ \A calls, F : Reading(calls, F)' = Reading(calls, F)
           /\ \A dumped, F : SeenTo(dumped, F)' = SeenTo(dumped, F)
<1>1. \A n : CellsAt(n)' = CellsAt(n)
  BY DEF CellsAt, CellsAmong, Enclosing, OwnCells, TypeAt
<1>2. Places' = Places
  BY DEF Places
<1>3. AllCells' = AllCells
  BY <1>1 DEF AllCells
<1>4. Frames' = Frames
  BY <1>3 DEF Frames
<1>5. \A f, k, F : Frame(f, k, F)' = Frame(f, k, F)
  BY <1>1 DEF Frame, H
<1>6. \A f, F : Foremost(f, F)' = Foremost(f, F)
  BY DEF Foremost, TypeAt
<1>7. \A calls, F : Reading(calls, F)' = Reading(calls, F)
  BY <1>4, <1>5, <1>6 DEF Reading, H
<1>8. \A dumped, F : SeenTo(dumped, F)' = SeenTo(dumped, F)
  BY <1>1, <1>2, <1>3 DEF SeenTo
<1>9. OnlyNops' = OnlyNops /\ Tidy' = Tidy
  BY DEF OnlyNops, Tidy, Misplaced
<1> QED BY <1>7, <1>8, <1>9

LEMMA DInitHolds == Init => DInv
BY NothingWritten DEF Init, DInv

(* A token more on the tape.                                                *)
LEMMA WritesKeep ==
    ASSUME DInv, phase = "write", phase' = phase, NEW token \in Tokens,
           tape' = Append(tape, token), open' = open + Weight(token.type),
           token.type = "begin" => open > 0 \/ OnlyNops,
           token.type = "end" => open > 0,
           token.type = "prop" => AmongProps
    PROVE  DInv'
<1>1. tape \in Seq(Tokens) /\ DOMAIN tape = 1 .. Len(tape)
  BY DEF DInv, WellWritten
<1>2. WellWritten(Append(tape, token), open + Weight(token.type))
  BY <1>1, Written DEF DInv, OnlyNops, AmongProps
<1> QED BY <1>2 DEF DInv, WellWritten

(* A step that leaves the tape alone and reads on to F.                     *)
LEMMA ReadsKeep ==
    ASSUME DInv, tape' = tape, open' = open, open = 0, ~OnlyNops, phase' \in {"dump", "done"},
           Tidy => \E F \in 1 .. Len(tape) :
                      /\ SeenTo(seen', F)
                      /\ phase' = "dump" => Reading(stack', F)
                      /\ phase' = "done" => \A m \in F + 1 .. Len(tape) : tape[m].type = "nop"
    PROVE  DInv'
<1>1. WellWritten(tape, open)' /\ (OnlyNops' = OnlyNops /\ Tidy' = Tidy)
  BY SameTape DEF DInv, WellWritten
<1> QED BY <1>1, SameTape DEF DInv, ReadTo

LEMMA TapeOf ==
    ASSUME DInv, phase # "write", Tidy
    PROVE  TidyTape /\ \E F \in 1 .. Len(tape) : ReadTo(F)
<1>1. WellWritten(tape, 0) /\ ~OnlyNops
  BY DEF DInv
<1> QED BY <1>1, TidyIs DEF DInv

LEMMA StartDumpKeeps == ASSUME DInv, StartDump PROVE DInv'
<1>1. tape' = tape /\ open' = open /\ open = 0 /\ ~OnlyNops /\ phase' = "dump"
      /\ stack' = <<Node(1, DefaultCells)>> /\ seen' = <<>>
  BY DEF StartDump
<1>2. ASSUME Tidy PROVE 1 \in 1 .. Len(tape) /\ SeenTo(seen', 1) /\ Reading(stack', 1)
  <2>1. TidyTape
    BY <1>1, <1>2, TidyIs DEF DInv
  <2>2. 1 \in 1 .. Len(tape)
    BY <2>1 DEF TidyTape
  <2> QED BY <1>1, <2>1, <2>2, RootIs
<1> QED BY <1>1, <1>2, ReadsKeep

LEMMA DumpPropKeeps == ASSUME DInv, DumpProp PROVE DInv'
<1>1. PICK answer : answer = PropNext(Top.iter)
  OBVIOUS
<1>2. /\ phase = "dump" /\ phase' = "dump" /\ Top.of = "props" /\ tape' = tape /\ open' = open
      /\ \/ /\ answer.found
            /\ seen' = Append(seen, [at |-> answer.at, cells |-> Top.cells])
            /\ stack' = Replace([Top EXCEPT !.iter = answer.iter])
         \/ /\ ~answer.found
            /\ stack' = Replace([Top EXCEPT !.of = "children", !.iter = Inside(Top.node)])
            /\ seen' = seen
  BY <1>1 DEF DumpProp
<1>3. open = 0 /\ ~OnlyNops
  BY <1>2 DEF DInv
<1>4. (answer.found <=> TypeAt(Top.iter.at) = "prop") /\ answer.at = Top.iter.at
  BY <1>1 DEF PropNext
<1>5. ASSUME Tidy PROVE \E F \in 1 .. Len(tape) : SeenTo(seen', F) /\ Reading(stack', F)
  <2>1. PICK F \in 1 .. Len(tape) : SeenTo(seen, F) /\ Reading(stack, F)
    BY <1>2, <1>5, TapeOf DEF ReadTo
  <2>2. TidyTape
    BY <1>2, <1>5, TapeOf
  <2>3. PICK top : top = Last(stack) /\ top = Top
    BY DEF Top
  <2>4. CASE answer.found
    <3>1. /\ F + 1 \in 1 .. Len(tape)
          /\ Reading(Append(Front(stack), [top EXCEPT !.iter = PropNext(top.iter).iter]), F + 1)
          /\ SeenTo(Append(seen, [at |-> top.iter.at, cells |-> top.cells]), F + 1)
      BY <1>2, <1>4, <2>1, <2>2, <2>3, <2>4, PropFound
    <3> QED BY <1>1, <1>2, <1>4, <2>3, <2>4, <3>1 DEF Replace
  <2>5. CASE ~answer.found
    <3>1. Reading(Append(Front(stack), [top EXCEPT !.of = "children", !.iter = Inside(top.node)]), F)
      BY <1>2, <1>4, <2>1, <2>2, <2>3, <2>5, PropsOver
    <3> QED BY <1>2, <2>1, <2>3, <2>5, <3>1 DEF Replace
  <2> QED BY <2>4, <2>5
<1> QED BY <1>2, <1>3, <1>5, ReadsKeep

LEMMA DumpChildKeeps == ASSUME DInv, DumpChild PROVE DInv'
<1>1. PICK answer : answer = ChildNext(Top.iter)
  OBVIOUS
<1>2. /\ phase = "dump" /\ Top.of = "children" /\ tape' = tape /\ open' = open
      /\ \/ /\ answer.found /\ phase' = "dump"
            /\ stack' = Append(Replace([Top EXCEPT !.iter = answer.iter]), Node(answer.at, Top.cells))
            /\ seen' = Append(seen, [at |-> answer.at, cells |-> Top.cells])
         \/ /\ ~answer.found /\ stack' = Front(stack) /\ seen' = seen
            /\ phase' = IF Len(stack) = 1 THEN "done" ELSE phase
  BY <1>1 DEF DumpChild
<1>3. open = 0 /\ ~OnlyNops
  BY <1>2 DEF DInv
<1>4. ASSUME Tidy
      PROVE  \E F \in 1 .. Len(tape) :
                /\ SeenTo(seen', F)
                /\ phase' = "dump" => Reading(stack', F)
                /\ phase' = "done" => \A m \in F + 1 .. Len(tape) : tape[m].type = "nop"
  <2>1. PICK F \in 1 .. Len(tape) : SeenTo(seen, F) /\ Reading(stack, F)
    BY <1>2, <1>4, TapeOf DEF ReadTo
  <2>2. TidyTape
    BY <1>2, <1>4, TapeOf
  <2>3. PICK top : top = Last(stack) /\ top = Top
    BY DEF Top
  <2>4. CASE answer.found
    <3>1. /\ answer.at \in 1 .. Len(tape)
          /\ Reading(Append(Append(Front(stack), [top EXCEPT !.iter = answer.iter]), Node(answer.at, top.cells)),
                     answer.at)
          /\ SeenTo(Append(seen, [at |-> answer.at, cells |-> top.cells]), answer.at)
      BY <1>1, <1>2, <2>1, <2>2, <2>3, <2>4, ChildFound
    <3> QED BY <1>2, <2>3, <2>4, <3>1 DEF Replace
  <2>5. CASE ~answer.found
    <3>1. /\ answer.at \in 1 .. Len(tape)
          /\ SeenTo(seen, answer.at)
          /\ Len(stack) # 1 => Reading(Front(stack), answer.at)
          /\ Len(stack) = 1 => \A m \in answer.at + 1 .. Len(tape) : tape[m].type = "nop"
      BY <1>1, <1>2, <2>1, <2>2, <2>3, <2>5, ChildrenOver
    <3> QED BY <1>2, <2>5, <3>1
  <2> QED BY <2>4, <2>5
<1>5. phase' \in {"dump", "done"}
  BY <1>2
<1> QED BY <1>2, <1>3, <1>4, <1>5, ReadsKeep

LEMMA DNextKeeps == ASSUME DInv, [Next]_vars PROVE DInv'
<1>0. NoCells \in CellCounts \cup {NoCells}
  OBVIOUS
<1>1. CASE WriteBegin
  <2>1. PICK token : token = Token("begin", NoCells)
    OBVIOUS
  <2>2. token \in Tokens /\ token.type = "begin" /\ Weight(token.type) = 1
    BY <1>0, <2>1 DEF Token, Tokens, Kinds, Weight
  <2>3. phase = "write" /\ phase' = phase /\ tape' = Append(tape, token) /\ open' = open + 1 /\ (open > 0 \/ OnlyNops)
    BY <1>1, <2>1 DEF WriteBegin, Write
  <2> QED BY <2>2, <2>3, WritesKeep
<1>2. CASE WriteNop
  <2>1. PICK token : token = Token("nop", NoCells)
    OBVIOUS
  <2>2. token \in Tokens /\ token.type = "nop" /\ Weight(token.type) = 0
    BY <1>0, <2>1 DEF Token, Tokens, Kinds, Weight
  <2>3. phase = "write" /\ phase' = phase /\ tape' = Append(tape, token) /\ open' = open /\ open \in Int
    BY <1>2, <2>1, HeightIs DEF WriteNop, Write, DInv, WellWritten
  <2> QED BY <2>2, <2>3, WritesKeep
<1>3. CASE WriteEnd
  <2>1. PICK token : token = Token("end", NoCells)
    OBVIOUS
  <2>2. token \in Tokens /\ token.type = "end" /\ Weight(token.type) = -1
    BY <1>0, <2>1 DEF Token, Tokens, Kinds, Weight
  <2>3. phase = "write" /\ phase' = phase /\ tape' = Append(tape, token) /\ open' = open - 1 /\ open > 0 /\ open \in Int
    BY <1>3, <2>1, HeightIs DEF WriteEnd, DInv, WellWritten
  <2> QED BY <2>2, <2>3, WritesKeep
<1>4. ASSUME NEW cells \in CellCounts \cup {NoCells}, WriteProp(cells) PROVE DInv'
  <2>1. PICK token : token = Token("prop", cells)
    OBVIOUS
  <2>2. token \in Tokens /\ token.type = "prop" /\ Weight(token.type) = 0
    BY <2>1 DEF Token, Tokens, Kinds, Weight
  <2>3. phase = "write" /\ phase' = phase /\ tape' = Append(tape, token) /\ open' = open /\ open \in Int /\ AmongProps
    BY <1>4, <2>1, HeightIs DEF WriteProp, Write, DInv, WellWritten
  <2> QED BY <2>2, <2>3, WritesKeep
<1>5. CASE StartDump
  BY <1>5, StartDumpKeeps
<1>6. CASE DumpStep
  BY <1>6, DumpPropKeeps, DumpChildKeeps DEF DumpStep
<1>7. CASE UNCHANGED vars
  <2>1. tape' = tape /\ open' = open /\ phase' = phase /\ stack' = stack /\ seen' = seen
    BY <1>7 DEF vars
  <2>2. WellWritten(tape, open)'
    BY <2>1 DEF DInv, WellWritten
  <2> QED BY <2>1, <2>2, SameTape DEF DInv, ReadTo
<1> QED BY <1>1, <1>2, <1>3, <1>4, <1>5, <1>6, <1>7 DEF Next

LEMMA AlwaysDInv == Spec => []DInv
<1> USE DInitHolds, DNextKeeps
<1> QED BY PTL DEF Spec

(* On every tape with no NOP out of place, dump has at every call read just *)
(* a first part of the nodes and properties, each once and in order, and    *)
(* all of them when it returns (Node::dump, iterProp, iterChildren).        *)
THEOREM DumpAlwaysReadsTheTape == Spec => []DumpReadsTheTape
<1>1. ASSUME DInv PROVE DumpReadsTheTape
  <2> SUFFICES ASSUME phase # "write", Tidy
               PROVE  /\ IsPrefix(Visited, Places[Len(tape)])
                      /\ phase = "done" => Visited = Places[Len(tape)]
    BY DEF DumpReadsTheTape
  <2>1. TidyTape
    BY <1>1, TapeOf
  <2>2. PICK F \in 1 .. Len(tape) : ReadTo(F)
    BY <1>1, TapeOf
  <2>3. Visited = Places[F]
    BY <2>2 DEF ReadTo, SeenTo, Visited
  <2>4. Len(tape) \in Nat /\ Len(tape) \in F .. Len(tape) /\ F \in 0 .. Len(tape) /\ Len(tape) \in 0 .. Len(tape)
    BY <2>1 DEF TidyTape
  <2>5. IsPrefix(Places[F], Places[Len(tape)])
    <3>1. Extends(Places[F], Places[Len(tape)])
      BY <2>1, <2>4, PlacesExtend
    <3>2. Places[F] \in Seq(Nat) /\ Places[Len(tape)] \in Seq(Nat)
      BY <2>1, <2>4, PlacesAre
    <3> QED BY <3>1, <3>2, PrefixIs
  <2>6. ASSUME phase = "done" PROVE Places[Len(tape)] = Places[F]
    <3>1. \A m \in F + 1 .. Len(tape) : tape[m].type \in {"nop", "end"}
      BY <2>2, <2>6 DEF ReadTo
    <3> QED BY <2>1, <2>4, <3>1, PlacesStay
  <2> QED BY <2>3, <2>5, <2>6
<1> QED BY <1>1, AlwaysDInv, PTL

(* A property is parsed with the cells its innermost node gives, however    *)
(* deep the tree (the constructor of Node, getProperty).                    *)
THEOREM CellsAlwaysComeFromTheInnermost == Spec => []CellsComeFromTheInnermost
<1>1. ASSUME DInv PROVE CellsComeFromTheInnermost
  <2> SUFFICES ASSUME phase # "write", Tidy, NEW k \in DOMAIN seen, tape[seen[k].at].type = "prop"
               PROVE  seen[k].cells = CellsAt(seen[k].at)
    BY Zenon DEF CellsComeFromTheInnermost, CellsAt, CellsAmong
  <2>1. PICK F \in 1 .. Len(tape) : ReadTo(F)
    BY <1>1, TapeOf
  <2> QED BY <2>1 DEF ReadTo, SeenTo
<1> QED BY <1>1, AlwaysDInv, PTL

=============================================================================
