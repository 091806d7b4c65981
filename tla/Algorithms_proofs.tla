--------------------------- MODULE Algorithms_proofs ---------------------------
(***************************************************************************)
(* What the code computes, for every value of the constants.  First, sizing*)
(* base address registers tells every range and moves none: what one      *)
(* register, or a pair, answers, by the arithmetic of remainders, then the*)
(* walk.  Then the functions without state, one set of questions after the*)
(* other; what is defined by recursion is shown to be a function first,   *)
(* and what it answers by the least number it could be wrong for.         *)
(***************************************************************************)
EXTENDS Algorithms, PciBars, WellFoundedInduction, SequenceTheorems, TLAPS

(* Arithmetic. *)

(* A number is made up of its quotient and its remainder.                   *)
LEMMA Divided ==
    ASSUME NEW n \in Nat \ {0}, NEW x \in Nat
    PROVE  \E q \in Nat, r \in Nat : q = x \div n /\ r = x % n /\ r < n /\ x = n * q + r
<1>1. x \div n \in Nat /\ x % n \in Nat /\ x % n < n
  OBVIOUS
<1>2. x - (x % n) <= n * (x \div n)
  OBVIOUS
<1>3. x >= n * (x \div n) + (x % n)
  OBVIOUS
<1>4. PICK q \in Nat, r \in Nat : q = x \div n /\ r = x % n
  BY <1>1
<1>5. r < n /\ x - r <= n * q /\ x >= n * q + r
  BY <1>1, <1>2, <1>3, <1>4
<1>6. x = n * q + r
  BY <1>5
<1> QED BY <1>4, <1>5, <1>6

LEMMA Steps ==
    ASSUME NEW n \in Nat, NEW q \in Nat, NEW k \in Nat, q < k
    PROVE  n * k >= n * q + n
<1>1. PICK d \in Nat : k = q + 1 + d
  <2>1. k - (q + 1) \in Nat /\ k = q + 1 + (k - (q + 1))
    OBVIOUS
  <2> QED BY <2>1
<1>2. n * k = n * q + n + n * d
  BY <1>1
<1>3. n * d \in Nat
  BY <1>1
<1> QED BY <1>2, <1>3

(* And of no other.                                                         *)
LEMMA Division ==
    ASSUME NEW n \in Nat \ {0}, NEW q \in Nat, NEW r \in Nat, r < n
    PROVE  (n * q + r) % n = r /\ (n * q + r) \div n = q
<1>1. PICK x \in Nat : x = n * q + r
  OBVIOUS
<1>2. PICK p \in Nat, s \in Nat : p = x \div n /\ s = x % n /\ s < n /\ x = n * p + s
  BY <1>1, Divided
<1>3. ~ p < q
  <2> SUFFICES ASSUME p < q PROVE FALSE
    OBVIOUS
  <2>1. n * q >= n * p + n
    BY Steps
  <2> QED BY <2>1, <1>1, <1>2
<1>4. ~ q < p
  <2> SUFFICES ASSUME q < p PROVE FALSE
    OBVIOUS
  <2>1. n * p >= n * q + n
    BY Steps
  <2> QED BY <2>1, <1>1, <1>2
<1>5. p = q
  BY <1>3, <1>4
<1>6. s = r
  BY <1>1, <1>2, <1>5
<1> QED BY <1>1, <1>2, <1>5, <1>6

LEMMA FloorOf ==
    ASSUME NEW n \in Nat \ {0}, NEW q \in Nat, NEW r \in Nat, r < n
    PROVE  Floor(n * q + r, n) = n * q
<1>1. PICK x \in Nat, y \in Nat : x = n * q + r /\ y = n * q
  OBVIOUS
<1>2. x % n = r /\ x = y + r
  BY <1>1, Division
<1>3. x - (x % n) = y
  BY <1>2
<1> QED BY <1>1, <1>3 DEF Floor

LEMMA Multiple ==
    ASSUME NEW n \in Nat \ {0}, NEW x \in Nat, x % n = 0
    PROVE  \E q \in Nat : q = x \div n /\ x = n * q
BY Divided

(* What is a multiple of n and m more than that, m below n, comes down to   *)
(* the multiple.                                                            *)
LEMMA FloorOfMore ==
    ASSUME NEW n \in Nat \ {0}, NEW x \in Nat, x % n = 0, NEW r \in Nat, r < n
    PROVE  Floor(x + r, n) = x
<1>1. PICK q \in Nat : x = n * q
  BY Multiple
<1> QED BY <1>1, FloorOf

(* The largest value below a multiple w of n comes down to w - n.           *)
LEMMA FloorOfLargest ==
    ASSUME NEW n \in Nat \ {0}, NEW w \in Nat \ {0}, w % n = 0
    PROVE  Floor(w - 1, n) = w - n /\ w >= n /\ (w - n) % n = 0
<1>1. PICK q \in Nat : w = n * q
  BY Multiple
<1>2. q # 0
  BY <1>1
<1>3. PICK p \in Nat : q = p + 1
  <2>1. q - 1 \in Nat /\ q = (q - 1) + 1
    BY <1>2
  <2> QED BY <2>1
<1>4. w = n * p + n
  BY <1>1, <1>3
<1>5. PICK y \in Nat : y = n * p
  OBVIOUS
<1>6. Floor(n * p + (n - 1), n) = n * p
  <2>1. PICK r \in Nat : r = n - 1 /\ r < n
    <3>1. n - 1 \in Nat /\ n - 1 < n
      OBVIOUS
    <3> QED BY <3>1
  <2>2. Floor(n * p + r, n) = n * p
    BY <2>1, FloorOf
  <2> QED BY <2>1, <2>2
<1>7. (n * p + 0) % n = 0
  BY Division
<1>8. w - 1 = y + (n - 1) /\ w - n = y /\ y + 0 = y
  BY <1>4, <1>5
<1> QED BY <1>4, <1>5, <1>6, <1>7, <1>8

(* A multiple of a multiple is one.                                         *)
LEMMA MultipleOfMultiple ==
    ASSUME NEW n \in Nat \ {0}, NEW m \in Nat \ {0}, m % n = 0, NEW x \in Nat, x % m = 0
    PROVE  x % n = 0
<1>1. PICK a \in Nat : m = n * a
  BY Multiple
<1>2. PICK b \in Nat : x = m * b
  BY Multiple
<1>3. x = n * (a * b) + 0 /\ a * b \in Nat
  BY <1>1, <1>2
<1>4. (n * (a * b) + 0) % n = 0
  BY <1>3, Division
<1> QED BY <1>3, <1>4

(* The remainder by a multiple of n keeps whether n divides.                *)
LEMMA RemainderOfMultiple ==
    ASSUME NEW n \in Nat \ {0}, NEW m \in Nat \ {0}, m % n = 0, NEW x \in Nat, x % n = 0
    PROVE  (x % m) % n = 0
<1>1. PICK a \in Nat : m = n * a
  BY Multiple
<1>2. PICK b \in Nat : x = n * b
  BY Multiple
<1>3. PICK q \in Nat, r \in Nat : q = x \div m /\ r = x % m /\ r < m /\ x = m * q + r
  BY Divided
<1>4. PICK c \in Nat, s \in Nat : c = r \div n /\ s = r % n /\ s < n /\ r = n * c + s
  BY <1>3, Divided
<1>5. x = n * (a * q + c) + s /\ a * q + c \in Nat
  <2>1. m * q = n * (a * q)
    BY <1>1
  <2>2. n * (a * q) + n * c = n * (a * q + c)
    OBVIOUS
  <2> QED BY <2>1, <2>2, <1>3, <1>4
<1>6. (n * (a * q + c) + s) % n = s
  BY <1>4, <1>5, Division
<1> QED BY <1>3, <1>4, <1>5, <1>6

(* ~x + 1 gives back what x falls short of 2^n.                             *)
LEMMA NegatedBack ==
    ASSUME NEW values \in Nat \ {0}, NEW size \in Nat \ {0}, size < values
    PROVE  Negated(values - size, values) = size
<1>1. values - (values - size) = size
  OBVIOUS
<1>2. (values * 0 + size) % values = size
  BY Division
<1>3. size % values = size
  BY <1>2
<1> QED BY <1>1, <1>3 DEF Negated

-----------------------------------------------------------------------------
(* Registers. *)

LEMMA Words ==
    /\ HalfWord \in Nat \ {0} /\ HalfWord >= 16 /\ HalfWord <= Word
    /\ Word \in Nat \ {0} /\ Word >= 16 /\ Word % 16 = 0 /\ Word % 4 = 0
    /\ Word * Word \in Nat \ {0} /\ Word < Word * Word
<1>1. HalfWord \in Nat \ {0} /\ Word = HalfWord * HalfWord
  BY PciAssumption
<1>2. PICK a \in Nat : HalfWord = 16 * a /\ a # 0
  <2>1. HalfWord % 16 = 0
    BY PciAssumption
  <2>2. PICK a \in Nat : HalfWord = 16 * a
    BY <1>1, <2>1, Multiple
  <2> QED BY <1>1, <2>2
<1>3. HalfWord >= 16
  BY <1>2
<1>4. \A n \in Nat : n >= 16 => n * n >= n * 16
  OBVIOUS
<1>5. HalfWord <= Word /\ Word \in Nat \ {0} /\ Word >= 16
  BY <1>1, <1>3, <1>4
<1>6. Word % 16 = 0 /\ Word % 4 = 0
  <2>1. Word = 16 * (a * HalfWord) /\ a * HalfWord \in Nat
    BY <1>1, <1>2
  <2>2. PICK c \in Nat : Word = 16 * c
    BY <2>1
  <2> QED BY <2>2
<1>7. Word * Word >= Word * 16
  BY <1>4, <1>5
<1> QED BY <1>1, <1>3, <1>5, <1>6, <1>7

Cells == Bars \cup {Upper(b) : b \in {c \in Bars : c.type = MMIO64}}

Told(b) == [type |-> b.type, start |-> b.base, size |-> b.size, prefetch |-> b.prefetch]

LEMMA BarTypes ==
    ASSUME NEW b \in Bars
    PROVE  /\ b.type \in {PIO, MMIO32, MMIO64, NONE} /\ b.base \in Nat /\ b.size \in Nat
           /\ b.prefetch \in BOOLEAN
           /\ b.type # NONE => b.size \in Nat \ {0} /\ b.base % b.size = 0
BY PciAssumption

(* A register of a range below 2^32: at boot it holds base and type bits,   *)
(* asked for all ones it answers the complement of the size and the type    *)
(* bits, and putting the first value back restores it.                      *)
LEMMA LowRegister ==
    ASSUME NEW size \in Nat \ {0}, NEW base \in Nat, base % size = 0, base < Word,
           Word % size = 0, NEW bits \in Nat, bits < size
    PROVE  /\ Floor(base % Word, size) + bits = base + bits
           /\ Floor(base + bits, size) + bits = base + bits
           /\ Floor(AllOnes, size) + bits = (Word - size) + bits
           /\ Word - size \in Nat
<1>1. base % Word = base
  <2>1. (Word * 0 + base) % Word = base
    BY Words, Division
  <2> QED BY <2>1, Words
<1>2. Floor(base + 0, size) = base /\ Floor(base + bits, size) = base
  <2>1. Floor(base + bits, size) = base
    BY FloorOfMore
  <2>2. \A r \in Nat : r < size => Floor(base + r, size) = base
    BY FloorOfMore
  <2> QED BY <2>1, <2>2
<1>3. base + 0 = base
  OBVIOUS
<1>4. Floor(AllOnes, size) = Word - size /\ Word >= size
  BY Words, FloorOfLargest DEF AllOnes
<1>5. Word - size \in Nat
  BY <1>4, Words
<1> QED BY <1>1, <1>2, <1>3, <1>4, <1>5

LEMMA PioRegister ==
    ASSUME NEW b \in Bars, b.type = PIO
    PROVE  /\ Boot(b) \in Nat \ {0} /\ Boot(b) % 2 = 1
           /\ Holds(b, Boot(b)) = Boot(b)
           /\ Holds(b, AllOnes) \notin {0, AllOnes}
           /\ Parse(Boot(b), Holds(b, AllOnes), 0, 0) = Told(b)
<1>1. PICK size \in Nat \ {0}, base \in Nat : size = b.size /\ base = b.base
  BY BarTypes DEF PIO, NONE
<1>2. base % size = 0 /\ base < Word /\ Word % size = 0 /\ size % 4 = 0 /\ size < HalfWord
  BY <1>1, PciAssumption DEF PIO, NONE
<1>3. \A v : Holds(b, v) = Floor(v, size) + 1
  <2>1. TypeBits(b) = 1
    BY DEF TypeBits, PIO, MMIO32, MMIO64
  <2>2. b.type # NONE /\ b.type # HIGH /\ b.type # MMIO64
    BY DEF PIO, NONE, HIGH, MMIO64
  <2> QED BY <1>1, <2>1, <2>2 DEF Holds
<1>4. size >= 4
  BY <1>2
<1>5. Boot(b) = base + 1 /\ Holds(b, base + 1) = base + 1
      /\ Holds(b, AllOnes) = (Word - size) + 1 /\ Word - size \in Nat
  <2>1. /\ Floor(base % Word, size) + 1 = base + 1 /\ Floor(base + 1, size) + 1 = base + 1
        /\ Floor(AllOnes, size) + 1 = (Word - size) + 1 /\ Word - size \in Nat
    BY <1>2, <1>4, LowRegister
  <2> QED BY <1>1, <1>3, <2>1 DEF Boot, PIO, HIGH
<1>6. base % 4 = 0 /\ (Word - size) % 4 = 0
  <2>1. base % 4 = 0
    <3>1. PICK n \in Nat \ {0} : n = 4
      OBVIOUS
    <3>2. size % n = 0
      BY <1>2, <3>1
    <3>3. base % n = 0
      BY <1>2, <3>2, MultipleOfMultiple
    <3> QED BY <3>1, <3>3
  <2>2. (Word - size) % size = 0
    BY <1>2, Words, FloorOfLargest
  <2> QED BY <1>2, <1>5, <2>1, <2>2, MultipleOfMultiple
<1>7. (base + 1) % 2 = 1
  BY <1>6
<1>8. Floor(base + 1, 4) = base /\ Floor((Word - size) + 1, 4) = Word - size
  BY <1>5, <1>6, FloorOfMore
<1>9. Negated(Word - size, Word) % HalfWord = size
  <2>1. size < Word
    BY <1>2, Words
  <2>2. Negated(Word - size, Word) = size
    BY <2>1, Words, NegatedBack
  <2>3. (HalfWord * 0 + size) % HalfWord = size
    BY <1>2, Words, Division
  <2>4. HalfWord * 0 + size = size
    BY Words
  <2> QED BY <2>2, <2>3, <2>4
<1>10. b.prefetch = FALSE
  BY PciAssumption
<1>11. Word - size + 1 # 0 /\ Word - size + 1 # AllOnes
  BY <1>4, <1>5, Words DEF AllOnes
<1> QED
  <2>1. base + 1 # 0
    OBVIOUS
  <2>2. Parse(base + 1, (Word - size) + 1, 0, 0) =
          [type |-> PIO, start |-> base, size |-> size, prefetch |-> FALSE]
    BY <1>7, <1>8, <1>9, <2>1 DEF Parse
  <2>3. Told(b) = [type |-> PIO, start |-> base, size |-> size, prefetch |-> FALSE]
    BY <1>1, <1>10 DEF Told
  <2> QED BY <1>5, <1>7, <1>11, <2>1, <2>2, <2>3

(* The type bits of a memory range sit below its size and come back apart.  *)
LEMMA MemoryBits ==
    ASSUME NEW x \in Nat, x % 16 = 0, NEW b, b.prefetch \in BOOLEAN
    PROVE  /\ b.type = MMIO32 => LET t == TypeBits(b)
              IN  /\ t \in {0, 8} /\ (x + t) % 2 = 0 /\ ((x + t) \div 2) % 4 # 2
                  /\ ((x + t) \div 8) % 2 = 1 <=> b.prefetch
           /\ b.type = MMIO64 => LET t == TypeBits(b)
              IN  /\ t \in {4, 12} /\ (x + t) % 2 = 0 /\ ((x + t) \div 2) % 4 = 2
                  /\ ((x + t) \div 8) % 2 = 1 <=> b.prefetch
<1>1. b.type = MMIO32 => TypeBits(b) = IF b.prefetch THEN 8 ELSE 0
  BY DEF TypeBits, PIO, MMIO32, MMIO64
<1>2. b.type = MMIO64 => TypeBits(b) = 4 + (IF b.prefetch THEN 8 ELSE 0)
  BY DEF TypeBits, PIO, MMIO32, MMIO64
<1>3. /\ (x + 0) % 2 = 0 /\ ((x + 0) \div 2) % 4 # 2 /\ ((x + 0) \div 8) % 2 # 1
      /\ (x + 8) % 2 = 0 /\ ((x + 8) \div 2) % 4 # 2 /\ ((x + 8) \div 8) % 2 = 1
      /\ (x + 4) % 2 = 0 /\ ((x + 4) \div 2) % 4 = 2 /\ ((x + 4) \div 8) % 2 # 1
      /\ (x + 12) % 2 = 0 /\ ((x + 12) \div 2) % 4 = 2 /\ ((x + 12) \div 8) % 2 = 1
  <2>1. PICK a \in Nat : x = 16 * a
    BY Multiple
  <2>2. /\ (16 * a + 0) % 2 = 0 /\ ((16 * a + 0) \div 2) % 4 # 2 /\ ((16 * a + 0) \div 8) % 2 # 1
        /\ (16 * a + 8) % 2 = 0 /\ ((16 * a + 8) \div 2) % 4 # 2 /\ ((16 * a + 8) \div 8) % 2 = 1
    OBVIOUS
  <2>3. /\ (16 * a + 4) % 2 = 0 /\ ((16 * a + 4) \div 2) % 4 = 2 /\ ((16 * a + 4) \div 8) % 2 # 1
        /\ (16 * a + 12) % 2 = 0 /\ ((16 * a + 12) \div 2) % 4 = 2 /\ ((16 * a + 12) \div 8) % 2 = 1
    OBVIOUS
  <2> QED BY <2>1, <2>2, <2>3
<1>4. CASE b.prefetch = TRUE
  <2>1. b.type = MMIO32 => TypeBits(b) = 8
    BY <1>1, <1>4
  <2>2. b.type = MMIO64 => TypeBits(b) = 12
    BY <1>2, <1>4
  <2> QED BY <1>3, <1>4, <2>1, <2>2
<1>5. CASE b.prefetch = FALSE
  <2>1. b.type = MMIO32 => TypeBits(b) = 0
    BY <1>1, <1>5
  <2>2. b.type = MMIO64 => TypeBits(b) = 4
    BY <1>2, <1>5
  <2> QED BY <1>3, <1>5, <2>1, <2>2
<1> QED BY <1>4, <1>5

LEMMA Sixteen ==
    ASSUME NEW size \in Nat \ {0}, size % 16 = 0
    PROVE  /\ size >= 16
           /\ \A x \in Nat : x % size = 0 => x % 16 = 0
<1>1. PICK n \in Nat \ {0} : n = 16
  OBVIOUS
<1>2. size % n = 0
  BY <1>1
<1>3. \A x \in Nat : x % size = 0 => x % n = 0
  BY <1>2, MultipleOfMultiple
<1>4. size >= 16
  OBVIOUS
<1> QED BY <1>1, <1>3, <1>4

LEMMA Floor16 ==
    ASSUME NEW x \in Nat, x % 16 = 0, NEW r \in Nat, r < 16
    PROVE  Floor(x + r, 16) = x
<1>1. (x + r) % 16 = r
  OBVIOUS
<1> QED BY <1>1 DEF Floor

LEMMA Mmio32Register ==
    ASSUME NEW b \in Bars, b.type = MMIO32
    PROVE  /\ Boot(b) \in Nat /\ Boot(b) % 2 = 0 /\ (Boot(b) \div 2) % 4 # 2
           /\ Holds(b, Boot(b)) = Boot(b)
           /\ Holds(b, AllOnes) \notin {0, AllOnes}
           /\ Boot(b) # 0 => Parse(Boot(b), Holds(b, AllOnes), 0, 0) = Told(b)
<1>1. PICK size \in Nat \ {0}, base \in Nat : size = b.size /\ base = b.base
  BY BarTypes DEF MMIO32, NONE
<1>2. base % size = 0 /\ base < Word /\ Word % size = 0 /\ size % 16 = 0 /\ size < Word
  BY <1>1, PciAssumption DEF MMIO32, NONE
<1>3. size >= 16 /\ base % 16 = 0
  BY <1>2, Sixteen
<1>4. PICK t \in Nat : /\ t = TypeBits(b) /\ t \in {0, 8} /\ (base + t) % 2 = 0
                       /\ ((base + t) \div 2) % 4 # 2
                       /\ ((base + t) \div 8) % 2 = 1 <=> b.prefetch
  <2>1. b.prefetch \in BOOLEAN
    BY BarTypes
  <2> QED BY <1>3, <2>1, MemoryBits
<1>5. \A v : Holds(b, v) = Floor(v, size) + t
  <2>1. b.type # NONE /\ b.type # HIGH /\ b.type # MMIO64
    BY DEF MMIO32, NONE, HIGH, MMIO64
  <2> QED BY <1>1, <1>4, <2>1 DEF Holds
<1>6. Boot(b) = base + t /\ Holds(b, base + t) = base + t
      /\ Holds(b, AllOnes) = (Word - size) + t /\ Word - size \in Nat
  <2>1. t < size
    BY <1>3, <1>4
  <2>2. /\ Floor(base % Word, size) + t = base + t /\ Floor(base + t, size) + t = base + t
        /\ Floor(AllOnes, size) + t = (Word - size) + t /\ Word - size \in Nat
    BY <1>2, <2>1, LowRegister
  <2> QED BY <1>1, <1>5, <2>2 DEF Boot, MMIO32, HIGH
<1>7. (Word - size) % 16 = 0
  <2>1. (Word - size) % size = 0
    BY <1>2, Words, FloorOfLargest
  <2> QED BY <1>2, <1>6, <2>1, Sixteen
<1>8. Floor(base + t, 16) = base /\ Floor((Word - size) + t, 16) = Word - size
  <2>1. t < 16
    BY <1>4
  <2> QED BY <2>1, <1>3, <1>6, <1>7, Floor16
<1>9. Negated(Word - size, Word * Word) % Word = size
  <2>1. PICK w \in Nat : w = Word * Word /\ w > Word
    BY Words
  <2>2. w - (Word - size) = Word * (Word - 1) + size
    <3>1. Word * (Word - 1) = w - Word
      BY <2>1, Words
    <3>2. \A x \in Int : w - (Word - x) = (w - Word) + x
      BY <2>1, Words
    <3> QED BY <3>1, <3>2
  <2>3. w - (Word - size) < w /\ w - (Word - size) \in Nat
    BY <1>2, <2>1, Words
  <2>4. Negated(Word - size, w) = Word * (Word - 1) + size
    <3>1. PICK x \in Nat : x = w - (Word - size) /\ x < w
      BY <2>3
    <3>2. (w * 0 + x) % w = x
      BY <3>1, <2>1, Words, Division
    <3>3. w * 0 + x = x
      BY <2>1, <3>1
    <3> QED BY <3>1, <3>2, <3>3, <2>2 DEF Negated
  <2>5. (Word * (Word - 1) + size) % Word = size
    <3>1. Word - 1 \in Nat
      BY Words
    <3> QED BY <1>2, <3>1, Words, Division
  <2> QED BY <2>1, <2>4, <2>5
<1>10. (Word - size) + t # 0 /\ (Word - size) + t # AllOnes
  BY <1>2, <1>3, <1>4, Words DEF AllOnes
<1>11. ASSUME base + t # 0
       PROVE  Parse(base + t, (Word - size) + t, 0, 0) = Told(b)
  <2>1. Parse(base + t, (Word - size) + t, 0, 0) =
          [type |-> MMIO32, start |-> base, size |-> size,
           prefetch |-> ((base + t) \div 8) % 2 = 1]
    <3>1. (base + t) % 2 # 1
      BY <1>4
    <3> QED BY <1>4, <1>8, <1>9, <1>11, <3>1 DEF Parse
  <2>2. (((base + t) \div 8) % 2 = 1) = b.prefetch
    BY <1>4, BarTypes, Zenon
  <2> QED BY <1>1, <2>1, <2>2 DEF Told
<1> QED BY <1>4, <1>6, <1>10, <1>11

(* What parse makes of a pair of registers.                                 *)
LEMMA ParsePair ==
    ASSUME NEW b \in Bars, b.type = MMIO64,
           NEW l \in Nat, l % 16 = 0, NEW m \in Nat, m % 16 = 0, NEW h \in Nat, NEW g \in Nat
    PROVE  LET t == TypeBits(b)
           IN  /\ (l + t) % 2 = 0 /\ ((l + t) \div 2) % 4 = 2 /\ l + t # 0
               /\ h * Word + l = b.base /\ g * Word + m = Word * Word - b.size =>
                     Parse(l + t, m + t, h, g) = Told(b)
<1>1. PICK size \in Nat \ {0}, base \in Nat : size = b.size /\ base = b.base
  BY BarTypes DEF MMIO64, NONE
<1>2. PICK t \in Nat : /\ t = TypeBits(b) /\ t \in {4, 12} /\ (l + t) % 2 = 0
                       /\ ((l + t) \div 2) % 4 = 2
                       /\ ((l + t) \div 8) % 2 = 1 <=> b.prefetch
  <2>1. b.prefetch \in BOOLEAN
    BY BarTypes
  <2>2. /\ TypeBits(b) \in {4, 12} /\ (l + TypeBits(b)) % 2 = 0
        /\ ((l + TypeBits(b)) \div 2) % 4 = 2
        /\ ((l + TypeBits(b)) \div 8) % 2 = 1 <=> b.prefetch
    BY <2>1, MemoryBits
  <2> QED BY <2>2
<1>3. Floor(l + t, 16) = l /\ Floor(m + t, 16) = m
  <2>1. t < 16
    BY <1>2
  <2> QED BY <2>1, Floor16
<1>4. l + t # 0 /\ (l + t) % 2 # 1
  BY <1>2
<1>5. (((l + t) \div 8) % 2 = 1) = b.prefetch
  BY <1>2, BarTypes, Zenon
<1>6. ASSUME h * Word + l = b.base, g * Word + m = Word * Word - b.size
      PROVE  Parse(l + t, m + t, h, g) = Told(b)
  <2>1. Negated(g * Word + m, Word * Word) = size
    <3>1. PICK w \in Nat \ {0} : w = Word * Word
      BY Words
    <3>2. size < w
      BY <1>1, <3>1, PciAssumption DEF MMIO64
    <3>3. Negated(w - size, w) = size
      BY <3>2, NegatedBack
    <3> QED BY <1>1, <1>6, <3>1, <3>3
  <2>2. Parse(l + t, m + t, h, g) =
          [type |-> MMIO64, start |-> h * Word + Floor(l + t, 16),
           size |-> Negated(g * Word + Floor(m + t, 16), Word * Word),
           prefetch |-> ((l + t) \div 8) % 2 = 1]
    BY <1>2, <1>4 DEF Parse
  <2>3. Parse(l + t, m + t, h, g) =
          [type |-> MMIO64, start |-> base, size |-> size, prefetch |-> ((l + t) \div 8) % 2 = 1]
    BY <1>1, <1>3, <1>6, <2>1, <2>2
  <2> QED BY <1>1, <1>5, <2>3 DEF Told
<1> QED BY <1>2, <1>4, <1>6

LEMMA UpperHolds ==
    ASSUME NEW b \in Bars, b.type = MMIO64
    PROVE  /\ Upper(b).type = HIGH /\ Upper(b).size = b.size /\ Upper(b).base = b.base
           /\ Boot(Upper(b)) = Holds(Upper(b), b.base \div Word)
           /\ b.size < Word \/ b.size = Word => \A v : Holds(Upper(b), v) = Floor(v, 1)
           /\ b.size > Word => \A v : Holds(Upper(b), v) = Floor(v, b.size \div Word)
<1>1. b \in [type : {PIO, MMIO32, MMIO64, NONE}, base : Nat, size : Nat, prefetch : BOOLEAN]
  BY PciAssumption
<1>2. Upper(b).type = HIGH /\ Upper(b).size = b.size /\ Upper(b).base = b.base
  BY <1>1 DEF Upper
<1>3. \A v : Holds(Upper(b), v) = Floor(v, IF b.size > Word THEN b.size \div Word ELSE 1)
  BY <1>2 DEF Holds, HIGH, NONE, MMIO64
<1>4. b.size < Word \/ b.size = Word => ~ b.size > Word
  BY <1>1, Words
<1> QED BY <1>2, <1>3, <1>4 DEF Boot

LEMMA Mmio64Register ==
    ASSUME NEW b \in Bars, b.type = MMIO64
    PROVE  /\ Boot(b) \in Nat \ {0} /\ Boot(b) % 2 = 0 /\ (Boot(b) \div 2) % 4 = 2
           /\ Holds(b, Boot(b)) = Boot(b)
           /\ Holds(b, AllOnes) \notin {0, AllOnes}
           /\ Holds(Upper(b), Boot(Upper(b))) = Boot(Upper(b))
           /\ Parse(Boot(b), Holds(b, AllOnes), Boot(Upper(b)), Holds(Upper(b), AllOnes)) = Told(b)
<1>1. PICK size \in Nat \ {0}, base \in Nat : size = b.size /\ base = b.base
  BY BarTypes DEF MMIO64, NONE
<1>2. base % size = 0 /\ base < Word * Word /\ size % 16 = 0 /\ size < Word * Word
  BY <1>1, PciAssumption DEF MMIO64, NONE
<1>3. size >= 16 /\ base % 16 = 0
  BY <1>2, Sixteen
<1>4. PICK t \in Nat : t = TypeBits(b) /\ t \in {4, 12}
  <2>1. b.prefetch \in BOOLEAN
    BY BarTypes
  <2> QED BY <1>3, <2>1, MemoryBits
<1>5. PICK h \in Nat, l \in Nat : h = base \div Word /\ l = base % Word /\ l < Word
                                  /\ base = Word * h + l
  BY Words, Divided
<1>6. h * Word + l = b.base
  BY <1>1, <1>5, Words
<1>7. b.type # NONE /\ b.type # HIGH
  BY DEF MMIO64, NONE, HIGH
<1>8. Boot(b) = Holds(b, l) /\ Boot(Upper(b)) = Holds(Upper(b), h)
  BY <1>1, <1>5, <1>7, UpperHolds DEF Boot
<1>9. CASE size < Word
  <2>1. Word % size = 0
    BY <1>1, <1>9, PciAssumption
  <2>2. l % size = 0
    BY <1>2, <1>5, <2>1, Words, RemainderOfMultiple
  <2>3. \A v : Holds(b, v) = Floor(v, size) + t
    <3>1. ~ b.size >= Word
      BY <1>1, <1>9, Words
    <3> QED BY <1>1, <1>4, <1>7, <3>1 DEF Holds
  <2>4. /\ Floor(l + t, size) + t = l + t /\ Floor(AllOnes, size) + t = (Word - size) + t
        /\ Word - size \in Nat
    <3>1. t < size
      BY <1>3, <1>4
    <3> QED BY <1>5, <2>1, <2>2, <3>1, LowRegister
  <2>5. Boot(b) = l + t
    <3>1. Floor(l + 0, size) = l
      <4>1. PICK r \in Nat : r = 0 /\ r < size
        OBVIOUS
      <4>2. Floor(l + r, size) = l
        BY <2>2, <4>1, FloorOfMore
      <4> QED BY <4>1, <4>2
    <3>2. l + 0 = l
      OBVIOUS
    <3> QED BY <1>8, <2>3, <3>1, <3>2
  <2>6. Holds(Upper(b), h) = h /\ Holds(Upper(b), AllOnes) = Word - 1
    <3>1. \A v \in Int : Floor(v, 1) = v
      BY DEF Floor
    <3>2. \A v : Holds(Upper(b), v) = Floor(v, 1)
      BY <1>1, <1>9, UpperHolds
    <3> QED BY <3>1, <3>2, Words DEF AllOnes
  <2>7. (Word - size) % 16 = 0 /\ l % 16 = 0
    <3>1. (Word - size) % size = 0
      BY <2>1, Words, FloorOfLargest
    <3> QED BY <1>2, <2>2, <2>4, <3>1, Sixteen
  <2>8. (Word - 1) * Word + (Word - size) = Word * Word - b.size
    <3>1. PICK w \in Nat : w = Word * Word
      BY Words
    <3>2. (Word - 1) * Word = w - Word
      BY <3>1, Words
    <3> QED BY <1>1, <3>1, <3>2, Words
  <2>9. Word - 1 \in Nat
    BY Words
  <2>10. /\ (l + t) % 2 = 0 /\ ((l + t) \div 2) % 4 = 2 /\ l + t # 0
         /\ Parse(l + t, (Word - size) + t, h, Word - 1) = Told(b)
    <3>1. PICK m \in Nat, g \in Nat : m = Word - size /\ g = Word - 1
      BY <2>4, <2>9
    <3>2. m % 16 = 0 /\ l % 16 = 0 /\ g * Word + m = Word * Word - b.size
      BY <2>7, <2>8, <3>1
    <3>3. /\ (l + t) % 2 = 0 /\ ((l + t) \div 2) % 4 = 2 /\ l + t # 0
          /\ Parse(l + t, m + t, h, g) = Told(b)
      BY <1>4, <1>6, <3>2, ParsePair
    <3> QED BY <3>1, <3>3
  <2>11. (Word - size) + t # 0 /\ (Word - size) + t # AllOnes
    BY <1>3, <1>4, <1>9, Words DEF AllOnes
  <2> QED BY <1>8, <2>3, <2>4, <2>5, <2>6, <2>10, <2>11
<1>10. CASE size >= Word
  <2>1. size % Word = 0 /\ Word % (size \div Word) = 0
    <3>1. ~ b.size < Word
      BY <1>1, <1>10, Words
    <3> QED BY <1>1, <3>1, PciAssumption
  <2>2. PICK q \in Nat \ {0} : q = size \div Word /\ size = Word * q
    <3>1. PICK q \in Nat : q = size \div Word /\ size = Word * q
      BY <2>1, Words, Multiple
    <3>2. q # 0
      BY <3>1, Words
    <3> QED BY <3>1, <3>2
  <2>3. \A v : Holds(b, v) = t
    BY <1>1, <1>4, <1>7, <1>10 DEF Holds
  <2>4. \A v : Holds(Upper(b), v) = Floor(v, q)
    <3>1. CASE size = Word
      <4>1. q = 1
        <5>1. size % Word = 0 /\ (Word * 1 + 0) \div Word = 1 
          BY <2>1, Words, Division
        <5>2. Word * 1 + 0 = Word
          BY Words
        <5> QED BY <2>2, <3>1, <5>1, <5>2
      <4> QED BY <1>1, <3>1, <4>1, UpperHolds
    <3>2. CASE size > Word
      BY <1>1, <2>2, <3>2, UpperHolds
    <3> QED BY <1>10, <3>1, <3>2, Words
  <2>5. l = 0 /\ h % q = 0
    <3>1. PICK k \in Nat : base = size * k
      BY <1>2, Multiple
    <3>2. PICK p \in Nat : p = q * k /\ base = Word * p + 0
      BY <2>2, <3>1, Words
    <3>3. (Word * p + 0) % Word = 0 /\ (Word * p + 0) \div Word = p
      BY Words, Division
    <3>4. h = q * k
      BY <1>5, <3>2, <3>3
    <3>5. (q * k + 0) % q = 0
      BY Division
    <3>6. q * k + 0 = q * k
      OBVIOUS
    <3> QED BY <1>5, <3>2, <3>3, <3>4, <3>5, <3>6
  <2>6. Holds(Upper(b), h) = h
    <3>1. PICK r \in Nat : r = 0 /\ r < q
      OBVIOUS
    <3>2. Floor(h + r, q) = h
      BY <2>5, <3>1, FloorOfMore
    <3> QED BY <2>4, <3>1, <3>2
  <2>7. Holds(Upper(b), AllOnes) = Word - q /\ Word - q \in Nat
    <3>1. Floor(Word - 1, q) = Word - q /\ Word >= q
      BY <2>1, <2>2, Words, FloorOfLargest
    <3> QED BY <2>4, <3>1, Words DEF AllOnes
  <2>8. (Word - q) * Word + 0 = Word * Word - b.size
    BY <1>1, <2>2, Words
  <2>9. /\ (0 + t) % 2 = 0 /\ ((0 + t) \div 2) % 4 = 2 /\ 0 + t # 0
        /\ Parse(0 + t, 0 + t, h, Word - q) = Told(b)
    <3>1. PICK z \in Nat : z = 0 /\ z % 16 = 0
      OBVIOUS
    <3>2. h * Word + z = b.base /\ (Word - q) * Word + z = Word * Word - b.size
      BY <1>6, <2>5, <2>8, <3>1
    <3>3. /\ (z + t) % 2 = 0 /\ ((z + t) \div 2) % 4 = 2 /\ z + t # 0
          /\ Parse(z + t, z + t, h, Word - q) = Told(b)
      BY <1>4, <2>7, <3>1, <3>2, ParsePair
    <3> QED BY <3>1, <3>3
  <2>10. 0 + t = t /\ t \notin {0, AllOnes}
    BY <1>4, Words DEF AllOnes
  <2>11. Boot(b) = t /\ Boot(Upper(b)) = h
    BY <1>8, <2>3, <2>6
  <2> QED BY <1>4, <2>3, <2>6, <2>7, <2>9, <2>10, <2>11
<1> QED BY <1>9, <1>10, Words

-----------------------------------------------------------------------------
(* The inductive invariant. *)

Sizing(k) ==
    \/ k = i /\ pc \in {"mask", "restore"}
    \/ k = i + 1 /\ pc \in {"mask high", "restore high"}

(* probBars is never at the upper half of a pair.                           *)
WalkInv ==
    /\ bridge \in BOOLEAN /\ bars \in [1 .. NBar -> Cells] /\ Legal(bars)
    /\ i \in 1 .. NBar + 1
    /\ pc \in {"read", "ones", "mask", "restore", "read high", "ones high", "mask high", "restore high"}
    /\ i <= NBar => bars[i].type # HIGH
    /\ pc # "read" => i <= NBar

(* The registers are as at boot but for the one being sized.                *)
RegsInv == regs = [k \in 1 .. NBar |-> IF Sizing(k) THEN Holds(bars[k], AllOnes) ELSE Boot(bars[k])]

(* What probBars has read, by where it is.                                  *)
ReadInv ==
    /\ pc # "read" => orig = Boot(bars[i]) /\ orig # 0
    /\ pc \notin {"read", "ones", "mask"} => mask = Holds(bars[i], AllOnes)
    /\ pc \in {"read high", "ones high", "mask high", "restore high"} => bars[i].type = MMIO64
    /\ pc \in {"ones high", "mask high", "restore high"} => origHigh = Boot(bars[i + 1])
    /\ pc = "restore high" => maskHigh = Holds(bars[i + 1], AllOnes)

(* And has reported.                                                        *)
ResInv == res = [k \in 1 .. NBar |-> IF k < i THEN Decoded(k) ELSE NoBar]

IInv == WalkInv /\ RegsInv /\ ReadInv /\ ResInv

LEMMA CellTypes ==
    ASSUME NEW b \in Cells
    PROVE  \/ b \in Bars /\ b.type \in {PIO, MMIO32, MMIO64, NONE} /\ b.type # HIGH
           \/ b.type = HIGH /\ \E c \in Bars : c.type = MMIO64 /\ b = Upper(c)
<1>1. CASE b \in Bars
  BY <1>1, BarTypes DEF PIO, MMIO32, MMIO64, NONE, HIGH
<1>2. CASE b \notin Bars
  <2>1. PICK c \in Bars : c.type = MMIO64 /\ b = Upper(c)
    BY <1>2 DEF Cells
  <2> QED BY <2>1, UpperHolds
<1> QED BY <1>1, <1>2

LEMMA NoRegister ==
    ASSUME NEW b, b.type = NONE
    PROVE  Boot(b) = 0 /\ \A v : Holds(b, v) = 0
<1>1. b.type # HIGH /\ b.type # MMIO64
  BY DEF NONE, HIGH, MMIO64
<1>2. \A v : Holds(b, v) = 0
  BY <1>1 DEF Holds
<1> QED BY <1>1, <1>2 DEF Boot

(* Writing back what was read restores a register.                          *)
LEMMA Restores ==
    ASSUME NEW b \in Cells
    PROVE  Holds(b, Boot(b)) = Boot(b)
<1>1. CASE b.type = NONE
  BY <1>1, NoRegister
<1>2. CASE b.type = HIGH
  <2>1. PICK c \in Bars : c.type = MMIO64 /\ b = Upper(c)
    BY <1>2, CellTypes
  <2> QED BY <2>1, Mmio64Register
<1> QED BY <1>1, <1>2, CellTypes, PioRegister, Mmio32Register, Mmio64Register

(* A register that holds something is one that the code tells right.        *)
LEMMA Tells ==
    ASSUME NEW b \in Cells, b.type # HIGH, Boot(b) # 0
    PROVE  /\ b \in Bars /\ b.type # NONE
           /\ Holds(b, AllOnes) \notin {0, AllOnes}
           /\ (Boot(b) % 2 = 0 /\ (Boot(b) \div 2) % 4 = 2) <=> b.type = MMIO64
           /\ b.type # MMIO64 => Parse(Boot(b), Holds(b, AllOnes), 0, 0) = Told(b)
           /\ b.type = MMIO64 =>
                Parse(Boot(b), Holds(b, AllOnes), Boot(Upper(b)), Holds(Upper(b), AllOnes)) = Told(b)
<1>1. b \in Bars /\ b.type \in {PIO, MMIO32, MMIO64} /\ b.type # NONE
  BY CellTypes, NoRegister
<1>2. CASE b.type = PIO
  <2>1. b.type # MMIO64 /\ Boot(b) % 2 # 0
    BY <1>1, <1>2, PioRegister DEF PIO, MMIO64
  <2> QED BY <1>1, <1>2, <2>1, PioRegister
<1>3. CASE b.type = MMIO32
  <2>1. b.type # MMIO64
    BY <1>3 DEF MMIO32, MMIO64
  <2> QED BY <1>1, <1>3, <2>1, Mmio32Register
<1>4. CASE b.type = MMIO64
  BY <1>1, <1>4, Mmio64Register
<1> QED BY <1>1, <1>2, <1>3, <1>4

LEMMA Bounds == bridge \in BOOLEAN => NBar \in Nat
BY PciAssumption DEF NBar

(* Registers in a row.                                                      *)
LEMMA Neighbours ==
    ASSUME WalkInv, i <= NBar
    PROVE  /\ i \in 1 .. NBar /\ NBar \in Nat /\ bars[i] \in Cells /\ bars[i].type # HIGH
           /\ bars[i].type = MMIO64 =>
                /\ i < NBar /\ i + 1 \in 1 .. NBar /\ bars[i + 1] = Upper(bars[i])
                /\ bars[i + 1].type = HIGH
                /\ i + 2 <= NBar => bars[i + 2].type # HIGH
           /\ bars[i].type # MMIO64 /\ i + 1 <= NBar => bars[i + 1].type # HIGH
<1>1. NBar \in Nat /\ i \in 1 .. NBar /\ bars \in [1 .. NBar -> Cells] /\ bars[i].type # HIGH
  <2>1. /\ bridge \in BOOLEAN /\ bars \in [1 .. NBar -> Cells] /\ i \in 1 .. NBar + 1
        /\ bars[i].type # HIGH
    BY DEF WalkInv
  <2>2. NBar \in Nat
    BY <2>1, Bounds
  <2> QED BY <2>1, <2>2
<1>2. Len(bars) = NBar /\ DOMAIN bars = 1 .. NBar
  BY <1>1
<1>3. \A k \in 1 .. NBar :
        IF bars[k].type = MMIO64 THEN k < NBar /\ bars[k + 1] = Upper(bars[k])
        ELSE bars[k].type = HIGH => k > 1 /\ bars[k - 1].type = MMIO64
  BY <1>1, <1>2 DEF WalkInv, Legal
<1>4. bars[i] \in Cells
  BY <1>1
<1>5. ASSUME bars[i].type = MMIO64
      PROVE  /\ i < NBar /\ i + 1 \in 1 .. NBar /\ bars[i + 1] = Upper(bars[i])
             /\ bars[i + 1].type = HIGH
  <2>1. i < NBar /\ i + 1 \in 1 .. NBar /\ bars[i + 1] = Upper(bars[i])
    BY <1>1, <1>3, <1>5
  <2>2. bars[i] \in Bars
    BY <1>1, <1>4, CellTypes
  <2> QED BY <1>5, <2>1, <2>2, UpperHolds
<1>6. ASSUME bars[i].type = MMIO64, i + 2 <= NBar
      PROVE  bars[i + 2].type # HIGH
  <2>1. i + 2 \in 1 .. NBar /\ (i + 2) - 1 = i + 1
    BY <1>1, <1>6
  <2>2. bars[i + 1].type # MMIO64
    BY <1>5, <1>6 DEF HIGH, MMIO64
  <2>3. MMIO64 # HIGH
    BY DEF HIGH, MMIO64
  <2> QED BY <1>3, <2>1, <2>2, <2>3
<1>7. ASSUME bars[i].type # MMIO64, i + 1 <= NBar
      PROVE  bars[i + 1].type # HIGH
  <2>1. i + 1 \in 1 .. NBar /\ (i + 1) - 1 = i
    BY <1>1, <1>7
  <2>2. MMIO64 # HIGH
    BY DEF HIGH, MMIO64
  <2> QED BY <1>3, <1>7, <2>1, <2>2
<1> QED BY <1>1, <1>4, <1>5, <1>6, <1>7

LEMMA InitIInv == Init => IInv
<1> SUFFICES ASSUME Init PROVE IInv
  OBVIOUS
<1>1. NBar \in Nat
  BY Bounds DEF Init
<1>2. bars \in [1 .. NBar -> Cells] /\ Legal(bars) /\ i = 1 /\ pc = "read"
  BY DEF Init, Cells
<1>3. ASSUME i <= NBar PROVE bars[i].type # HIGH
  <2>1. 1 \in 1 .. NBar /\ DOMAIN bars = 1 .. NBar /\ ~ 1 > 1
    BY <1>1, <1>2, <1>3
  <2>2. bars[1].type = HIGH => bars[1].type # MMIO64
    BY DEF HIGH, MMIO64
  <2>3. bars[1].type = HIGH => FALSE
    BY <1>2, <2>1, <2>2 DEF Legal
  <2> QED BY <1>2, <2>3
<1>4. WalkInv
  BY <1>1, <1>2, <1>3 DEF WalkInv, Init
<1>5. RegsInv
  <2>1. \A k \in 1 .. NBar : ~ Sizing(k)
    BY <1>2 DEF Sizing
  <2> QED BY <2>1 DEF RegsInv, Init
<1>6. ReadInv
  BY <1>2 DEF ReadInv
<1>7. ResInv
  <2>1. \A k \in 1 .. NBar : ~ k < i
    BY <1>1, <1>2
  <2> QED BY <2>1 DEF ResInv, Init
<1> QED BY <1>4, <1>5, <1>6, <1>7 DEF IInv

(* A register is written, and is then the one being sized or is not.        *)
LEMMA RegisterWritten ==
    ASSUME IInv, NEW k \in 1 .. NBar, NEW v,
           regs' = [regs EXCEPT ![k] = Holds(bars[k], v)], bridge' = bridge, bars' = bars,
           \A j \in 1 .. NBar : j # k => (Sizing(j)' <=> Sizing(j)),
           \/ Sizing(k)' /\ v = AllOnes
           \/ ~ Sizing(k)' /\ v = Boot(bars[k])
    PROVE  RegsInv'
<1>1. NBar' = NBar
  BY DEF NBar
<1>2. DOMAIN regs = 1 .. NBar
  BY DEF IInv, RegsInv
<1>3. bars[k] \in Cells
  BY DEF IInv, WalkInv
<1>4. Holds(bars[k], v) = IF Sizing(k)' THEN Holds(bars[k], AllOnes) ELSE Boot(bars[k])
  BY <1>3, Restores
<1>5. \A j \in 1 .. NBar :
        regs'[j] = IF Sizing(j)' THEN Holds(bars[j], AllOnes) ELSE Boot(bars[j])
  <2> TAKE j \in 1 .. NBar
  <2>1. CASE j = k
    BY <1>2, <1>4, <2>1
  <2>2. CASE j # k
    <3>1. regs'[j] = regs[j]
      BY <1>2, <2>2
    <3>2. regs[j] = IF Sizing(j) THEN Holds(bars[j], AllOnes) ELSE Boot(bars[j])
      BY DEF IInv, RegsInv
    <3> QED BY <2>2, <3>1, <3>2
  <2> QED BY <2>1, <2>2
<1>6. regs' = [j \in 1 .. NBar |-> regs'[j]]
  BY <1>2
<1> QED BY <1>1, <1>5, <1>6 DEF RegsInv

(* No register is written.                                                  *)
LEMMA NotWritten ==
    ASSUME IInv, regs' = regs, bridge' = bridge, bars' = bars,
           \A j \in 1 .. NBar : Sizing(j)' <=> Sizing(j)
    PROVE  RegsInv'
BY DEF IInv, RegsInv, NBar

(* probBars goes n registers on, all of which it has told or has nothing to *)
(* tell of.                                                                 *)
LEMMA GoesOn ==
    ASSUME IInv, NEW n \in {1, 2}, i \in 1 .. NBar, NBar \in Nat, bridge' = bridge, bars' = bars, i' = i + n, pc' = "read",
           i + n <= NBar + 1, i + n <= NBar => bars[i + n].type # HIGH,
           res' = [res EXCEPT ![i] = Decoded(i)],
           n = 2 => Decoded(i + 1) = NoBar
    PROVE  WalkInv' /\ ReadInv' /\ ResInv'
<1>1. NBar' = NBar
  BY DEF NBar
<1>2. WalkInv'
  <2>1. i + n \in 1 .. NBar + 1
    OBVIOUS
  <2>2. bridge \in BOOLEAN /\ bars \in [1 .. NBar -> Cells] /\ Legal(bars)
    BY DEF IInv, WalkInv
  <2>3. bridge' \in BOOLEAN /\ bars' \in [1 .. NBar' -> Cells] /\ Legal(bars')
    BY <1>1, <2>2
  <2>4. i' \in 1 .. NBar' + 1 /\ (i' <= NBar' => bars'[i'].type # HIGH)
    BY <1>1, <2>1
  <2> QED BY <2>3, <2>4 DEF WalkInv
<1>3. ReadInv'
  BY DEF ReadInv
<1>4. \A k : Decoded(k)' = Decoded(k)
  BY DEF Decoded
<1>5. DOMAIN res = 1 .. NBar /\ \A k \in 1 .. NBar : res[k] = IF k < i THEN Decoded(k) ELSE NoBar
  BY DEF IInv, ResInv
<1>6. \A k \in 1 .. NBar : res'[k] = IF k < i + n THEN Decoded(k) ELSE NoBar
  <2> TAKE k \in 1 .. NBar
  <2>1. CASE k = i
    BY <1>5, <2>1
  <2>2. CASE k = i + 1 /\ n = 2
    BY <1>5, <2>2
  <2>3. CASE k # i /\ ~ (k = i + 1 /\ n = 2)
    <3>1. k < i <=> k < i + n
      BY <2>3
    <3>2. res'[k] = res[k]
      BY <1>5, <2>3
    <3> QED BY <1>5, <3>1, <3>2
  <2> QED BY <2>1, <2>2, <2>3
<1>7. res' = [k \in 1 .. NBar |-> res'[k]]
  BY <1>5
<1> QED BY <1>1, <1>2, <1>3, <1>4, <1>6, <1>7 DEF ResInv

(* probBars stays at its register.                                          *)
LEMMA Stays ==
    ASSUME IInv, i <= NBar, bridge' = bridge, bars' = bars, i' = i, res' = res,
           pc' \in {"read", "ones", "mask", "restore", "read high", "ones high", "mask high", "restore high"}
    PROVE  WalkInv' /\ ResInv'
<1>1. NBar' = NBar
  BY DEF NBar
<1>2. WalkInv'
  BY <1>1 DEF IInv, WalkInv
<1>3. \A k : Decoded(k)' = Decoded(k)
  BY DEF Decoded
<1> QED BY <1>1, <1>2, <1>3 DEF IInv, ResInv

LEMMA ReadBarKeeps == IInv /\ ReadBar => IInv'
<1> SUFFICES ASSUME IInv, ReadBar PROVE IInv'
  OBVIOUS
<1>1. /\ pc = "read" /\ i <= NBar /\ orig' = regs[i] /\ regs' = regs /\ bridge' = bridge /\ bars' = bars
      /\ res' = res
  BY DEF ReadBar, At
<1>2. i \in 1 .. NBar /\ NBar \in Nat /\ bars[i] \in Cells /\ bars[i].type # HIGH
  BY <1>1, Neighbours DEF IInv
<1>3. regs[i] = Boot(bars[i])
  BY <1>1, <1>2 DEF IInv, RegsInv, Sizing
<1>4. CASE orig' = 0
  <2>1. i' = i + 1 /\ pc' = pc
    BY <1>4 DEF ReadBar
  <2>2. bars[i].type # MMIO64
    <3>1. ASSUME bars[i].type = MMIO64 PROVE Boot(bars[i]) # 0
      BY <1>2, <3>1, CellTypes, Mmio64Register
    <3> QED BY <1>1, <1>3, <1>4, <3>1
  <2>3. Decoded(i) = NoBar
    BY <1>1, <1>3, <1>4 DEF Decoded
  <2>4. res' = [res EXCEPT ![i] = Decoded(i)]
    <3>1. DOMAIN res = 1 .. NBar /\ res[i] = NoBar /\ res = [k \in 1 .. NBar |-> res[k]]
      BY <1>2 DEF IInv, ResInv
    <3> QED BY <1>1, <1>2, <2>3, <3>1
  <2>5. i + 1 <= NBar => bars[i + 1].type # HIGH
    BY <1>1, <2>2, Neighbours DEF IInv
  <2>6. WalkInv' /\ ReadInv' /\ ResInv'
    <3>1. PICK n \in {1, 2} : n = 1
      OBVIOUS
    <3>2. i + n <= NBar + 1 /\ (i + n <= NBar => bars[i + n].type # HIGH)
      BY <1>2, <2>5, <3>1
    <3>3. i' = i + n /\ pc' = "read" /\ n # 2
      BY <1>1, <2>1, <3>1
    <3> QED BY <1>1, <1>2, <2>4, <3>2, <3>3, GoesOn
  <2>7. RegsInv'
    <3>1. \A j \in 1 .. NBar : Sizing(j)' <=> Sizing(j)
      BY <1>1, <2>1 DEF Sizing
    <3> QED BY <1>1, <3>1, NotWritten
  <2> QED BY <2>6, <2>7 DEF IInv
<1>5. CASE orig' # 0
  <2>1. i' = i /\ pc' = "ones"
    BY <1>5 DEF ReadBar
  <2>2. WalkInv' /\ ResInv'
    BY <1>1, <2>1, Stays
  <2>3. ReadInv'
    BY <1>1, <1>3, <1>5, <2>1 DEF ReadInv
  <2>4. RegsInv'
    <3>1. \A j \in 1 .. NBar : Sizing(j)' <=> Sizing(j)
      BY <1>1, <2>1 DEF Sizing
    <3> QED BY <1>1, <3>1, NotWritten
  <2> QED BY <2>2, <2>3, <2>4 DEF IInv
<1> QED BY <1>4, <1>5

(* Where probBars is before a step at a register.                           *)
LEMMA Here ==
    ASSUME IInv, i <= NBar
    PROVE  /\ i \in 1 .. NBar /\ i \in Int /\ NBar \in Nat /\ bars[i] \in Cells /\ bars[i].type # HIGH
           /\ bars[i].type = MMIO64 =>
                /\ i + 1 \in 1 .. NBar /\ bars[i + 1] = Upper(bars[i]) /\ bars[i + 1] \in Cells
                /\ bars[i + 1].type = HIGH /\ i + 2 <= NBar + 1
<1>1. WalkInv /\ bars \in [1 .. NBar -> Cells]
  BY DEF IInv, WalkInv
<1> QED BY <1>1, Neighbours

LEMMA WriteOnesKeeps == IInv /\ WriteOnes => IInv'
<1> SUFFICES ASSUME IInv, WriteOnes PROVE IInv'
  OBVIOUS
<1>1. /\ pc = "ones" /\ i <= NBar /\ orig' = orig /\ bridge' = bridge /\ bars' = bars
      /\ res' = res /\ i' = i /\ pc' = "mask" /\ regs' = [regs EXCEPT ![i] = Holds(bars[i], AllOnes)]
  BY DEF WriteOnes, At, MmioWrite
<1>2. i \in 1 .. NBar /\ i \in Int
  BY <1>1, Here
<1>3. WalkInv' /\ ResInv'
  BY <1>1, Stays
<1>4. ReadInv'
  <2>1. orig = Boot(bars[i]) /\ orig # 0
    BY <1>1 DEF IInv, ReadInv
  <2> QED BY <1>1, <2>1 DEF ReadInv
<1>5. RegsInv'
  <2>1. PICK k \in 1 .. NBar : k = i
    BY <1>2
  <2>2. \A j \in 1 .. NBar : j # k => (Sizing(j)' <=> Sizing(j))
    BY <1>1, <2>1 DEF Sizing
  <2>3. Sizing(k)'
    BY <1>1, <2>1 DEF Sizing
  <2>4. regs' = [regs EXCEPT ![k] = Holds(bars[k], AllOnes)]
    BY <1>1, <2>1
  <2> QED BY <1>1, <2>2, <2>3, <2>4, RegisterWritten
<1> QED BY <1>3, <1>4, <1>5 DEF IInv

LEMMA ReadMaskKeeps == IInv /\ ReadMask => IInv'
<1> SUFFICES ASSUME IInv, ReadMask PROVE IInv'
  OBVIOUS
<1>1. /\ pc = "mask" /\ i <= NBar /\ mask' = regs[i] /\ orig' = orig /\ bridge' = bridge /\ bars' = bars
      /\ res' = res /\ i' = i /\ pc' = "restore" /\ regs' = regs
  BY DEF ReadMask, At
<1>2. i \in 1 .. NBar
  BY <1>1, Here
<1>3. WalkInv' /\ ResInv'
  BY <1>1, Stays
<1>4. ReadInv'
  <2>1. orig = Boot(bars[i]) /\ orig # 0
    BY <1>1 DEF IInv, ReadInv
  <2>2. regs[i] = Holds(bars[i], AllOnes)
    BY <1>1, <1>2 DEF IInv, RegsInv, Sizing
  <2> QED BY <1>1, <2>1, <2>2 DEF ReadInv
<1>5. RegsInv'
  <2>1. \A j \in 1 .. NBar : Sizing(j)' <=> Sizing(j)
    BY <1>1 DEF Sizing
  <2> QED BY <1>1, <2>1, NotWritten
<1> QED BY <1>3, <1>4, <1>5 DEF IInv

LEMMA RestoreKeeps == IInv /\ Restore => IInv'
<1> SUFFICES ASSUME IInv, Restore PROVE IInv'
  OBVIOUS
<1>1. /\ pc = "restore" /\ i <= NBar /\ orig' = orig /\ mask' = mask /\ bridge' = bridge /\ bars' = bars
      /\ regs' = [regs EXCEPT ![i] = Holds(bars[i], orig)]
  BY DEF Restore, At, MmioWrite
<1>2. /\ i \in 1 .. NBar /\ i \in Int /\ NBar \in Nat /\ bars[i] \in Cells /\ bars[i].type # HIGH
      /\ bars[i].type = MMIO64 => i + 1 \in 1 .. NBar
  BY <1>1, Here
<1>3. orig = Boot(bars[i]) /\ orig # 0 /\ mask = Holds(bars[i], AllOnes)
  BY <1>1 DEF IInv, ReadInv
<1>4. /\ mask \notin {0, AllOnes}
      /\ Is64Bit <=> bars[i].type = MMIO64
      /\ bars[i].type # MMIO64 => Parse(orig, mask, 0, 0) = Told(bars[i])
      /\ bars[i].type # NONE
  BY <1>2, <1>3, Tells DEF Is64Bit
<1>5. \/ bars[i].type = MMIO64 /\ pc' = "read high" /\ i' = i /\ res' = res
      \/ /\ bars[i].type # MMIO64 /\ i' = i + 1 /\ pc' = "read"
         /\ res' = [res EXCEPT ![i] = Told(bars[i])]
  <2>1. mask \notin {0, AllOnes}
    BY <1>4
  <2>2. IF Is64Bit /\ i < NBar THEN pc' = "read high" /\ i' = i /\ res' = res
        ELSE res' = [res EXCEPT ![i] = Parse(orig, mask, 0, 0)] /\ i' = i + 1 /\ pc' = "read"
    BY <2>1 DEF Restore
  <2>3. CASE bars[i].type = MMIO64
    <3>1. Is64Bit /\ i < NBar
      BY <1>2, <1>4, <2>3
    <3> QED BY <2>2, <2>3, <3>1
  <2>4. CASE bars[i].type # MMIO64
    <3>1. ~ Is64Bit /\ Parse(orig, mask, 0, 0) = Told(bars[i])
      BY <1>4, <2>4
    <3> QED BY <2>2, <2>4, <3>1
  <2> QED BY <2>3, <2>4
<1>6. RegsInv'
  <2>1. PICK k \in 1 .. NBar : k = i
    BY <1>2
  <2>2. \A j \in 1 .. NBar : j # k => (Sizing(j)' <=> Sizing(j))
    BY <1>1, <1>5, <2>1 DEF Sizing
  <2>3. ~ Sizing(k)'
    BY <1>1, <1>2, <1>5, <2>1 DEF Sizing
  <2>4. regs' = [regs EXCEPT ![k] = Holds(bars[k], orig)] /\ orig = Boot(bars[k])
    BY <1>1, <1>3, <2>1
  <2> QED BY <1>1, <2>2, <2>3, <2>4, RegisterWritten
<1>7. CASE bars[i].type = MMIO64
  <2>1. pc' = "read high" /\ i' = i /\ res' = res
    BY <1>5, <1>7
  <2>2. WalkInv' /\ ResInv'
    BY <1>1, <2>1, Stays
  <2>3. ReadInv'
    BY <1>1, <1>3, <1>7, <2>1 DEF ReadInv
  <2> QED BY <1>6, <2>2, <2>3 DEF IInv
<1>8. CASE bars[i].type # MMIO64
  <2>1. i' = i + 1 /\ pc' = "read" /\ res' = [res EXCEPT ![i] = Told(bars[i])]
    BY <1>5, <1>8
  <2>2. Decoded(i) = Told(bars[i])
    BY <1>2, <1>3, <1>4 DEF Decoded, Told
  <2>3. i + 1 <= NBar => bars[i + 1].type # HIGH
    BY <1>1, <1>8, Neighbours DEF IInv
  <2>4. WalkInv' /\ ReadInv' /\ ResInv'
    <3>1. PICK n \in {1, 2} : n = 1
      OBVIOUS
    <3>2. i + n <= NBar + 1 /\ (i + n <= NBar => bars[i + n].type # HIGH)
      BY <1>2, <2>3, <3>1
    <3>3. i' = i + n /\ pc' = "read" /\ n # 2 /\ res' = [res EXCEPT ![i] = Decoded(i)]
      BY <2>1, <2>2, <3>1
    <3> QED BY <1>1, <1>2, <3>2, <3>3, GoesOn
  <2> QED BY <1>6, <2>4 DEF IInv
<1> QED BY <1>7, <1>8

LEMMA ReadHighKeeps == IInv /\ ReadHigh => IInv'
<1> SUFFICES ASSUME IInv, ReadHigh PROVE IInv'
  OBVIOUS
<1>1. /\ pc = "read high" /\ i <= NBar /\ origHigh' = regs[i + 1] /\ orig' = orig /\ mask' = mask
      /\ bridge' = bridge /\ bars' = bars
      /\ res' = res /\ i' = i /\ pc' = "ones high" /\ regs' = regs
  BY DEF ReadHigh, At
<1>2. /\ orig = Boot(bars[i]) /\ orig # 0 /\ mask = Holds(bars[i], AllOnes)
      /\ bars[i].type = MMIO64
  BY <1>1 DEF IInv, ReadInv
<1>3. i + 1 \in 1 .. NBar
  BY <1>1, <1>2, Here
<1>4. WalkInv' /\ ResInv'
  BY <1>1, Stays
<1>5. ReadInv'
  <2>1. regs[i + 1] = Boot(bars[i + 1])
    BY <1>1, <1>3 DEF IInv, RegsInv, Sizing
  <2> QED BY <1>1, <1>2, <2>1 DEF ReadInv
<1>6. RegsInv'
  <2>1. \A j \in 1 .. NBar : Sizing(j)' <=> Sizing(j)
    BY <1>1 DEF Sizing
  <2> QED BY <1>1, <2>1, NotWritten
<1> QED BY <1>4, <1>5, <1>6 DEF IInv

LEMMA WriteOnesHighKeeps == IInv /\ WriteOnesHigh => IInv'
<1> SUFFICES ASSUME IInv, WriteOnesHigh PROVE IInv'
  OBVIOUS
<1>1. /\ pc = "ones high" /\ i <= NBar /\ origHigh' = origHigh /\ orig' = orig /\ mask' = mask
      /\ bridge' = bridge /\ bars' = bars
      /\ res' = res /\ i' = i /\ pc' = "mask high"
      /\ regs' = [regs EXCEPT ![i + 1] = Holds(bars[i + 1], AllOnes)]
  BY DEF WriteOnesHigh, At, MmioWrite
<1>2. /\ orig = Boot(bars[i]) /\ orig # 0 /\ mask = Holds(bars[i], AllOnes)
      /\ bars[i].type = MMIO64 /\ origHigh = Boot(bars[i + 1])
  BY <1>1 DEF IInv, ReadInv
<1>3. i + 1 \in 1 .. NBar /\ i \in Int
  BY <1>1, <1>2, Here
<1>4. WalkInv' /\ ResInv'
  BY <1>1, Stays
<1>5. ReadInv'
  BY <1>1, <1>2 DEF ReadInv
<1>6. RegsInv'
  <2>1. PICK k \in 1 .. NBar : k = i + 1
    BY <1>3
  <2>2. \A j \in 1 .. NBar : j # k => (Sizing(j)' <=> Sizing(j))
    BY <1>1, <2>1 DEF Sizing
  <2>3. Sizing(k)'
    BY <1>1, <2>1 DEF Sizing
  <2>4. regs' = [regs EXCEPT ![k] = Holds(bars[k], AllOnes)]
    BY <1>1, <2>1
  <2> QED BY <1>1, <2>2, <2>3, <2>4, RegisterWritten
<1> QED BY <1>4, <1>5, <1>6 DEF IInv

LEMMA ReadMaskHighKeeps == IInv /\ ReadMaskHigh => IInv'
<1> SUFFICES ASSUME IInv, ReadMaskHigh PROVE IInv'
  OBVIOUS
<1>1. /\ pc = "mask high" /\ i <= NBar /\ maskHigh' = regs[i + 1] /\ orig' = orig /\ mask' = mask
      /\ origHigh' = origHigh /\ bridge' = bridge /\ bars' = bars
      /\ res' = res /\ i' = i /\ pc' = "restore high" /\ regs' = regs
  BY DEF ReadMaskHigh, At
<1>2. /\ orig = Boot(bars[i]) /\ orig # 0 /\ mask = Holds(bars[i], AllOnes)
      /\ bars[i].type = MMIO64 /\ origHigh = Boot(bars[i + 1])
  BY <1>1 DEF IInv, ReadInv
<1>3. i + 1 \in 1 .. NBar
  BY <1>1, <1>2, Here
<1>4. WalkInv' /\ ResInv'
  BY <1>1, Stays
<1>5. ReadInv'
  <2>1. regs[i + 1] = Holds(bars[i + 1], AllOnes)
    BY <1>1, <1>3 DEF IInv, RegsInv, Sizing
  <2> QED BY <1>1, <1>2, <2>1 DEF ReadInv
<1>6. RegsInv'
  <2>1. \A j \in 1 .. NBar : Sizing(j)' <=> Sizing(j)
    BY <1>1 DEF Sizing
  <2> QED BY <1>1, <2>1, NotWritten
<1> QED BY <1>4, <1>5, <1>6 DEF IInv

LEMMA RestoreHighKeeps == IInv /\ RestoreHigh => IInv'
<1> SUFFICES ASSUME IInv, RestoreHigh PROVE IInv'
  OBVIOUS
<1>1. /\ pc = "restore high" /\ i <= NBar /\ bridge' = bridge /\ bars' = bars
      /\ i' = i + 2 /\ pc' = "read"
      /\ regs' = [regs EXCEPT ![i + 1] = Holds(bars[i + 1], origHigh)]
      /\ res' = [res EXCEPT ![i] = Parse(orig, mask, origHigh, maskHigh)]
  BY DEF RestoreHigh, At, MmioWrite
<1>2. /\ orig = Boot(bars[i]) /\ orig # 0 /\ mask = Holds(bars[i], AllOnes)
      /\ bars[i].type = MMIO64 /\ origHigh = Boot(bars[i + 1])
      /\ maskHigh = Holds(bars[i + 1], AllOnes)
  BY <1>1 DEF IInv, ReadInv
<1>3. /\ i + 1 \in 1 .. NBar /\ i \in 1 .. NBar /\ i \in Int /\ NBar \in Nat
      /\ bars[i] \in Cells /\ bars[i].type # HIGH
      /\ bars[i + 1] = Upper(bars[i]) /\ bars[i + 1].type = HIGH /\ i + 2 <= NBar + 1
  BY <1>1, <1>2, Here
<1>4. RegsInv'
  <2>1. PICK k \in 1 .. NBar : k = i + 1
    BY <1>3
  <2>2. \A j \in 1 .. NBar : j # k => (Sizing(j)' <=> Sizing(j))
    BY <1>1, <2>1 DEF Sizing
  <2>3. ~ Sizing(k)'
    BY <1>1 DEF Sizing
  <2>4. regs' = [regs EXCEPT ![k] = Holds(bars[k], origHigh)] /\ origHigh = Boot(bars[k])
    BY <1>1, <1>2, <2>1
  <2> QED BY <1>1, <2>2, <2>3, <2>4, RegisterWritten
<1>5. Decoded(i) = Parse(orig, mask, origHigh, maskHigh)
  <2>1. Parse(orig, mask, origHigh, maskHigh) = Told(bars[i]) /\ bars[i].type # NONE
    BY <1>2, <1>3, Tells
  <2> QED BY <1>2, <1>3, <2>1 DEF Decoded, Told
<1>6. WalkInv' /\ ReadInv' /\ ResInv'
  <2>1. PICK n \in {1, 2} : n = 2
    OBVIOUS
  <2>2. i + n <= NBar + 1 /\ (i + n <= NBar => bars[i + n].type # HIGH)
    BY <1>1, <1>2, <1>3, <2>1, Neighbours DEF IInv
  <2>3. Decoded(i + 1) = NoBar
    BY <1>3 DEF Decoded
  <2>4. i' = i + n /\ pc' = "read" /\ res' = [res EXCEPT ![i] = Decoded(i)]
    BY <1>1, <1>5, <2>1
  <2> QED BY <1>1, <1>3, <2>2, <2>3, <2>4, GoesOn
<1> QED BY <1>4, <1>6 DEF IInv

LEMMA StepIInv == IInv /\ [ProbBars]_vars => IInv'
<1>1. IInv /\ UNCHANGED vars => IInv'
  <2> SUFFICES ASSUME IInv, UNCHANGED vars PROVE IInv'
    OBVIOUS
  <2>1. NBar' = NBar /\ \A k : Decoded(k)' = Decoded(k) /\ (Sizing(k)' <=> Sizing(k))
    BY DEF vars, NBar, Decoded, Sizing
  <2>2. WalkInv'
    BY <2>1 DEF vars, IInv, WalkInv
  <2>3. RegsInv'
    BY <2>1 DEF vars, IInv, RegsInv
  <2>4. ReadInv'
    BY DEF vars, IInv, ReadInv
  <2>5. ResInv'
    BY <2>1 DEF vars, IInv, ResInv
  <2> QED BY <2>2, <2>3, <2>4, <2>5 DEF IInv
<1> QED BY <1>1, ReadBarKeeps, WriteOnesKeeps, ReadMaskKeeps, RestoreKeeps, ReadHighKeeps,
           WriteOnesHighKeeps, ReadMaskHighKeeps, RestoreHighKeeps DEF ProbBars

-----------------------------------------------------------------------------
(* probBars tells the type, start, size and prefetch bit of every BAR of    *)
(* every function, and no BAR for the upper half of a pair (mod.cpp,        *)
(* probBars and Bar::parse).                                                *)
THEOREM ProbedIsDecoded == Spec => []ReportsTheDevice
<1>1. IInv => ReportsTheDevice
  BY DEF IInv, ResInv, ReportsTheDevice
<1> QED BY <1>1, InitIInv, StepIInv, PTL DEF Spec

(* And whatever device it probes, it leaves every register with what it     *)
(* held, and writes one at a time (mod.cpp, probBars).                      *)
THEOREM SizingPutsEverythingBack == Spec => []LeavesTheDeviceAlone
<1>1. IInv => LeavesTheDeviceAlone
  BY DEF IInv, RegsInv, Sizing, LeavesTheDeviceAlone
<1> QED BY <1>1, InitIInv, StepIInv, PTL DEF Spec

-----------------------------------------------------------------------------
(* Functions defined by recursion, and the induction they need. *)

LEMMA Least ==
    ASSUME NEW S, S \subseteq Nat, S # {} PROVE \E n \in S : \A m \in S : n <= m
<1> DEFINE R == OpToRel(<, Nat)
<1>1. IsWellFoundedOn(R, Nat)
  BY NatLessThanWellFounded
<1>2. \A x, y \in Nat : y < x => <<y, x>> \in R
  BY DEF OpToRel
<1> HIDE DEF R
<1>3. \E x \in S : \A y \in S : ~(<<y, x>> \in R)
  BY <1>1, WFMin
<1>4. \E x \in S : \A y \in S : ~(y < x)
  BY <1>2, <1>3, Zenon
<1> QED BY <1>4

Inductive(S) == 0 \in S /\ \A n \in Nat : n \in S => n + 1 \in S

LEMMA Upwards == ASSUME NEW S, Inductive(S) PROVE Nat \subseteq S
<1> DEFINE rest == Nat \ S
<1>1. CASE rest = {}
  BY <1>1
<1>2. CASE rest # {}
  <2>1. PICK n \in rest : \A m \in rest : n <= m
    <3> HIDE DEF rest
    <3>1. rest \subseteq Nat
      BY DEF rest
    <3> QED BY <1>2, <3>1, Least
  <2>2. n # 0
    BY DEF Inductive
  <2>3. n - 1 \in Nat /\ n - 1 \in S
    BY <2>1, <2>2
  <2>4. (n - 1) + 1 \in S
    BY <2>3 DEF Inductive
  <2> QED BY <2>3, <2>4
<1> QED BY <1>1, <1>2

(* A function that goes on from its value one below exists.                 *)
Recurs(f, base, step) == f = [n \in Nat |-> IF n = 0 THEN base ELSE step[n][f[n - 1]]]

LEMMA Recursion ==
    ASSUME NEW V, NEW base \in V, NEW step \in [Nat -> [V -> V]]
    PROVE  \E f \in [Nat -> V] : Recurs(f, base, step)
<1> DEFINE Up(f, n) == /\ f \in [0 .. n -> V] /\ f[0] = base
                       /\ \A k \in 0 .. n : k # 0 => f[k] = step[k][f[k - 1]]
           S == {n \in Nat : \E f : Up(f, n)}
<1>1. 0 \in S
  <2>1. Up([k \in 0 .. 0 |-> base], 0)
    OBVIOUS
  <2> QED BY <2>1
<1>2. ASSUME NEW n \in Nat, n \in S PROVE n + 1 \in S
  <2>1. PICK f : Up(f, n)
    BY <1>2
  <2>2. f[n] \in V
    BY <2>1
  <2>3. step[n + 1][f[n]] \in V
    BY <2>2
  <2> DEFINE g == [k \in 0 .. n + 1 |-> IF k = n + 1 THEN step[n + 1][f[n]] ELSE f[k]]
  <2>4. g \in [0 .. n + 1 -> V]
    BY <2>1, <2>3
  <2>5. g[0] = base
    BY <2>1
  <2>6. ASSUME NEW k \in 0 .. n + 1, k # 0 PROVE g[k] = step[k][g[k - 1]]
    <3>1. CASE k = n + 1
      BY <3>1
    <3>2. CASE k # n + 1
      <4>1. k \in 0 .. n /\ k - 1 \in 0 .. n /\ k - 1 # n + 1 /\ k - 1 \in 0 .. n + 1
        BY <2>6, <3>2
      <4>2. g[k] = f[k] /\ g[k - 1] = f[k - 1]
        BY <3>2, <4>1
      <4> QED BY <2>1, <2>6, <4>1, <4>2
    <3> QED BY <3>1, <3>2
  <2>7. Up(g, n + 1) /\ n + 1 \in Nat
    <3> HIDE DEF g
    <3> QED BY <2>4, <2>5, <2>6
  <2> HIDE DEF Up
  <2> QED BY <2>7, Zenon
<1>3. \A n \in Nat : \E f : Up(f, n)
  <2>1. Inductive(S)
    <3> HIDE DEF S
    <3> QED BY <1>1, <1>2, Zenon DEF Inductive
  <2> HIDE DEF Up
  <2> QED BY <2>1, Upwards
<1>4. ASSUME NEW n \in Nat, NEW f, Up(f, n), NEW g, Up(g, n + 1) PROVE f[n] = g[n]
  <2> DEFINE T == {k \in Nat : k <= n => f[k] = g[k]}
  <2>1. 0 \in T
    BY <1>4
  <2>2. ASSUME NEW k \in Nat, k \in T PROVE k + 1 \in T
    <3>1. CASE k + 1 <= n
      <4>1. f[k] = g[k] /\ k + 1 \in 0 .. n /\ k + 1 \in 0 .. n + 1 /\ k + 1 # 0 /\ (k + 1) - 1 = k
        BY <2>2, <3>1
      <4>2. f[k + 1] = step[k + 1][f[(k + 1) - 1]] /\ g[k + 1] = step[k + 1][g[(k + 1) - 1]]
        BY <1>4, <4>1
      <4>3. f[k + 1] = g[k + 1]
        BY <4>1, <4>2
      <4> QED BY <4>3
    <3>2. CASE ~ k + 1 <= n
      BY <3>2
    <3> QED BY <3>1, <3>2
  <2>3. Inductive(T)
    <3> HIDE DEF T
    <3> QED BY <2>1, <2>2, Zenon DEF Inductive
  <2>4. n \in T
    <3> HIDE DEF T
    <3> QED BY <2>3, Upwards
  <2> QED BY <2>4
<1> DEFINE at(n) == CHOOSE f : Up(f, n)
           F == [n \in Nat |-> at(n)[n]]
<1>5. \A n \in Nat : Up(at(n), n)
  <2> HIDE DEF Up
  <2> QED BY <1>3
<1>6. F[0] = base
  <2>1. Up(at(0), 0)
    BY <1>5
  <2> HIDE DEF at
  <2> QED BY <2>1
<1>7. ASSUME NEW n \in Nat, n # 0 PROVE F[n] = step[n][F[n - 1]]
  <2>1. n - 1 \in Nat /\ (n - 1) + 1 = n /\ n \in 0 .. n
    BY <1>7
  <2>2. Up(at(n), n) /\ Up(at(n - 1), n - 1)
    <3> HIDE DEF Up, at
    <3> QED BY <1>5, <2>1
  <2>3. at(n - 1)[n - 1] = at(n)[n - 1]
    <3> HIDE DEF Up, at
    <3> QED BY <1>4, <2>1, <2>2
  <2>4. at(n)[n] = step[n][at(n)[n - 1]]
    <3> HIDE DEF at
    <3> QED BY <1>7, <2>1, <2>2
  <2>5. F[n] = at(n)[n] /\ F[n - 1] = at(n - 1)[n - 1]
    <3> HIDE DEF at
    <3> QED BY <2>1
  <2> QED BY <2>3, <2>4, <2>5
<1>8. F \in [Nat -> V]
  <2>1. ASSUME NEW n \in Nat PROVE at(n)[n] \in V
    <3>1. Up(at(n), n)
      BY <1>5
    <3> HIDE DEF at
    <3> QED BY <3>1
  <2> HIDE DEF at
  <2> QED BY <2>1
<1>9. Recurs(F, base, step)
  <2>1. F = [n \in Nat |-> F[n]]
    <3> HIDE DEF at
    <3> QED OBVIOUS
  <2>2. \A n \in Nat : F[n] = IF n = 0 THEN base ELSE step[n][F[n - 1]]
    <3> HIDE DEF F
    <3> QED BY <1>6, <1>7
  <2> HIDE DEF F
  <2> QED BY <2>1, <2>2 DEF Recurs
<1> HIDE DEF F
<1> QED BY <1>8, <1>9

LEMMA Follows ==
    ASSUME NEW base, NEW step, NEW f, Recurs(f, base, step)
    PROVE  f[0] = base /\ \A n \in Nat : f[n + 1] = step[n + 1][f[n]]
<1>1. f[0] = base
  BY DEF Recurs
<1>2. ASSUME NEW n \in Nat PROVE f[n + 1] = step[n + 1][f[n]]
  <2>1. n + 1 \in Nat /\ n + 1 # 0 /\ (n + 1) - 1 = n
    OBVIOUS
  <2> QED BY <2>1 DEF Recurs
<1> QED BY <1>1, <1>2

-----------------------------------------------------------------------------
(* PortIo. *)

(* What AskIo can ask, and more: any ranges, offsets and lengths.           *)
IoQuestions ==
    {q \in [about : {"io"}, io : [kind : {"port", "dma"}, range : [start : Nat, size : Nat]],
            offset : Nat, transfer : {"value", "buffer"}, size : Nat] :
        q.io.kind = "port" => q.io.range.start + q.io.range.size <= Ports /\ q.io.range.size < Ports}

BytesFrom(first, n) == [k \in 1 .. n |-> Access(first + k - 1, k - 1, 1)]

Accesses == [at : Int, first : Int, size : Int]
Outcomes == [bus : Seq(Accesses), ok : BOOLEAN]

LEMMA TryIsAnOutcome ==
    ASSUME NEW one \in Outcomes, NEW two \in Outcomes PROVE Try(one, two) \in Outcomes
<1>1. one.bus \o two.bus \in Seq(Accesses)
  BY DEF Outcomes
<1>2. [bus |-> one.bus \o two.bus, ok |-> two.ok] \in Outcomes
  BY <1>1 DEF Outcomes
<1> QED BY <1>2 DEF Try

LEMMA NarrowIsAnOutcome ==
    ASSUME NEW io, io.range.start \in Nat, NEW offset \in Int, NEW first \in Int
    PROVE  Narrow(io, offset, first, 1) \in Outcomes
<1>1. Addr(io, offset) \in Int
  BY PortIoAssumption DEF Addr
<1>2. PICK at \in Int : at = Addr(io, offset)
  BY <1>1
<1>3. Access(at, first, 1) \in Accesses
  BY DEF Access, Accesses
<1>4. <<Access(at, first, 1)>> \in Seq(Accesses) /\ <<>> \in Seq(Accesses)
  BY <1>3
<1>5. Reached(Access(at, first, 1)) \in Outcomes /\ Refused \in Outcomes
  BY <1>4 DEF Reached, Refused, Outcomes
<1> QED BY <1>2, <1>5 DEF Narrow

(* The function the LET in Bytewise defines.                                *)
Run(io, offset) ==
    CHOOSE f : f = [n \in Nat |-> IF n = 0 THEN Nothing
                                  ELSE Try(f[n - 1], Narrow(io, offset + n - 1, n - 1, 1))]

RunsOn(f, io, offset) ==
    f[0] = Nothing /\ \A n \in Nat : f[n + 1] = Try(f[n], Narrow(io, offset + n, n, 1))

LEMMA OneByOne ==
    ASSUME NEW io, io.range.start \in Nat, NEW offset \in Nat, NEW len \in Nat
    PROVE  Bytewise(io, offset, len) = Run(io, offset)[len] /\ RunsOn(Run(io, offset), io, offset)
<1> DEFINE step == [n \in Nat |-> [v \in Outcomes |-> Try(v, Narrow(io, offset + n - 1, n - 1, 1))]]
           Does(f) == f = [n \in Nat |-> IF n = 0 THEN Nothing
                                         ELSE Try(f[n - 1], Narrow(io, offset + n - 1, n - 1, 1))]
<1>1. \A n \in Nat : Narrow(io, offset + n - 1, n - 1, 1) \in Outcomes
  BY NarrowIsAnOutcome
<1>2. step \in [Nat -> [Outcomes -> Outcomes]]
  BY <1>1, TryIsAnOutcome
<1>3. Nothing \in Outcomes
  <2>1. <<>> \in Seq(Accesses)
    OBVIOUS
  <2> QED BY <2>1 DEF Nothing, Outcomes
<1>4. PICK f \in [Nat -> Outcomes] : Recurs(f, Nothing, step)
  <2> HIDE DEF step
  <2> QED BY <1>2, <1>3, Recursion
<1>5. Does(f)
  <2>1. \A n \in Nat : n # 0 => step[n][f[n - 1]] = Try(f[n - 1], Narrow(io, offset + n - 1, n - 1, 1))
    BY <1>4
  <2> HIDE DEF step
  <2> QED BY <1>4, <2>1 DEF Recurs
<1> DEFINE d == Run(io, offset)
<1>6. Does(d)
  <2>1. d = CHOOSE g : Does(g)
    BY DEF Run
  <2> HIDE DEF Does, d
  <2> QED BY <1>5, <2>1
<1>7. Bytewise(io, offset, len) = d[len]
  BY DEF Bytewise, Run
<1>8. d[0] = Nothing
  <2> HIDE DEF d
  <2> QED BY <1>6
<1>9. ASSUME NEW n \in Nat PROVE d[n + 1] = Try(d[n], Narrow(io, offset + n, n, 1))
  <2>1. n + 1 \in Nat /\ n + 1 # 0 /\ (n + 1) - 1 = n /\ offset + (n + 1) - 1 = offset + n
    OBVIOUS
  <2> HIDE DEF d
  <2> QED BY <1>6, <2>1
<1> QED BY <1>7, <1>8, <1>9 DEF RunsOn

LEMMA FunctionIsSeq == ASSUME NEW S, NEW n \in Nat, NEW a \in [1 .. n -> S] PROVE a \in Seq(S) /\ Len(a) = n
OBVIOUS

LEMMA BytesAre ==
    ASSUME NEW start \in Nat, NEW n \in Nat
    PROVE  BytesFrom(start, n) \in Seq(Accesses) /\ Len(BytesFrom(start, n)) = n
<1>1. \A k \in 1 .. n : Access(start + k - 1, k - 1, 1) \in Accesses
  BY DEF Access, Accesses
<1>2. [k \in 1 .. n |-> Access(start + k - 1, k - 1, 1)] \in [1 .. n -> Accesses]
  BY <1>1
<1>3. BytesFrom(start, n) \in [1 .. n -> Accesses]
  BY <1>2 DEF BytesFrom
<1> QED BY <1>3, FunctionIsSeq

LEMMA NoMoreThanFit ==
    ASSUME NEW start \in Nat, NEW n \in Nat
    PROVE  /\ BytesFrom(start, 0) = <<>>
           /\ BytesFrom(start, n) \o <<Access(start + n, n, 1)>> = BytesFrom(start, n + 1)
<1>1. BytesFrom(start, 0) = <<>>
  BY DEF BytesFrom
<1>2. n + 1 \in Nat
  OBVIOUS
<1>3. \A m \in Nat : BytesFrom(start, m) \in Seq(Accesses) /\ Len(BytesFrom(start, m)) = m
  BY BytesAre
<1>4. PICK last \in Accesses : last = Access(start + n, n, 1)
  <2>1. Access(start + n, n, 1) \in Accesses
    BY DEF Access, Accesses
  <2> QED BY <2>1
<1>5. PICK s \in Seq(Accesses) : s = BytesFrom(start, n) /\ Len(s) = n
  BY <1>3
<1>6. PICK t \in Seq(Accesses) : t = BytesFrom(start, n + 1) /\ Len(t) = n + 1
  BY <1>3
<1>7. \A k \in 1 .. n : t[k] = s[k]
  BY <1>5, <1>6 DEF BytesFrom
<1>8. t[n + 1] = last
  <2>1. n + 1 \in 1 .. n + 1 /\ start + (n + 1) - 1 = start + n /\ (n + 1) - 1 = n
    OBVIOUS
  <2> QED BY <1>4, <1>6, <2>1 DEF BytesFrom
<1>9. s \o <<last>> = t
  <2>1. s \o <<last>> \in Seq(Accesses) /\ Len(s \o <<last>>) = n + 1
    BY <1>5
  <2>2. \A k \in 1 .. n + 1 : (s \o <<last>>)[k] = t[k]
    BY <1>5, <1>7, <1>8
  <2> QED BY <1>6, <2>1, <2>2, SeqEqual
<1> QED BY <1>1, <1>4, <1>5, <1>6, <1>9

(* What the bytes one after the other do at a place inside and behind.      *)
LEMMA NarrowAt ==
    ASSUME NEW io, io.kind = "port", NEW start \in Nat, NEW size \in Nat,
           io.range.start = start, io.range.size = size, start + size <= Ports, size < Ports,
           NEW offset \in Nat, NEW n \in Nat, offset + n <= size, 
           NEW first
    PROVE  Narrow(io, offset + n, first, 1) =
              IF offset + n < size THEN Reached(Access(start + offset + n, first, 1)) ELSE Refused
<1>1. Addr(io, offset + n) = (start + (offset + n)) % Ports
  BY DEF Addr
<1>2. CASE offset + n < size
  <2>1. (start + (offset + n)) % Ports = start + offset + n
    BY <1>2, PortIoAssumption
  <2>2. InRange(io, start + offset + n)
    BY <1>2 DEF InRange
  <2> QED BY <1>1, <1>2, <2>1, <2>2 DEF Narrow
<1>3. CASE offset + n = size
  <2>1. PICK at \in Nat : at = (start + size) % Ports /\ (at = start + size \/ (at = 0 /\ start # 0))
    <3>1. CASE start + size < Ports
      <4>1. (start + size) % Ports = start + size
        BY <3>1, PortIoAssumption
      <4> QED BY <4>1
    <3>2. CASE start + size = Ports
      <4>1. Ports % Ports = 0
        BY PortIoAssumption
      <4> QED BY <3>2, <4>1
    <3> QED BY <3>1, <3>2, PortIoAssumption
  <2>2. ~ InRange(io, at)
    BY <2>1 DEF InRange
  <2>3. Addr(io, offset + n) = at
    BY <1>1, <1>3, <2>1
  <2> QED BY <1>3, <2>2, <2>3 DEF Narrow
<1> QED BY <1>2, <1>3

Went(bytes)  == [bus |-> bytes, ok |-> TRUE]
Ended(bytes) == [bus |-> bytes, ok |-> FALSE]

LEMMA TryOne ==
    ASSUME NEW bytes, NEW access
    PROVE  /\ Try(Went(bytes), Reached(access)) = Went(bytes \o <<access>>)
           /\ Try(Went(bytes), Refused) = Ended(bytes \o <<>>)
           /\ \A outcome : Try(Ended(bytes), outcome) = Ended(bytes)
<1>1. Went(bytes).bus = bytes /\ Went(bytes).ok = TRUE
  BY DEF Went, Ended
<1>2. Reached(access).bus = <<access>> /\ Reached(access).ok = TRUE /\ Refused.bus = <<>> /\ Refused.ok = FALSE
  BY DEF Reached, Refused
<1>3. Ended(bytes).ok = FALSE
  BY DEF Went, Ended
<1>4. \A first, second : first.ok = TRUE => Try(first, second) = [bus |-> first.bus \o second.bus, ok |-> second.ok]
  BY Zenon DEF Try
<1>5. \A first, second : first.ok = FALSE => Try(first, second) = first
  BY Zenon DEF Try
<1>6. Try(Went(bytes), Reached(access)) = Went(bytes \o <<access>>)
  <2>1. Try(Went(bytes), Reached(access))
          = [bus |-> Went(bytes).bus \o Reached(access).bus, ok |-> Reached(access).ok]
    BY <1>1, <1>4, Zenon
  <2> QED BY <1>1, <1>2, <2>1 DEF Went
<1>7. Try(Went(bytes), Refused) = Ended(bytes \o <<>>)
  <2>1. Try(Went(bytes), Refused) = [bus |-> Went(bytes).bus \o Refused.bus, ok |-> Refused.ok]
    BY <1>1, <1>4, Zenon
  <2> QED BY <1>1, <1>2, <2>1 DEF Ended
<1> QED BY <1>3, <1>5, <1>6, <1>7, Zenon

LEMMA PortBytes ==
    ASSUME NEW io, io.kind = "port", NEW start \in Nat, NEW size \in Nat,
           io.range.start = start, io.range.size = size, start + size <= Ports, size < Ports,
           NEW offset \in Nat, NEW room \in Nat, room = size - offset,
           NEW from \in Nat, from = start + offset,
           NEW f, RunsOn(f, io, offset)
    PROVE  \A n \in Nat : /\ n <= room => f[n] = Went(BytesFrom(from, n))
                          /\ n > room => f[n] = Ended(BytesFrom(from, room))
<1> DEFINE Done(n) == (n <= room => f[n] = Went(BytesFrom(from, n))) /\ (n > room => f[n] = Ended(BytesFrom(from, room)))
           S == {n \in Nat : Done(n)}
<1>0. f[0] = Nothing /\ \A n \in Nat : f[n + 1] = Try(f[n], Narrow(io, offset + n, n, 1))
  BY DEF RunsOn
<1>1. 0 \in S
  <2>1. BytesFrom(from, 0) = <<>>
    BY NoMoreThanFit
  <2>2. f[0] = Went(BytesFrom(from, 0)) /\ ~ 0 > room
    <3>1. Nothing = Went(<<>>)
      BY DEF Nothing, Went
    <3> QED BY <1>0, <2>1, <3>1, SMT
  <2> QED BY <2>2
<1>2. ASSUME NEW n \in Nat, n \in S PROVE n + 1 \in S
  <2>0. n + 1 \in Nat
    OBVIOUS
  <2>1. Done(n)
    BY <1>2
  <2>2. CASE n < room
    <3>1. f[n] = Went(BytesFrom(from, n))
      BY <2>1, <2>2
    <3>2. Narrow(io, offset + n, n, 1) = Reached(Access(from + n, n, 1))
      <4>1. offset + n <= size /\ offset + n < size /\ start + offset + n = from + n
        BY <2>2
      <4> HIDE DEF S, Done
      <4> QED BY <4>1, NarrowAt
    <3>3. f[n + 1] = Went(BytesFrom(from, n) \o <<Access(from + n, n, 1)>>)
      <4> HIDE DEF S, Done
      <4>1. f[n + 1] = Try(f[n], Narrow(io, offset + n, n, 1))
        BY <1>0
      <4>2. Try(Went(BytesFrom(from, n)), Reached(Access(from + n, n, 1)))
              = Went(BytesFrom(from, n) \o <<Access(from + n, n, 1)>>)
        BY TryOne, Zenon
      <4> QED BY <3>1, <3>2, <4>1, <4>2, Zenon
    <3>4. BytesFrom(from, n) \o <<Access(from + n, n, 1)>> = BytesFrom(from, n + 1)
      <4> HIDE DEF S, Done
      <4> QED BY NoMoreThanFit
    <3>5. Done(n + 1)
      <4>1. f[n + 1] = Went(BytesFrom(from, n + 1))
        BY <3>3, <3>4, Zenon
      <4> QED BY <2>2, <4>1
    <3> HIDE DEF Done
    <3> QED BY <2>0, <3>5, Zenon
  <2>3. CASE n = room
    <3>1. f[n] = Went(BytesFrom(from, n))
      BY <2>1, <2>3
    <3>2. Narrow(io, offset + n, n, 1) = Refused
      <4>1. offset + n <= size /\ ~ offset + n < size
        BY <2>3
      <4> HIDE DEF S, Done
      <4> QED BY <4>1, NarrowAt
    <3>3. f[n + 1] = Ended(BytesFrom(from, n) \o <<>>)
      <4> HIDE DEF S, Done
      <4>1. f[n + 1] = Try(f[n], Narrow(io, offset + n, n, 1))
        BY <1>0
      <4>2. Try(Went(BytesFrom(from, n)), Refused) = Ended(BytesFrom(from, n) \o <<>>)
        BY TryOne, Zenon
      <4> QED BY <3>1, <3>2, <4>1, <4>2, Zenon
    <3>4. BytesFrom(from, n) \o <<>> = BytesFrom(from, n)
      <4>1. BytesFrom(from, n) \in Seq(Accesses)
        BY BytesAre
      <4> HIDE DEF S, Done
      <4> QED BY <4>1
    <3>5. Done(n + 1)
      <4>1. f[n + 1] = Ended(BytesFrom(from, room))
        BY <2>3, <3>3, <3>4, Zenon
      <4> QED BY <2>3, <4>1
    <3> HIDE DEF Done
    <3> QED BY <2>0, <3>5, Zenon
  <2>4. CASE n > room
    <3>1. f[n] = Ended(BytesFrom(from, room))
      BY <2>1, <2>4
    <3>2. f[n + 1] = Ended(BytesFrom(from, room))
      <4> HIDE DEF S, Done
      <4>1. f[n + 1] = Try(f[n], Narrow(io, offset + n, n, 1))
        BY <1>0
      <4>2. \A outcome : Try(Ended(BytesFrom(from, room)), outcome) = Ended(BytesFrom(from, room))
        BY TryOne, Zenon
      <4> QED BY <3>1, <4>1, <4>2, Zenon
    <3>3. Done(n + 1)
      BY <2>4, <3>2
    <3> HIDE DEF Done
    <3> QED BY <2>0, <3>3, Zenon
  <2> HIDE DEF S
  <2> QED BY <2>2, <2>3, <2>4
<1>3. Inductive(S)
  <2> HIDE DEF S
  <2> QED BY <1>1, <1>2, Zenon DEF Inductive
<1>4. \A n \in Nat : Done(n)
  <2> HIDE DEF Done
  <2> QED BY <1>3, Upwards
<1> QED BY <1>4

LEMMA PortOutcome ==
    ASSUME NEW io, io.kind = "port", NEW start \in Nat, NEW size \in Nat,
           io.range.start = start, io.range.size = size, start + size <= Ports, size < Ports,
           NEW offset \in Nat, NEW room \in Nat, room = size - offset,
           NEW from \in Nat, from = start + offset, NEW len \in Nat
    PROVE  /\ len <= room => Bytewise(io, offset, len) = Went(BytesFrom(from, len))
           /\ len > room => Bytewise(io, offset, len) = Ended(BytesFrom(from, room))
<1>1. io.range.start \in Nat
  OBVIOUS
<1>2. PICK f : f = Run(io, offset)
  OBVIOUS
<1>3. Bytewise(io, offset, len) = f[len] /\ RunsOn(f, io, offset)
  BY <1>1, <1>2, OneByOne
<1>4. \A n \in Nat : /\ n <= room => f[n] = Went(BytesFrom(from, n))
                     /\ n > room => f[n] = Ended(BytesFrom(from, room))
  BY <1>3, PortBytes
<1> QED BY <1>3, <1>4

LEMMA IoAnswers == asked \in IoQuestions => BufferInOrder
<1> SUFFICES ASSUME asked \in IoQuestions, asked.transfer = "buffer", Room > 0,
                    asked.io.kind = "port" \/ Inside
             PROVE  LET outcome == Buffer(asked.io, asked.offset, asked.size)
                        fits    == IF Inside THEN asked.size ELSE Room
                    IN  /\ outcome.ok <=> Inside
                        /\ outcome.bus = [k \in 1 .. fits |-> Access(Start + k - 1, k - 1, 1)]
  BY DEF BufferInOrder
<1>0. PICK io : io = asked.io
  OBVIOUS
<1>1. /\ io \in [kind : {"port", "dma"}, range : [start : Nat, size : Nat]]
      /\ asked.offset \in Nat /\ asked.size \in Nat
      /\ io.kind = "port" => io.range.start + io.range.size <= Ports /\ io.range.size < Ports
  BY <1>0 DEF IoQuestions
<1>2. io.range.start \in Nat /\ io.range.size \in Nat /\ io.kind \in {"port", "dma"}
  BY <1>1
<1>3. PICK start \in Nat, size \in Nat, offset \in Nat, len \in Nat :
         start = io.range.start /\ size = io.range.size /\ offset = asked.offset /\ len = asked.size
  BY <1>1, <1>2
<1>4. io.kind = "port" => start + size <= Ports /\ size < Ports
  BY <1>1, <1>3
<1>5. Start = start + offset /\ Room = size - offset /\ offset < size /\ (Inside <=> len <= size - offset)
  BY <1>0, <1>3 DEF Start, Room, Inside
<1>6. PICK room \in Nat : room = size - offset /\ room > 0
  BY <1>5
<1>7. PICK outcome : outcome = Buffer(io, offset, len)
  OBVIOUS
<1>8. CASE io.kind = "port"
  <2>1. start + size <= Ports /\ size < Ports
    BY <1>4, <1>8
  <2>2. io.range.start = start /\ io.range.size = size
    BY <1>3
  <2>3. /\ len <= room => outcome = Went(BytesFrom(start + offset, len))
        /\ len > room => outcome = Ended(BytesFrom(start + offset, room))
    <3>1. PICK from \in Nat : from = start + offset
      OBVIOUS
    <3>2. /\ len <= room => Bytewise(io, offset, len) = Went(BytesFrom(from, len))
          /\ len > room => Bytewise(io, offset, len) = Ended(BytesFrom(from, room))
      BY <1>6, <1>8, <2>1, <2>2, <3>1, PortOutcome
    <3>3. outcome = Bytewise(io, offset, len)
      BY <1>7, <1>8 DEF Buffer
    <3> QED BY <3>1, <3>2, <3>3
  <2>4. CASE Inside
    <3>1. outcome = Went(BytesFrom(start + offset, len))
      BY <1>5, <1>6, <2>3, <2>4
    <3>2. outcome.ok = TRUE /\ outcome.bus = BytesFrom(start + offset, len)
      BY <3>1 DEF Went, Ended
    <3>3. outcome.bus = [k \in 1 .. len |-> Access(Start + k - 1, k - 1, 1)]
      BY <1>5, <3>2 DEF BytesFrom
    <3> QED BY <1>0, <1>3, <1>7, <2>4, <3>2, <3>3
  <2>5. CASE ~ Inside
    <3>1. outcome = Ended(BytesFrom(start + offset, room))
      BY <1>5, <1>6, <2>3, <2>5
    <3>2. outcome.ok = FALSE /\ outcome.bus = BytesFrom(start + offset, room)
      BY <3>1 DEF Went, Ended
    <3>3. outcome.bus = [k \in 1 .. Room |-> Access(Start + k - 1, k - 1, 1)]
      BY <1>5, <1>6, <3>2 DEF BytesFrom
    <3> QED BY <1>0, <1>3, <1>7, <2>5, <3>2, <3>3
  <2> QED BY <2>4, <2>5
<1>9. CASE io.kind = "dma"
  <2>1. Inside
    BY <1>0, <1>9
  <2>2. Addr(io, offset) = start + offset /\ InRange(io, start + offset)
    BY <1>2, <1>3, <1>5, <1>9 DEF Addr, InRange
  <2>3. outcome = [bus |-> [k \in 1 .. len |-> Access(start + offset + k - 1, k - 1, 1)], ok |-> TRUE]
    BY <1>7, <1>9, <2>2 DEF Buffer, DmaBuffer
  <2>4. outcome.ok = TRUE /\ outcome.bus = [k \in 1 .. len |-> Access(Start + k - 1, k - 1, 1)]
    BY <1>5, <2>3
  <2> QED BY <1>0, <1>3, <1>7, <2>1, <2>4
<1> QED BY <1>2, <1>8, <1>9

-----------------------------------------------------------------------------
(* Simd. *)

(* What AskSimd can ask.                                                    *)
SimdQuestions ==
    [about : {"simd"}, cpu : {{}, {"XSAVE"}, {"XSAVE", "AVX"}, Features},
     regs : [cr0 : SUBSET {"EMULATION", "MONITOR_CO_PROCESSOR"}, cr4 : SUBSET {"FXSR_ENABLE"},
             xcr0 : {{"SAVE_X87"}}]]

(* What CPUID counts is enough for every component that is enabled. *)
LEMMA SizeIsEnough ==
    ASSUME NEW control, control.xcr0 \subseteq Legacy \cup {"AVX_ENABLE"} \cup Avx512Bits
    PROVE  \A c \in control.xcr0 : EndOf(c) <= XsaveSize(control)
<1> DEFINE S == {HeaderEnd} \cup {EndOf(c) : c \in control.xcr0}
<1>1. S \subseteq {160, 416, 576, 832, 1152, 1664, 2688} /\ HeaderEnd \in S
  BY DEF EndOf, HeaderEnd, Legacy, Avx512Bits
<1>2. HeaderEnd = 576
  BY DEF HeaderEnd
<1> HIDE DEF S
<1>3. \E x \in S : \A y \in S : x >= y
  <2>1. CASE 2688 \in S
    BY <1>1, <2>1
  <2>2. CASE 2688 \notin S /\ 1664 \in S
    BY <1>1, <2>2
  <2>3. CASE 2688 \notin S /\ 1664 \notin S /\ 1152 \in S
    BY <1>1, <2>3
  <2>4. CASE 2688 \notin S /\ 1664 \notin S /\ 1152 \notin S /\ 832 \in S
    BY <1>1, <2>4
  <2>5. CASE 2688 \notin S /\ 1664 \notin S /\ 1152 \notin S /\ 832 \notin S
    BY <1>1, <1>2, <2>5
  <2> QED BY <2>1, <2>2, <2>3, <2>4, <2>5
<1>4. XsaveSize(control) = Max(S)
  BY DEF XsaveSize, S
<1>5. \A y \in S : Max(S) >= y
  BY <1>3, Zenon DEF Max
<1>6. \A y \in S : y \in Nat /\ Max(S) \in Nat
  <2>1. Max(S) \in S
    BY <1>3, Zenon DEF Max
  <2>2. \A y \in S : y \in Nat
    BY <1>1
  <2> QED BY <2>1, <2>2, Zenon
<1>7. \A c \in control.xcr0 : EndOf(c) \in S
  BY DEF S
<1> QED BY <1>4, <1>5, <1>6, <1>7

LEMMA SaveIs == asked \in SimdQuestions => SaveIsComplete
<1> SUFFICES ASSUME asked \in SimdQuestions PROVE SaveIsComplete
  OBVIOUS
<1> DEFINE after == SimdInit(asked.cpu, asked.regs)
           saved == SavedBy(asked.cpu, after)
<1>1. /\ asked.cpu \in {{}, {"XSAVE"}, {"XSAVE", "AVX"}, {"XSAVE", "AVX", "AVX512"}}
      /\ asked.regs.cr4 \subseteq {"FXSR_ENABLE"}
  BY DEF SimdQuestions, Features
<1>2. HasXsave(asked.cpu) => XsetbvAccepts(after.xcr0)
  BY <1>1 DEF SimdInit, Xcr0, HasXsave, HasAvx, HasAvx512, XsetbvAccepts, Avx512Bits
<1>3. /\ "EMULATION" \notin after.cr0 /\ "FXSR_ENABLE" \in after.cr4
      /\ HasXsave(asked.cpu) <=> "XSAVE_ENABLE" \in after.cr4
      /\ HasXsave(asked.cpu) => after.xcr0 = Xcr0(asked.cpu)
  BY <1>1 DEF SimdInit
<1>4. Legacy \subseteq Xcr0(asked.cpu)
  BY DEF Xcr0, Legacy
<1>5. saved = Usable(after)
  <2>1. CASE HasXsave(asked.cpu)
    BY <1>3, <1>4, <2>1 DEF SavedBy, Xsave, Usable, Legacy
  <2>2. CASE ~HasXsave(asked.cpu)
    BY <1>3, <2>2 DEF SavedBy, Fxsave, Usable, Legacy
  <2> QED BY <2>1, <2>2
<1>6. Legacy \subseteq saved
  BY <1>3, <1>4, <1>5 DEF Usable, Legacy
<1>7. HasAvx(asked.cpu) => "AVX_ENABLE" \in saved
  BY <1>1, <1>3 DEF SavedBy, Xsave, Xcr0, HasXsave, HasAvx
<1>8. HasAvx512(asked.cpu) => Avx512Bits \subseteq saved
  BY <1>1, <1>3 DEF SavedBy, Xsave, Xcr0, HasXsave, HasAvx, HasAvx512, Avx512Bits
<1>9. \A c \in saved : EndOf(c) <= SimdContextSize(asked.cpu, after)
  <2>1. CASE HasXsave(asked.cpu)
    <3>1. after.xcr0 \subseteq Legacy \cup {"AVX_ENABLE"} \cup Avx512Bits
      BY <1>3, <2>1 DEF Xcr0, Legacy
    <3>2. \A c \in after.xcr0 : EndOf(c) <= XsaveSize(after)
      BY <3>1, SizeIsEnough
    <3>3. saved \subseteq after.xcr0
      BY <2>1 DEF SavedBy, Xsave
    <3> QED BY <2>1, <3>2, <3>3 DEF SimdContextSize
  <2>2. CASE ~HasXsave(asked.cpu)
    BY <2>2 DEF SavedBy, Fxsave, Legacy, SimdContextSize, EndOf
  <2> QED BY <2>1, <2>2
<1> QED BY <1>2, <1>5, <1>6, <1>7, <1>8, <1>9, Zenon DEF SaveIsComplete

-----------------------------------------------------------------------------
(* Pit. *)

(* A channel of the timer, and what AskPit can ask.                         *)
Channels == [period : Nat, low : Nat, bytes : 1 .. 3, high : BOOLEAN, latched : Int]

PitQuestions ==
    [about : {"pit"}, freq : Freqs, counts : [1 .. 3 -> Counts], channel : Channels]

(* What 16 bits can hold is made up of its two bytes.                       *)
U16 == {n % 2 ^ 16 : n \in Nat}

LEMMA TwoBytes == ASSUME NEW n \in U16 PROVE n \in Nat /\ n # NoCount /\ 256 * (n \div 256) + (n % 256) = n
<1>1. ASSUME NEW m \in Nat PROVE m % 2 ^ 16 \in Nat
  BY SMT
<1>2. n \in Nat
  BY <1>1 DEF U16
<1>3. n # NoCount
  BY <1>2 DEF NoCount
<1> QED BY <1>2, <1>3

(* A channel that takes two bytes, waiting for the first or the second.     *)
TakesBoth(channel, high, latched) ==
    channel \in Channels /\ channel.bytes = 3 /\ channel.high = high /\ channel.latched = latched

LEMMA ModeIsSet ==
    ASSUME NEW c \in Channels
    PROVE  TakesBoth(Written(c, <<"CMD", 32 + 16 + 6>>, 0), FALSE, NoCount)
<1>1. ((32 + 16 + 6) \div 16) % 4 = 3
  OBVIOUS
<1>2. Written(c, <<"CMD", 32 + 16 + 6>>, 0) = [c EXCEPT !.bytes = 3, !.high = FALSE, !.latched = NoCount]
  BY <1>1 DEF Written, Command
<1>3. PICK none \in Int : none = NoCount
  BY DEF NoCount
<1>4. PICK d : d = [c EXCEPT !.bytes = 3]
  OBVIOUS
<1>5. d \in Channels /\ d.bytes = 3
  BY <1>4 DEF Channels
<1>6. Written(c, <<"CMD", 32 + 16 + 6>>, 0) = [d EXCEPT !.high = FALSE, !.latched = none]
  BY <1>2, <1>3, <1>4
<1> QED BY <1>3, <1>5, <1>6 DEF TakesBoth, Channels

LEMMA LowByteIsPut ==
    ASSUME NEW c, TakesBoth(c, FALSE, NoCount), NEW v \in Nat
    PROVE  LET d == Written(c, <<"PORT0", v>>, 0) IN TakesBoth(d, TRUE, NoCount) /\ d.low = v
<1>1. Written(c, <<"PORT0", v>>, 0) = [c EXCEPT !.low = v, !.high = TRUE]
  BY DEF TakesBoth, Written, PutByte
<1> QED BY <1>1 DEF TakesBoth, Channels

LEMMA HighByteIsPut ==
    ASSUME NEW c, TakesBoth(c, TRUE, NoCount), NEW v \in Nat
    PROVE  LET d == Written(c, <<"PORT0", v>>, 0)
           IN  TakesBoth(d, FALSE, NoCount) /\ d.period = 256 * v + c.low
<1>1. Written(c, <<"PORT0", v>>, 0) = [c EXCEPT !.period = 256 * v + c.low, !.high = FALSE]
  BY DEF TakesBoth, Written, PutByte
<1>2. PICK n \in Nat : n = 256 * v + c.low
  BY DEF TakesBoth, Channels
<1>3. PICK e : e = [c EXCEPT !.period = n]
  OBVIOUS
<1>4. e \in Channels /\ e.bytes = 3 /\ e.latched = NoCount /\ e.period = n
  BY <1>3 DEF TakesBoth, Channels
<1>5. PICK d : d = [e EXCEPT !.high = FALSE]
  OBVIOUS
<1>6. d \in Channels /\ d.bytes = 3 /\ d.high = FALSE /\ d.latched = NoCount /\ d.period = n
  BY <1>4, <1>5 DEF Channels
<1>7. Written(c, <<"PORT0", v>>, 0) = d
  BY <1>1, <1>2, <1>3, <1>5
<1> QED BY <1>2, <1>6, <1>7 DEF TakesBoth

LEMMA InitSetsThePeriod ==
    ASSUME NEW channel \in Channels, NEW freq \in Nat \ {0}
    PROVE  TakesBoth(PitInit(channel, freq), FALSE, NoCount) /\ PitInit(channel, freq).period = Div(freq)
<1>1. Div(freq) \in U16
  <2>1. FREQ \div freq \in Nat
    BY SMT DEF FREQ
  <2> QED BY <2>1 DEF Div, U16
<1>2. PICK d \in U16 : d = Div(freq)
  BY <1>1
<1>3. PICK l \in Nat, h \in Nat : l = d % 256 /\ h = d \div 256 /\ 256 * h + l = d
  BY TwoBytes
<1>4. PICK one : one = Written(channel, <<"CMD", 32 + 16 + 6>>, 0)
  OBVIOUS
<1>5. TakesBoth(one, FALSE, NoCount)
  BY <1>4, ModeIsSet
<1>6. PICK two : two = Written(one, <<"PORT0", l>>, 0)
  OBVIOUS
<1>7. TakesBoth(two, TRUE, NoCount) /\ two.low = l
  BY <1>5, <1>6, LowByteIsPut
<1>8. PICK three : three = Written(two, <<"PORT0", h>>, 0)
  OBVIOUS
<1>9. TakesBoth(three, FALSE, NoCount) /\ three.period = d
  <2>1. TakesBoth(three, FALSE, NoCount) /\ three.period = 256 * h + two.low
    BY <1>7, <1>8, HighByteIsPut
  <2> QED BY <1>3, <1>7, <2>1
<1>10. PitInit(channel, freq) = three
  <2>1. InitWrites(freq) = <<<<"CMD", 32 + 16 + 6>>, <<"PORT0", l>>, <<"PORT0", h>>>>
    BY <1>2, <1>3 DEF InitWrites
  <2> QED BY <1>4, <1>6, <1>8, <2>1 DEF PitInit
<1> QED BY <1>2, <1>9, <1>10

LEMMA BothBytesOfOneCount ==
    ASSUME NEW channel, TakesBoth(channel, FALSE, NoCount), NEW counts \in [1 .. 3 -> Nat]
    PROVE  ReadCount(channel, counts) = counts[1] % 2 ^ 16
<1>1. PICK n \in U16 : n = counts[1] % 2 ^ 16
  BY DEF U16
<1>2. n \in Nat /\ n # NoCount /\ 256 * (n \div 256) + (n % 256) = n
  BY TwoBytes
<1>3. PICK latched : latched = Written(channel, <<"CMD", 0>>, counts[1])
  OBVIOUS
<1>4. TakesBoth(latched, FALSE, n)
  <2>1. (0 \div 16) % 4 = 0
    OBVIOUS
  <2>2. latched = [channel EXCEPT !.latched = n]
    BY <1>1, <1>3, <2>1 DEF TakesBoth, Written, Command
  <2> QED BY <1>2, <2>2 DEF TakesBoth, Channels
<1>5. PICK low : low = GetByte(latched, counts[2])
  OBVIOUS
<1>6. low.byte = n % 256
  BY <1>2, <1>4, <1>5 DEF TakesBoth, GetByte
<1>7. TakesBoth(low.channel, TRUE, n)
  <2>1. (latched.bytes = 3 /\ ~latched.high) = TRUE
    BY <1>4 DEF TakesBoth
  <2>2. low.channel = [latched EXCEPT !.high = TRUE, !.latched = IF TRUE THEN @ ELSE NoCount]
    BY <1>5, <2>1, Zenon DEF GetByte
  <2> QED BY <1>4, <2>2 DEF TakesBoth, Channels
<1>8. GetByte(low.channel, counts[3]).byte = n \div 256
  BY <1>2, <1>7 DEF TakesBoth, GetByte
<1>9. ReadCount(channel, counts) = 256 * (n \div 256) + (n % 256)
  BY <1>3, <1>5, <1>6, <1>8 DEF ReadCount
<1> QED BY <1>1, <1>2, <1>9

LEMMA PitAnswers == asked \in PitQuestions => PitTellsTheTime
<1> SUFFICES ASSUME asked \in PitQuestions PROVE PitTellsTheTime
  OBVIOUS
<1>1. asked.channel \in Channels /\ asked.freq \in Nat \ {0} /\ asked.counts \in [1 .. 3 -> Nat]
  <2>1. Freqs \subseteq 19 .. FREQ /\ Counts \subseteq 1 .. 2 ^ 16
    BY AlgorithmsAssumption
  <2>2. PICK most \in Nat : most = FREQ
    BY SMT DEF FREQ
  <2>3. PICK last \in Nat : last = 2 ^ 16
    BY SMT
  <2>4. Freqs \subseteq Nat \ {0} /\ Counts \subseteq Nat
    <3>1. Freqs \subseteq 19 .. most /\ Counts \subseteq 1 .. last
      BY <2>1, <2>2, <2>3
    <3>2. ASSUME NEW f \in Freqs PROVE f \in Nat \ {0}
      <4>1. f \in 19 .. most
        BY <3>1, <3>2
      <4> QED BY <4>1
    <3>3. ASSUME NEW c \in Counts PROVE c \in Nat
      <4>1. c \in 1 .. last
        BY <3>1, <3>3
      <4> QED BY <4>1
    <3> QED BY <3>2, <3>3, Zenon
  <2> QED BY <2>4 DEF PitQuestions
<1>2. PICK channel : channel = PitInit(asked.channel, asked.freq)
  OBVIOUS
<1>3. TakesBoth(channel, FALSE, NoCount) /\ channel.period = Div(asked.freq)
  BY <1>1, <1>2, InitSetsThePeriod
<1>4. ReadCount(channel, asked.counts) = asked.counts[1] % 2 ^ 16
  BY <1>1, <1>3, BothBytesOfOneCount
<1> QED BY <1>2, <1>3, <1>4 DEF PitTellsTheTime, Div

-----------------------------------------------------------------------------
(* Descriptors. *)

(* What AskDescriptor can ask.                                              *)
DescriptorQuestions ==
    [about : {"descriptor"}, tss : Places, handler : Places, ist : 0 .. 7, attributes : Attributes]

LEMMA Joins ==
    ASSUME NEW S, NEW s \in Seq(S), NEW t \in Seq(S)
    PROVE  /\ s \o t \in Seq(S) /\ Len(s \o t) = Len(s) + Len(t)
           /\ \A n \in 1 .. Len(s) : (s \o t)[n] = s[n]
           /\ \A n \in 1 .. Len(t) : (s \o t)[Len(s) + n] = t[n]
OBVIOUS

LEMMA AddressIs == \A a : a \in Address <=> a \in Seq(Byte) /\ Len(a) = 8
<1>1. ASSUME NEW a \in Address PROVE a \in Seq(Byte) /\ Len(a) = 8
  <2>1. PICK n \in Nat : n = 8
    OBVIOUS
  <2>2. a \in [1 .. n -> Byte]
    BY <2>1 DEF Address
  <2> QED BY <2>1, <2>2, FunctionIsSeq
<1>2. ASSUME NEW a \in Seq(Byte), Len(a) = 8 PROVE a \in Address
  BY <1>2, LenProperties DEF Address
<1> QED BY <1>1, <1>2

(* Two parts of an address, one after the other, are the address.           *)
LEMMA Parts ==
    ASSUME NEW a \in Address, NEW k \in 1 .. 7
    PROVE  SubSeq(a, 1, k) \o SubSeq(a, k + 1, 8) = a
<1>1. a \in Seq(Byte) /\ Len(a) = 8
  BY AddressIs
<1>2. PICK m \in 1 .. Len(a) + 1, n \in k .. Len(a) : m = 1 /\ n = 8
  BY <1>1
<1>3. k \in m - 1 .. Len(a)
  BY <1>1, <1>2
<1>4. SubSeq(a, m, k) \o SubSeq(a, k + 1, n) = SubSeq(a, m, n)
  BY <1>1, <1>3, ConcatAdjacentSubSeq
<1>5. SubSeq(a, m, n) = a
  BY <1>1, <1>2, SubSeqFull
<1> QED BY <1>2, <1>4, <1>5

(* Two halves of a register are the register. *)
LEMMA Halves ==
    ASSUME NEW a \in Address
    PROVE  SubSeq(a, 1, 4) \o SubSeq(a, 5, 8) = a
<1>1. PICK k \in 1 .. 7 : k = 4
  OBVIOUS
<1>2. SubSeq(a, 1, k) \o SubSeq(a, k + 1, 8) = a
  BY Parts
<1> QED BY <1>1, <1>2

LEMMA WrmsrIs ==
    ASSUME NEW msrs, NEW msr, NEW value \in Address
    PROVE  Wrmsr(msrs, msr, value) = [msrs EXCEPT ![msr] = value]
BY Halves DEF Wrmsr

-----------------------------------------------------------------------------
(* The registers. *)

Msrs == [{"EFER", "STAR", "LSTAR", "FMASK", "UGSBAS", "KGSBAS"} -> Address]

LEMMA RegistersAre ==
    ASSUME NEW handler \in Address, NEW gs \in Address
    PROVE  LET msrs == SysSetGs(SysInit(BootMsrs, handler), gs)
           IN  /\ msrs.EFER = <<1, 13, 0, 0, 0, 0, 0, 0>> /\ msrs.STAR = <<0, 0, 0, 0, 8, 0, 19, 0>>
               /\ msrs.LSTAR = handler /\ msrs.FMASK = <<254, 255, 255, 255, 0, 0, 0, 0>>
               /\ msrs.UGSBAS = gs /\ msrs.KGSBAS = gs
<1>1. PICK boot \in Msrs : boot = BootMsrs /\ boot["EFER"] = <<0, 13, 0, 0, 0, 0, 0, 0>>
  <2>1. PICK efer \in Address, zero \in Address :
           efer = <<0, 13, 0, 0, 0, 0, 0, 0>> /\ zero = <<0, 0, 0, 0, 0, 0, 0, 0>>
    <3>1. <<0, 13, 0, 0, 0, 0, 0, 0>> \in Address /\ <<0, 0, 0, 0, 0, 0, 0, 0>> \in Address
      BY SMT DEF Address, Byte
    <3> QED BY <3>1
  <2>2. BootMsrs = [msr \in {"EFER", "STAR", "LSTAR", "FMASK", "UGSBAS", "KGSBAS"} |->
                       IF msr = "EFER" THEN efer ELSE zero]
    BY <2>1 DEF BootMsrs
  <2>3. BootMsrs \in Msrs /\ BootMsrs["EFER"] = efer
    BY <2>2 DEF Msrs
  <2> QED BY <2>1, <2>3
<1>2. PICK on \in Address : on = <<1, 13, 0, 0, 0, 0, 0, 0>>
  <2>1. <<1, 13, 0, 0, 0, 0, 0, 0>> \in Address
    BY SMT DEF Address, Byte
  <2> QED BY <2>1
<1>3. PICK star \in Address : star = <<0, 0, 0, 0, 8, 0, 19, 0>>
  <2>1. <<0, 0, 0, 0, 8, 0, 19, 0>> \in Address
    BY SMT DEF Address, Byte
  <2> QED BY <2>1
<1>4. PICK allButOne \in Address : allButOne = <<254, 255, 255, 255, 0, 0, 0, 0>>
  <2>1. <<254, 255, 255, 255, 0, 0, 0, 0>> \in Address
    BY SMT DEF Address, Byte
  <2> QED BY <2>1
<1>5. [Rdmsr(boot, "EFER") EXCEPT ![1] = 2 * (@ \div 2) + 1] = on
  <2>1. Rdmsr(boot, "EFER") = <<0, 13, 0, 0, 0, 0, 0, 0>>
    BY <1>1, Halves DEF Rdmsr, Msrs
  <2> QED BY <1>2, <2>1
<1>6. Star = star
  BY <1>3 DEF Star, KCODE, UDATA
<1>7. PICK one \in Msrs : one = [boot EXCEPT !["EFER"] = on]
  BY DEF Msrs
<1>8. PICK two \in Msrs : two = [one EXCEPT !["STAR"] = star]
  BY DEF Msrs
<1>9. PICK three \in Msrs : three = [two EXCEPT !["LSTAR"] = handler]
  BY DEF Msrs
<1>10. PICK four \in Msrs : four = [three EXCEPT !["FMASK"] = allButOne]
  BY DEF Msrs
<1>11. PICK five \in Msrs : five = [four EXCEPT !["UGSBAS"] = gs]
  BY DEF Msrs
<1>12. PICK six \in Msrs : six = [five EXCEPT !["KGSBAS"] = gs]
  BY DEF Msrs
<1>13. SysInit(boot, handler) = four
  <2>1. Wrmsr(boot, "EFER", on) = one /\ Wrmsr(one, "STAR", star) = two
    BY <1>7, <1>8, WrmsrIs
  <2>2. Wrmsr(two, "LSTAR", handler) = three /\ Wrmsr(three, "FMASK", allButOne) = four
    BY <1>9, <1>10, WrmsrIs
  <2> QED BY <1>4, <1>5, <1>6, <2>1, <2>2 DEF SysInit
<1>14. SysSetGs(four, gs) = six
  BY <1>11, <1>12, WrmsrIs DEF SysSetGs
<1>15. /\ six["EFER"] = on /\ six["STAR"] = star /\ six["LSTAR"] = handler
       /\ six["FMASK"] = allButOne /\ six["UGSBAS"] = gs /\ six["KGSBAS"] = gs
  <2>1. one["EFER"] = on
    BY <1>7 DEF Msrs
  <2>2. two["EFER"] = on /\ two["STAR"] = star
    BY <1>8, <2>1 DEF Msrs
  <2>3. three["EFER"] = on /\ three["STAR"] = star /\ three["LSTAR"] = handler
    BY <1>9, <2>2 DEF Msrs
  <2>4. four["EFER"] = on /\ four["STAR"] = star /\ four["LSTAR"] = handler /\ four["FMASK"] = allButOne
    BY <1>10, <2>3 DEF Msrs
  <2>5. /\ five["EFER"] = on /\ five["STAR"] = star /\ five["LSTAR"] = handler /\ five["FMASK"] = allButOne
        /\ five["UGSBAS"] = gs
    BY <1>11, <2>4 DEF Msrs
  <2> QED BY <1>12, <2>5 DEF Msrs
<1>16. SysSetGs(SysInit(BootMsrs, handler), gs) = six
  BY <1>1, <1>13, <1>14
<1> QED BY <1>2, <1>3, <1>4, <1>15, <1>16

LEMMA OnlyCarryIsKept ==
    ASSUME NEW msrs, msrs.FMASK = <<254, 255, 255, 255, 0, 0, 0, 0>>
    PROVE  KeptFlags(msrs) = {0}
<1> DEFINE Byte4(b) == msrs.FMASK[b + 1]
           Kept(n) == (msrs.FMASK[n \div 8 + 1] \div 2 ^ (n % 8)) % 2 = 0
<1>1. Byte4(0) = 254 /\ Byte4(1) = 255 /\ Byte4(2) = 255 /\ Byte4(3) = 255
  OBVIOUS
<1>2. ASSUME NEW n \in 0 .. 31 PROVE Kept(n) <=> n = 0
  <2>1. PICK b \in 0 .. 3, k \in 0 .. 7 : n = 8 * b + k /\ n \div 8 = b /\ n % 8 = k
    BY SMT
  <2>2. ASSUME NEW v \in {254, 255} PROVE (v \div 2 ^ k) % 2 = 0 <=> v = 254 /\ k = 0
    <3>1. CASE k = 0
      BY SMT, <3>1
    <3>2. CASE k = 1
      BY SMT, <3>2
    <3>3. CASE k = 2
      BY SMT, <3>3
    <3>4. CASE k = 3
      BY SMT, <3>4
    <3>5. CASE k = 4
      BY SMT, <3>5
    <3>6. CASE k = 5
      BY SMT, <3>6
    <3>7. CASE k = 6
      BY SMT, <3>7
    <3>8. CASE k = 7
      BY SMT, <3>8
    <3> QED BY <3>1, <3>2, <3>3, <3>4, <3>5, <3>6, <3>7, <3>8
  <2>3. Byte4(b) \in {254, 255} /\ (Byte4(b) = 254 <=> b = 0)
    <3> HIDE DEF Byte4
    <3>1. b = 0 \/ b = 1 \/ b = 2 \/ b = 3
      BY <2>1
    <3> QED BY <1>1, <3>1
  <2>4. (Byte4(b) \div 2 ^ k) % 2 = 0 <=> Byte4(b) = 254 /\ k = 0
    <3>1. PICK v \in {254, 255} : v = Byte4(b)
      BY <2>3
    <3>2. (v \div 2 ^ k) % 2 = 0 <=> v = 254 /\ k = 0
      BY <2>2
    <3> HIDE DEF Byte4
    <3> QED BY <3>1, <3>2
  <2> HIDE DEF Byte4
  <2>5. (Byte4(n \div 8) \div 2 ^ (n % 8)) % 2 = 0 <=> b = 0 /\ k = 0
    BY <2>1, <2>3, <2>4
  <2> QED BY <2>1, <2>5 DEF Byte4, Kept
<1>3. KeptFlags(msrs) = {n \in 0 .. 31 : Kept(n)}
  BY DEF KeptFlags
<1>4. 0 \in 0 .. 31
  OBVIOUS
<1> HIDE DEF Kept
<1> QED BY <1>2, <1>3, <1>4

-----------------------------------------------------------------------------
(* The tables. *)

LEMMA SegmentsAre ==
    ASSUME NEW tss
    PROVE  LET gdt == Gdt(tss)
           IN  /\ gdt[14] = 154 /\ gdt[15] = 32 /\ gdt[22] = 146 /\ gdt[23] = 0
               /\ gdt[30] = 242 /\ gdt[31] = 0 /\ gdt[38] = 250 /\ gdt[39] = 32
<1> DEFINE gdt == Gdt(tss)
<1>1. ASSUME NEW k \in 1 .. 5, NEW j \in 1 .. 8 PROVE gdt[8 * (k - 1) + j] = GdtEntries[k][j]
  <2>1. PICK n \in 1 .. 40 : n = 8 * (k - 1) + j
    OBVIOUS
  <2>2. n \in 1 .. 56 /\ n <= 40 /\ ((n - 1) \div 8) + 1 = k /\ ((n - 1) % 8) + 1 = j
    BY <2>1
  <2>3. gdt[n] = GdtEntries[k][j]
    BY <2>2 DEF Gdt
  <2> QED BY <2>1, <2>3
<1>2. GdtEntries[2][6] = 154 /\ GdtEntries[2][7] = 32
  BY DEF GdtEntries, GdtEntry, PRESENT, SEGMENT, READ_WRITE, EXECUTABLE, LONG_MODE
<1>3. GdtEntries[3][6] = 146 /\ GdtEntries[3][7] = 0
  BY DEF GdtEntries, GdtEntry, PRESENT, SEGMENT, READ_WRITE
<1>4. GdtEntries[4][6] = 242 /\ GdtEntries[4][7] = 0
  BY DEF GdtEntries, GdtEntry, PRESENT, SEGMENT, READ_WRITE, USER
<1>5. GdtEntries[5][6] = 250 /\ GdtEntries[5][7] = 32
  BY DEF GdtEntries, GdtEntry, PRESENT, SEGMENT, READ_WRITE, EXECUTABLE, LONG_MODE, USER
<1> HIDE DEF gdt
<1>6. gdt[14] = GdtEntries[2][6] /\ gdt[15] = GdtEntries[2][7]
  <2>1. PICK k \in 1 .. 5, i6 \in 1 .. 8, i7 \in 1 .. 8 : k = 2 /\ i6 = 6 /\ i7 = 7
    OBVIOUS
  <2>2. gdt[8 * (k - 1) + i6] = GdtEntries[k][i6] /\ gdt[8 * (k - 1) + i7] = GdtEntries[k][i7]
    BY <1>1
  <2> QED BY <2>1, <2>2
<1>7. gdt[22] = GdtEntries[3][6] /\ gdt[23] = GdtEntries[3][7]
  <2>1. PICK k \in 1 .. 5, i6 \in 1 .. 8, i7 \in 1 .. 8 : k = 3 /\ i6 = 6 /\ i7 = 7
    OBVIOUS
  <2>2. gdt[8 * (k - 1) + i6] = GdtEntries[k][i6] /\ gdt[8 * (k - 1) + i7] = GdtEntries[k][i7]
    BY <1>1
  <2> QED BY <2>1, <2>2
<1>8. gdt[30] = GdtEntries[4][6] /\ gdt[31] = GdtEntries[4][7]
  <2>1. PICK k \in 1 .. 5, i6 \in 1 .. 8, i7 \in 1 .. 8 : k = 4 /\ i6 = 6 /\ i7 = 7
    OBVIOUS
  <2>2. gdt[8 * (k - 1) + i6] = GdtEntries[k][i6] /\ gdt[8 * (k - 1) + i7] = GdtEntries[k][i7]
    BY <1>1
  <2> QED BY <2>1, <2>2
<1>9. gdt[38] = GdtEntries[5][6] /\ gdt[39] = GdtEntries[5][7]
  <2>1. PICK k \in 1 .. 5, i6 \in 1 .. 8, i7 \in 1 .. 8 : k = 5 /\ i6 = 6 /\ i7 = 7
    OBVIOUS
  <2>2. gdt[8 * (k - 1) + i6] = GdtEntries[k][i6] /\ gdt[8 * (k - 1) + i7] = GdtEntries[k][i7]
    BY <1>1
  <2> QED BY <2>1, <2>2
<1> QED BY <1>2, <1>3, <1>4, <1>5, <1>6, <1>7, <1>8, <1>9 DEF gdt

LEMMA TssIsFound ==
    ASSUME NEW tss \in Address
    PROVE  TssAvailable(Gdt(tss), TSS * 8) /\ TssBase(Gdt(tss), TSS * 8) = tss
<1> DEFINE gdt == Gdt(tss) e == GdtTssEntry(tss)
<1>1. ASSUME NEW k \in 1 .. 16 PROVE gdt[40 + k] = e[k]
  <2>1. 40 + k \in 1 .. 56 /\ ~(40 + k <= 40) /\ (40 + k) - 40 = k
    OBVIOUS
  <2> HIDE DEF e
  <2> QED BY <2>1 DEF Gdt, e
<1>2. /\ e[3] = tss[1] /\ e[4] = tss[2] /\ e[5] = tss[3] /\ e[6] = 137 /\ e[8] = tss[4]
      /\ e[9] = tss[5] /\ e[10] = tss[6] /\ e[11] = tss[7] /\ e[12] = tss[8]
  BY DEF GdtTssEntry
<1> HIDE DEF gdt, e
<1>3. gdt[46] = 137
  <2>1. PICK k \in 1 .. 16 : k = 6
    OBVIOUS
  <2> QED BY <1>1, <1>2, <2>1
<1>4. ASSUME NEW n \in 1 .. 8 PROVE gdt[40 + (IF n <= 3 THEN n + 2 ELSE n + 4)] = tss[n]
  <2>1. PICK k \in 1 .. 16 : k = IF n <= 3 THEN n + 2 ELSE n + 4
    OBVIOUS
  <2>2. gdt[40 + k] = e[k]
    BY <1>1
  <2>3. e[k] = tss[n]
    BY <1>2, <2>1
  <2> QED BY <2>1, <2>2, <2>3
<1>5. TssBase(gdt, 40) = tss
  <2>1. TssBase(gdt, 40) = [n \in 1 .. 8 |-> tss[n]]
    BY <1>4 DEF TssBase
  <2> QED BY <2>1 DEF Address
<1> QED BY <1>3, <1>5 DEF gdt, TSS, TssAvailable

LEMMA GateIs ==
    ASSUME NEW handler \in Address, NEW ist \in 0 .. 7, NEW attributes
    PROVE  Gate(IdtEntry(handler, ist, attributes))
             = [handler |-> handler, selector |-> 8, ist |-> ist, attributes |-> attributes]
<1> DEFINE e == IdtEntry(handler, ist, attributes)
<1>1. /\ e[1] = handler[1] /\ e[2] = handler[2] /\ e[3] = 8 /\ e[4] = 0 /\ e[5] = ist /\ e[6] = attributes
      /\ e[7] = handler[3] /\ e[8] = handler[4] /\ e[9] = handler[5] /\ e[10] = handler[6]
      /\ e[11] = handler[7] /\ e[12] = handler[8]
  BY DEF IdtEntry
<1> HIDE DEF e
<1>2. ASSUME NEW n \in 1 .. 8 PROVE e[IF n <= 2 THEN n ELSE n + 4] = handler[n]
  BY <1>1
<1>3. [n \in 1 .. 8 |-> e[IF n <= 2 THEN n ELSE n + 4]] = handler
  <2>1. [n \in 1 .. 8 |-> e[IF n <= 2 THEN n ELSE n + 4]] = [n \in 1 .. 8 |-> handler[n]]
    BY <1>2
  <2> QED BY <2>1 DEF Address
<1>4. e[3] + 256 * e[4] = 8 /\ e[5] % 8 = ist
  BY <1>1
<1> QED BY <1>1, <1>3, <1>4 DEF Gate, e

-----------------------------------------------------------------------------

LEMMA SegmentOf ==
    ASSUME NEW gdt, NEW selector, NEW at, at = selector - (selector % 8),
           NEW flags, gdt[at + 6] = flags, NEW granularity, gdt[at + 7] = granularity
    PROVE  /\ Segment(gdt, selector).present = (flags \div 128 = 1)
           /\ Segment(gdt, selector).privilege = (flags \div 32) % 4
           /\ Segment(gdt, selector).executable = ((flags \div 8) % 2 = 1)
           /\ Segment(gdt, selector).writable = ((flags \div 2) % 2 = 1)
           /\ Segment(gdt, selector).long = ((granularity \div 32) % 2 = 1)
  BY DEF Segment

(* A code segment has flags p * 32 + 154 and LONG_MODE.                     *)
LEMMA CodeSegment ==
    ASSUME NEW gdt, NEW selector, NEW at, at = selector - (selector % 8), NEW privilege,
           NEW flags, gdt[at + 6] = flags, NEW granularity, gdt[at + 7] = granularity,
           flags \div 128 = 1 /\ (flags \div 32) % 4 = privilege /\ (flags \div 8) % 2 = 1,
           (granularity \div 32) % 2 = 1
    PROVE  CodeAt(Segment(gdt, selector), privilege)
<1>1. PICK segment : segment = Segment(gdt, selector)
  OBVIOUS
<1>2. /\ segment.present = (flags \div 128 = 1) /\ segment.privilege = (flags \div 32) % 4
      /\ segment.executable = ((flags \div 8) % 2 = 1) /\ segment.long = ((granularity \div 32) % 2 = 1)
  BY <1>1, SegmentOf
<1>3. CodeAt(segment, privilege)
  BY <1>2, Zenon DEF CodeAt
<1> QED BY <1>1, <1>3

LEMMA DataSegment ==
    ASSUME NEW gdt, NEW selector, NEW at, at = selector - (selector % 8), NEW privilege,
           NEW flags, gdt[at + 6] = flags, NEW granularity, gdt[at + 7] = granularity,
           flags \div 128 = 1 /\ (flags \div 32) % 4 = privilege,
           (flags \div 8) % 2 # 1 /\ (flags \div 2) % 2 = 1
    PROVE  DataAt(Segment(gdt, selector), privilege)
<1>1. PICK segment : segment = Segment(gdt, selector)
  OBVIOUS
<1>2. /\ segment.present = (flags \div 128 = 1) /\ segment.privilege = (flags \div 32) % 4
      /\ segment.executable = ((flags \div 8) % 2 = 1) /\ segment.writable = ((flags \div 2) % 2 = 1)
  BY <1>1, SegmentOf
<1>3. DataAt(segment, privilege)
  BY <1>2, Zenon DEF DataAt
<1> QED BY <1>1, <1>3

LEMMA SegmentFlags ==
    ASSUME NEW gdt,
           gdt[14] = 154 /\ gdt[15] = 32 /\ gdt[22] = 146 /\ gdt[23] = 0,
           gdt[30] = 242 /\ gdt[31] = 0 /\ gdt[38] = 250 /\ gdt[39] = 32
    PROVE  /\ CodeAt(Segment(gdt, 8), 0) /\ DataAt(Segment(gdt, 16), 0)
           /\ CodeAt(Segment(gdt, 35), 3) /\ DataAt(Segment(gdt, 27), 3)
<1>1. CodeAt(Segment(gdt, 8), 0)
  <2>1. 8 = 8 - (8 % 8) /\ 8 + 6 = 14 /\ 8 + 7 = 15
    BY SMT
  <2>2. 154 \div 128 = 1 /\ (154 \div 32) % 4 = 0 /\ (154 \div 8) % 2 = 1 /\ (32 \div 32) % 2 = 1
    BY SMT
  <2> QED BY <2>1, <2>2, CodeSegment
<1>2. DataAt(Segment(gdt, 16), 0)
  <2>1. 16 = 16 - (16 % 8) /\ 16 + 6 = 22 /\ 16 + 7 = 23
    BY SMT
  <2>2. 146 \div 128 = 1 /\ (146 \div 32) % 4 = 0 /\ (146 \div 8) % 2 # 1 /\ (146 \div 2) % 2 = 1
    BY SMT
  <2> QED BY <2>1, <2>2, DataSegment
<1>3. CodeAt(Segment(gdt, 35), 3)
  <2>1. 32 = 35 - (35 % 8) /\ 32 + 6 = 38 /\ 32 + 7 = 39
    BY SMT
  <2>2. 250 \div 128 = 1 /\ (250 \div 32) % 4 = 3 /\ (250 \div 8) % 2 = 1 /\ (32 \div 32) % 2 = 1
    BY SMT
  <2> QED BY <2>1, <2>2, CodeSegment
<1>4. DataAt(Segment(gdt, 27), 3)
  <2>1. 24 = 27 - (27 % 8) /\ 24 + 6 = 30 /\ 24 + 7 = 31
    BY SMT
  <2>2. 242 \div 128 = 1 /\ (242 \div 32) % 4 = 3 /\ (242 \div 8) % 2 # 1 /\ (242 \div 2) % 2 = 1
    BY SMT
  <2> QED BY <2>1, <2>2, DataSegment
<1> QED BY <1>1, <1>2, <1>3, <1>4

LEMMA DescriptorAnswers == asked \in DescriptorQuestions => CpuFindsItsSegments
<1> SUFFICES ASSUME asked \in DescriptorQuestions PROVE CpuFindsItsSegments
  OBVIOUS
<1>1. asked.tss \in Address /\ asked.handler \in Address /\ asked.ist \in 0 .. 7
  BY AlgorithmsAssumption DEF DescriptorQuestions
<1> DEFINE gdt == Gdt(asked.tss)
           gate == Gate(IdtEntry(asked.handler, asked.ist, asked.attributes))
           msrs == SysSetGs(SysInit(BootMsrs, asked.handler), asked.tss)
<1>2. gdt = Gdt(asked.tss)
  OBVIOUS
<1>3. gate = Gate(IdtEntry(asked.handler, asked.ist, asked.attributes))
  OBVIOUS
<1>4. msrs = SysSetGs(SysInit(BootMsrs, asked.handler), asked.tss)
  OBVIOUS
<1> HIDE DEF gdt, gate, msrs
<1>5. /\ msrs.EFER = <<1, 13, 0, 0, 0, 0, 0, 0>> /\ msrs.STAR = <<0, 0, 0, 0, 8, 0, 19, 0>>
      /\ msrs.LSTAR = asked.handler /\ msrs.FMASK = <<254, 255, 255, 255, 0, 0, 0, 0>>
      /\ msrs.UGSBAS = asked.tss /\ msrs.KGSBAS = asked.tss
  BY <1>1, <1>4, RegistersAre
<1>6. SyscallCs(msrs) = 8 /\ SyscallSs(msrs) = 16 /\ SysretCs(msrs) = 35 /\ SysretSs(msrs) = 27
  BY <1>5 DEF SyscallCs, SyscallSs, SysretCs, SysretSs
<1>7. /\ CodeAt(Segment(gdt, 8), 0) /\ DataAt(Segment(gdt, 16), 0)
      /\ CodeAt(Segment(gdt, 35), 3) /\ DataAt(Segment(gdt, 27), 3)
  BY <1>2, SegmentsAre, SegmentFlags
<1>8. gate.handler = asked.handler /\ gate.selector = 8 /\ gate.ist = asked.ist
      /\ gate.attributes = asked.attributes
  BY <1>1, <1>3, GateIs
<1>9. SyscallEnabled(msrs) /\ Tail(msrs.EFER) = Tail(BootMsrs.EFER)
  <2>1. BootMsrs.EFER = <<0, 13, 0, 0, 0, 0, 0, 0>>
    BY DEF BootMsrs
  <2> QED BY <1>5, <2>1 DEF SyscallEnabled
<1>10. KeptFlags(msrs) = {0}
  BY <1>5, OnlyCarryIsKept
<1>11. TssAvailable(gdt, TSS * 8) /\ TssBase(gdt, TSS * 8) = asked.tss
  BY <1>1, <1>2, TssIsFound
<1>12. /\ CodeAt(Segment(gdt, SyscallCs(msrs)), 0) /\ DataAt(Segment(gdt, SyscallSs(msrs)), 0)
       /\ CodeAt(Segment(gdt, SysretCs(msrs)), 3) /\ DataAt(Segment(gdt, SysretSs(msrs)), 3)
  BY <1>6, <1>7, Zenon
<1>13. CodeAt(Segment(gdt, gate.selector), 0)
  BY <1>7, <1>8, Zenon
<1>14. {msrs.UGSBAS, msrs.KGSBAS} = {asked.tss}
  BY <1>5
<1>15. msrs.LSTAR = asked.handler
  BY <1>5, Zenon
<1> QED BY <1>8, <1>9, <1>10, <1>11, <1>12, <1>13, <1>14, <1>15, Zenon DEF CpuFindsItsSegments, gdt, gate, msrs

-----------------------------------------------------------------------------
(* Acpi and the configuration tables of EFI. *)

(* What AskTables, AskMadt, AskConfig and AskEcam can ask.                  *)
TableQuestions ==
    [about : {"tables"}, signatures : [1 .. 2 * MaxTables -> Signatures], count : 0 .. MaxTables,
     slack : 0 .. 3, revision : {0, 2}, xsdt : {0, 1}]
MadtQuestions == [about : {"madt"}, bytes : [0 .. MadtSize -> MadtBytes], len : 0 .. MadtSize]
ConfigQuestions == [about : {"config"}, guids : Seq(Guids), guid : Guids]
EcamQuestions == [about : {"ecam"}, one : PciAddrs, two : PciAddrs]

LEMMA ConfigAnswers == asked \in ConfigQuestions => FindsTheConfiguration
<1> SUFFICES ASSUME asked \in ConfigQuestions PROVE FindsTheConfiguration
  OBVIOUS
<1>1. PICK guids \in Seq(Guids), guid \in Guids : guids = asked.guids /\ guid = asked.guid
  BY DEF ConfigQuestions
<1>2. PICK len \in Nat : len = Len(guids) /\ DOMAIN guids = 1 .. len
  OBVIOUS
<1> DEFINE same == {k \in 1 .. len : guids[k] = guid}
<1>3. PICK at : at = LookupConfigurationTable(guids, guid)
  OBVIOUS
<1>4. at = IF same # {} THEN CHOOSE x \in same : \A y \in same : x <= y ELSE 0
  BY <1>2, <1>3 DEF LookupConfigurationTable, SelectInSeq, Min
<1>5. CASE same = {}
  <2>1. at = 0 /\ guid \notin ToSet(guids)
    BY <1>2, <1>4, <1>5 DEF ToSet
  <2> QED BY <1>1, <1>3, <2>1 DEF FindsTheConfiguration
<1>6. CASE same # {}
  <2>1. same \subseteq Nat
    OBVIOUS
  <2>2. \E x \in same : \A y \in same : x <= y
    <3> HIDE DEF same
    <3> QED BY <1>6, <2>1, Least
  <2>3. at \in same /\ \A y \in same : at <= y
    <3> HIDE DEF same
    <3> QED BY <1>4, <1>6, <2>2
  <2>4. at # 0 /\ guids[at] = guid /\ \A k \in 1 .. at - 1 : guids[k] # guid
    BY <2>3
  <2> QED BY <1>1, <1>3, <2>4 DEF FindsTheConfiguration
<1> QED BY <1>5, <1>6

-----------------------------------------------------------------------------
(* PciEcam. *)

Buses == 0 .. 255
Slots == 0 .. 31
Funcs == 0 .. 7

Place(b, s, f) == b * 2 ^ 20 + s * 2 ^ 15 + f * 2 ^ 12

LEMMA Placing ==
    ASSUME NEW b \in Buses, NEW s \in Slots, NEW f \in Funcs,
           NEW c \in Buses, NEW t \in Slots, NEW g \in Funcs, ~(b = c /\ s = t /\ f = g)
    PROVE  Place(b, s, f) + 4096 <= Place(c, t, g) \/ Place(c, t, g) + 4096 <= Place(b, s, f)
BY SMT DEF Place, Buses, Slots, Funcs

LEMMA Bounded ==
    ASSUME NEW b \in Buses, NEW s \in Slots, NEW f \in Funcs
    PROVE  Place(b, s, f) \in Nat /\ Place(b, s, f) + 4096 <= 2 ^ 28
BY SMT DEF Place, Buses, Slots, Funcs

LEMMA PlaceOf == ASSUME NEW addr, addr \in FunctionAddr PROVE EcamAt(0, addr) = Place(addr.bus, addr.slot, addr.func)
<1>1. addr.bus \in Buses /\ addr.slot \in Slots /\ addr.func \in Funcs
  BY DEF FunctionAddr, Buses, Slots, Funcs
<1>2. EcamOffset(addr) = Place(addr.bus, addr.slot, addr.func)
  BY DEF EcamOffset, Place
<1>3. Place(addr.bus, addr.slot, addr.func) \in Nat
  BY <1>1, Bounded
<1> QED BY <1>2, <1>3 DEF EcamAt

LEMMA EcamAnswers == asked \in EcamQuestions => FunctionsApart
<1> SUFFICES ASSUME asked \in EcamQuestions PROVE FunctionsApart
  OBVIOUS
<1>1. PICK one \in FunctionAddr, two \in FunctionAddr : one = asked.one /\ two = asked.two
  BY AlgorithmsAssumption DEF EcamQuestions
<1>2. /\ one.bus \in Buses /\ one.slot \in Slots /\ one.func \in Funcs
      /\ two.bus \in Buses /\ two.slot \in Slots /\ two.func \in Funcs
      /\ one # two => ~(one.bus = two.bus /\ one.slot = two.slot /\ one.func = two.func)
  BY DEF FunctionAddr, Buses, Slots, Funcs
<1>3. /\ EcamAt(0, one) = Place(one.bus, one.slot, one.func)
      /\ EcamAt(0, two) = Place(two.bus, two.slot, two.func)
  BY PlaceOf
<1>4. ASSUME one # two
      PROVE  EcamAt(0, one) + 4096 <= EcamAt(0, two) \/ EcamAt(0, two) + 4096 <= EcamAt(0, one)
  <2>1. \/ Place(one.bus, one.slot, one.func) + 4096 <= Place(two.bus, two.slot, two.func)
        \/ Place(two.bus, two.slot, two.func) + 4096 <= Place(one.bus, one.slot, one.func)
    BY <1>2, <1>4, Placing
  <2> QED BY <1>3, <2>1
<1>5. EcamAt(0, one) + 4096 <= 2 ^ 28
  <2>1. Place(one.bus, one.slot, one.func) + 4096 <= 2 ^ 28
    BY <1>2, Bounded
  <2> QED BY <1>3, <2>1
<1>6. ConfigSpaceSize = 4096
  BY DEF ConfigSpaceSize
<1>7. asked.one # asked.two =>
         \/ EcamAt(0, asked.one) + ConfigSpaceSize <= EcamAt(0, asked.two)
         \/ EcamAt(0, asked.two) + ConfigSpaceSize <= EcamAt(0, asked.one)
  BY <1>1, <1>4, <1>6
<1>8. EcamAt(0, asked.one) + ConfigSpaceSize <= 2 ^ 28
  BY <1>1, <1>5, <1>6
<1> QED BY <1>7, <1>8, Zenon DEF FunctionsApart

-----------------------------------------------------------------------------
(* Acpi. *)

LEMMA Counted ==
    ASSUME NEW count \in 0 .. MaxTables, NEW slack \in 0 .. 3
    PROVE  /\ RsdtCount(SdthSize + 4 * count + slack) = count
           /\ XsdtCount(SdthSize + 8 * count + slack) = count
           /\ McfgCount(SdthSize + McfgReserved + McfgRecord * count + slack) = count
<1>1. /\ MaxTables \in Nat /\ 36 + 8 + 16 * MaxTables + 3 < Usizes /\ Usizes \in Nat
  BY AlgorithmsAssumption, AcpiAssumption DEF SdthSize, McfgReserved, McfgRecord
<1>2. ASSUME NEW n \in Nat, n < Usizes PROVE n % Usizes = n
  BY <1>1, <1>2
<1>3. (4 * count + slack) % Usizes = 4 * count + slack
  BY <1>1, <1>2
<1>4. (8 * count + slack) % Usizes = 8 * count + slack
  BY <1>1, <1>2
<1>5. (16 * count + slack) % Usizes = 16 * count + slack
  BY <1>1, <1>2
<1>6. /\ (36 + 4 * count + slack) - 36 = 4 * count + slack
      /\ (36 + 8 * count + slack) - 36 = 8 * count + slack
      /\ (36 + 8 + 16 * count + slack) - (36 + 8) = 16 * count + slack
  OBVIOUS
<1>7. /\ (4 * count + slack) \div 4 = count /\ (8 * count + slack) \div 8 = count
      /\ (16 * count + slack) \div 16 = count
  OBVIOUS
<1>8. RsdtCount(SdthSize + 4 * count + slack) = count
  BY <1>3, <1>6, <1>7 DEF RsdtCount, Entries, SdthSize
<1>9. XsdtCount(SdthSize + 8 * count + slack) = count
  BY <1>4, <1>6, <1>7 DEF XsdtCount, Entries, SdthSize
<1>10. McfgCount(SdthSize + McfgReserved + McfgRecord * count + slack) = count
  BY <1>5, <1>6, <1>7 DEF McfgCount, Entries, SdthSize, McfgReserved, McfgRecord
<1> QED BY <1>8, <1>9, <1>10, Zenon

Listing == [k \in 1 .. 2 * MaxTables |-> [signature |-> asked.signatures[k], at |-> k]]

LEMMA TablesAre ==
    ASSUME asked \in TableQuestions
    PROVE  /\ IterTables(Rsdp) \in Seq([signature : Signatures, at : Nat])
           /\ Len(IterTables(Rsdp)) = asked.count
           /\ \A k \in 1 .. asked.count : IterTables(Rsdp)[k] = [signature |-> asked.signatures[k], at |-> k]
<1> DEFINE table == [signature : Signatures, at : Nat]
<1>1. PICK count \in 0 .. MaxTables, slack \in 0 .. 3 : count = asked.count /\ slack = asked.slack
  <2>1. asked.count \in 0 .. MaxTables /\ asked.slack \in 0 .. 3
    BY DEF TableQuestions
  <2> QED BY <2>1, Zenon
<1>2. MaxTables \in Nat /\ asked.signatures \in [1 .. 2 * MaxTables -> Signatures]
  BY AlgorithmsAssumption DEF TableQuestions
<1>3. /\ Rsdp.lists.rsdt.children = Listing /\ Rsdp.lists.rsdt.len = SdthSize + 4 * count + slack
      /\ Rsdp.lists.xsdt.children = Listing /\ Rsdp.lists.xsdt.len = SdthSize + 8 * count + slack
  BY <1>1 DEF Rsdp, Listing
<1>4. IterTables(Rsdp) = SubSeq(Listing, 1, count)
  BY <1>3, Counted DEF IterTables
<1>5. \A k \in 1 .. count : Listing[k] = [signature |-> asked.signatures[k], at |-> k] /\ Listing[k] \in table
  BY <1>2 DEF Listing
<1>6. /\ SubSeq(Listing, 1, count) \in Seq(table)
      /\ Len(SubSeq(Listing, 1, count)) = IF 1 <= count THEN count - 1 + 1 ELSE 0
      /\ \A k \in 1 .. count - 1 + 1 : SubSeq(Listing, 1, count)[k] = Listing[1 + k - 1]
  <2> HIDE DEF table
  <2>1. 1 \in Int /\ count \in Int /\ \A k \in 1 .. count : Listing[k] \in table
    <3>1. \A k \in 1 .. count : Listing[k] \in table
      BY <1>5
    <3> QED BY <3>1, SMT
  <2> QED BY <2>1, SubSeqProperties
<1>7. count - 1 + 1 = count /\ (IF 1 <= count THEN count - 1 + 1 ELSE 0) = count
      /\ \A k \in 1 .. count : 1 + k - 1 = k
  OBVIOUS
<1>8. Len(IterTables(Rsdp)) = count /\ \A k \in 1 .. count : IterTables(Rsdp)[k] = Listing[k]
  BY <1>4, <1>6, <1>7
<1> QED BY <1>1, <1>4, <1>5, <1>6, <1>8

(* The function the LET in FindTable defines.                               *)
Search(tables, signature) ==
    CHOOSE f : f = [n \in Nat |-> IF n = 0 THEN NoTable
                                  ELSE IF tables[n].signature = signature THEN tables[n] ELSE f[n - 1]]

Searches(f, tables, signature) ==
    f[0] = NoTable
    /\ \A n \in Nat : f[n + 1] = IF tables[n + 1].signature = signature THEN tables[n + 1] ELSE f[n]

LEMMA SearchIs ==
    ASSUME NEW tables, NEW signature PROVE Searches(Search(tables, signature), tables, signature)
<1> DEFINE V == {NoTable} \cup {tables[n] : n \in Nat}
           step == [n \in Nat |-> [v \in V |-> IF tables[n].signature = signature THEN tables[n] ELSE v]]
           Does(f) == f = [n \in Nat |-> IF n = 0 THEN NoTable
                                         ELSE IF tables[n].signature = signature THEN tables[n] ELSE f[n - 1]]
<1>1. step \in [Nat -> [V -> V]] /\ NoTable \in V
  OBVIOUS
<1>2. PICK f \in [Nat -> V] : Recurs(f, NoTable, step)
  <2> HIDE DEF step, V
  <2> QED BY <1>1, Recursion
<1>3. Does(f)
  <2>1. \A n \in Nat : n # 0 => step[n][f[n - 1]] = IF tables[n].signature = signature THEN tables[n] ELSE f[n - 1]
    <3>1. \A n \in Nat : n # 0 => f[n - 1] \in V
      <4> HIDE DEF V
      <4> QED BY <1>2
    <3> HIDE DEF V
    <3> QED BY <3>1
  <2> HIDE DEF step, V
  <2> QED BY <1>2, <2>1 DEF Recurs
<1> DEFINE d == Search(tables, signature)
<1>4. Does(d)
  <2>1. d = CHOOSE g : Does(g)
    BY DEF Search
  <2> HIDE DEF Does, d
  <2> QED BY <1>3, <2>1
<1>5. d[0] = NoTable
  <2> HIDE DEF d
  <2> QED BY <1>4
<1>6. ASSUME NEW n \in Nat PROVE d[n + 1] = IF tables[n + 1].signature = signature THEN tables[n + 1] ELSE d[n]
  <2>1. n + 1 \in Nat /\ n + 1 # 0 /\ (n + 1) - 1 = n
    OBVIOUS
  <2> HIDE DEF d
  <2> QED BY <1>4, <2>1
<1> QED BY <1>5, <1>6 DEF Searches

(* The last of the first n tables with the signature, or none.              *)
LastOf(table, tables, signature, n) ==
    \/ table = NoTable /\ \A k \in 1 .. n : tables[k].signature # signature
    \/ \E m \in 1 .. n : table = tables[m] /\ tables[m].signature = signature
                         /\ \A k \in m + 1 .. n : tables[k].signature # signature

LEMMA SearchFinds ==
    ASSUME NEW tables, NEW signature, NEW f, Searches(f, tables, signature)
    PROVE  \A n \in Nat : LastOf(f[n], tables, signature, n)
<1> DEFINE S == {n \in Nat : LastOf(f[n], tables, signature, n)}
<1>1. 0 \in S
  <2>1. f[0] = NoTable
    BY DEF Searches
  <2> QED BY <2>1 DEF LastOf
<1>2. ASSUME NEW n \in Nat, n \in S PROVE n + 1 \in S
  <2>1. LastOf(f[n], tables, signature, n)
    BY <1>2
  <2>2. f[n + 1] = IF tables[n + 1].signature = signature THEN tables[n + 1] ELSE f[n]
    BY DEF Searches
  <2>3. CASE tables[n + 1].signature = signature
    <3>1. f[n + 1] = tables[n + 1] /\ n + 1 \in 1 .. n + 1 /\ \A k \in (n + 1) + 1 .. n + 1 : FALSE
      BY <2>2, <2>3
    <3>2. LastOf(f[n + 1], tables, signature, n + 1)
      BY <2>3, <3>1, Zenon DEF LastOf
    <3> QED BY <3>2
  <2>4. CASE tables[n + 1].signature # signature
    <3>1. f[n + 1] = f[n]
      BY <2>2, <2>4
    <3>2. CASE f[n] = NoTable /\ \A k \in 1 .. n : tables[k].signature # signature
      <4>1. \A k \in 1 .. n + 1 : tables[k].signature # signature
        <5>1. \A k \in 1 .. n + 1 : k \in 1 .. n \/ k = n + 1
          OBVIOUS
        <5> QED BY <2>4, <3>2, <5>1, Zenon
      <4> QED BY <3>1, <3>2, <4>1 DEF LastOf
    <3>3. ASSUME NEW m \in 1 .. n, f[n] = tables[m], tables[m].signature = signature,
                 \A k \in m + 1 .. n : tables[k].signature # signature
          PROVE  LastOf(f[n + 1], tables, signature, n + 1)
      <4>1. m \in 1 .. n + 1 /\ \A k \in m + 1 .. n + 1 : k \in m + 1 .. n \/ k = n + 1
        OBVIOUS
      <4>2. \A k \in m + 1 .. n + 1 : tables[k].signature # signature
        BY <2>4, <3>3, <4>1, Zenon
      <4> QED BY <3>1, <3>3, <4>1, <4>2, Zenon DEF LastOf
    <3>4. LastOf(f[n + 1], tables, signature, n + 1)
      BY <2>1, <3>2, <3>3, Zenon DEF LastOf
    <3> QED BY <3>4
  <2> QED BY <2>3, <2>4
<1>3. Inductive(S)
  <2> HIDE DEF S
  <2> QED BY <1>1, <1>2, Zenon DEF Inductive
<1> QED BY <1>3, Upwards

LEMMA TableAnswers == asked \in TableQuestions => FindsWhatIsListed
<1> SUFFICES ASSUME asked \in TableQuestions PROVE FindsWhatIsListed
  OBVIOUS
<1>1. PICK count \in 0 .. MaxTables, slack \in 0 .. 3 : count = asked.count /\ slack = asked.slack
  BY DEF TableQuestions
<1>2. MaxTables \in Nat /\ count \in Nat
  BY AlgorithmsAssumption
<1>3. McfgCount(SdthSize + McfgReserved + McfgRecord * asked.count + asked.slack) = asked.count
  BY <1>1, Counted
<1>4. PICK tables : tables = IterTables(Rsdp)
  OBVIOUS
<1>5. Len(tables) = count /\ \A k \in 1 .. count : tables[k] = [signature |-> asked.signatures[k], at |-> k]
  BY <1>1, <1>4, TablesAre
<1>6. ASSUME NEW signature \in Signatures, NEW listed, listed = {k \in 1 .. asked.count : asked.signatures[k] = signature}
      PROVE  FindTable(Rsdp, signature) =
                IF listed = {} THEN NoTable ELSE [signature |-> signature, at |-> Max(listed)]
  <2>1. PICK f : f = Search(tables, signature)
    OBVIOUS
  <2>2. FindTable(Rsdp, signature) = f[count]
    BY <1>4, <1>5, <2>1 DEF FindTable, Search
  <2>3. LastOf(f[count], tables, signature, count)
    BY <1>2, <2>1, SearchIs, SearchFinds
  <2>4. \A k \in 1 .. count : tables[k].signature = asked.signatures[k] /\ tables[k].at = k
    BY <1>5
  <2>5. CASE f[count] = NoTable /\ \A k \in 1 .. count : tables[k].signature # signature
    <3>1. listed = {}
      BY <1>1, <1>6, <2>4, <2>5
    <3> QED BY <2>2, <2>5, <3>1
  <2>6. ASSUME NEW m \in 1 .. count, f[count] = tables[m], tables[m].signature = signature,
               \A k \in m + 1 .. count : tables[k].signature # signature
        PROVE  listed # {} /\ f[count] = [signature |-> signature, at |-> Max(listed)]
    <3>1. m \in listed
      BY <1>1, <1>6, <2>4, <2>6
    <3>2. \A k \in listed : k \in Int /\ m >= k
      <4> SUFFICES ASSUME NEW k \in listed PROVE k \in Int /\ m >= k
        OBVIOUS
      <4>1. k \in 1 .. count /\ asked.signatures[k] = signature
        BY <1>1, <1>6
      <4>2. tables[k].signature = signature
        BY <2>4, <4>1
      <4>3. k \notin m + 1 .. count
        BY <2>6, <4>2
      <4> QED BY <4>1, <4>3
    <3>3. Max(listed) = m
      <4>1. \E x \in listed : \A y \in listed : x >= y
        BY <3>1, <3>2
      <4>2. Max(listed) \in listed /\ \A y \in listed : Max(listed) >= y
        BY <4>1 DEF Max
      <4>3. Max(listed) >= m /\ m >= Max(listed) /\ Max(listed) \in Int /\ m \in Int
        BY <3>1, <3>2, <4>2
      <4> QED BY <4>3
    <3>4. tables[m] = [signature |-> asked.signatures[m], at |-> m] /\ asked.signatures[m] = signature
      BY <1>5, <2>4, <2>6
    <3> QED BY <2>6, <3>1, <3>3, <3>4
  <2> QED BY <2>2, <2>3, <2>5, <2>6 DEF LastOf
<1> QED BY <1>3, <1>6 DEF FindsWhatIsListed

-----------------------------------------------------------------------------
(* The records of a MADT: every record is further on, so the walk comes to  *)
(* the end of the table, wherever it starts.                                *)

OneRecord(at, bytes, len, walk) ==
    IF at + RecordHeader > len THEN <<>>
    ELSE IF bytes[at] < RecordHeader THEN <<>>
    ELSE <<at>> \o walk[at + bytes[at]]

WalkOf(bytes, len) == CHOOSE f : f = [at \in Nat |-> OneRecord(at, bytes, len, f)]

Walks(f, bytes, len) == \A at \in Nat : f[at] = OneRecord(at, bytes, len, f)

LEMMA LengthIs ==
    ASSUME NEW size \in Nat, NEW bytes \in [0 .. size -> Nat], NEW len \in 0 .. size, NEW at \in Nat,
           at + 2 <= len
    PROVE  bytes[at] \in Nat
OBVIOUS

LEMMA NoRecord ==
    ASSUME NEW len \in Nat, NEW at \in Nat, NEW bytes, NEW walk,
           at + 2 > len \/ (bytes[at] \in Nat /\ bytes[at] < 2)
    PROVE  OneRecord(at, bytes, len, walk) = <<>>
BY DEF OneRecord, RecordHeader

LEMMA RecordsOfSeqs ==
    ASSUME NEW size \in Nat, NEW bytes \in [0 .. size -> Nat], NEW len \in 0 .. size, NEW at \in Nat,
           NEW walk \in [Nat -> Seq(Nat)]
    PROVE  OneRecord(at, bytes, len, walk) \in Seq(Nat)
<1>1. CASE at + 2 > len
  <2>1. OneRecord(at, bytes, len, walk) = <<>>
    BY <1>1, NoRecord
  <2> QED BY <2>1
<1>2. CASE at + 2 <= len
  <2>1. PICK b \in Nat : b = bytes[at]
    BY <1>2, LengthIs
  <2>2. CASE b < 2
    <3>1. bytes[at] \in Nat /\ bytes[at] < 2
      BY <2>1, <2>2, Zenon
    <3>2. OneRecord(at, bytes, len, walk) = <<>>
      <4>1. len \in Nat
        OBVIOUS
      <4> QED BY <3>1, <4>1, NoRecord, Zenon
    <3> QED BY <3>2
  <2>3. CASE b >= 2
    <3>1. OneRecord(at, bytes, len, walk) = <<at>> \o walk[at + b]
      <4>1. OneRecord(at, bytes, len, walk) = <<at>> \o walk[at + bytes[at]]
        <5>1. ~ at + RecordHeader > len /\ ~ bytes[at] < RecordHeader
          BY <1>2, <2>1, <2>3 DEF RecordHeader
        <5> QED BY <5>1, Zenon DEF OneRecord
      <4> QED BY <2>1, <4>1
    <3>2. walk[at + b] \in Seq(Nat) /\ <<at>> \in Seq(Nat)
      OBVIOUS
    <3> QED BY <3>1, <3>2, ConcatProperties
  <2> QED BY <2>2, <2>3
<1> QED BY <1>1, <1>2

(* What the step of the walk has done once it changes nothing any more.     *)
LEMMA WalkExists ==
    ASSUME NEW size \in Nat, NEW bytes \in [0 .. size -> Nat], NEW len \in 0 .. size
    PROVE  \E f : f = [at \in Nat |-> OneRecord(at, bytes, len, f)]
<1> DEFINE V == [Nat -> Seq(Nat)]
           Next(v) == [at \in Nat |-> OneRecord(at, bytes, len, v)]
           step == [n \in Nat |-> [v \in V |-> Next(v)]]
           base == [at \in Nat |-> <<>>]
<1>1. \A v \in V : Next(v) \in V
  BY RecordsOfSeqs
<1>2. step \in [Nat -> [V -> V]] /\ base \in V
  <2>1. base \in V
    OBVIOUS
  <2> HIDE DEF V, Next, base
  <2> QED BY <1>1, <2>1
<1>3. PICK h \in [Nat -> V] : Recurs(h, base, step)
  <2> HIDE DEF step, V, base
  <2> QED BY <1>2, Recursion
<1>4. h[0] = base /\ \A n \in Nat : h[n + 1] = Next(h[n])
  <2>1. h[0] = base
    <3> HIDE DEF base, step, V
    <3> QED BY <1>3 DEF Recurs
  <2>2. ASSUME NEW n \in Nat PROVE h[n + 1] = Next(h[n])
    <3>1. n + 1 \in Nat /\ n + 1 # 0 /\ (n + 1) - 1 = n
      OBVIOUS
    <3>2. h[n + 1] = step[n + 1][h[n]]
      <4> HIDE DEF base, step, V
      <4> QED BY <1>3, <3>1 DEF Recurs
    <3> HIDE DEF Next, V
    <3> QED BY <1>3, <3>1, <3>2
  <2> HIDE DEF Next, V, base, step
  <2> QED BY <2>1, <2>2
<1>5. \A at \in Nat : h[0][at] = <<>>
  <2> HIDE DEF V, Next, step
  <2> QED BY <1>4
<1>6. ASSUME NEW n \in Nat, NEW at \in Nat PROVE h[n + 1][at] = OneRecord(at, bytes, len, h[n])
  <2>1. h[n + 1] = Next(h[n])
    <3> HIDE DEF V, Next, step, base
    <3> QED BY <1>4
  <2> QED BY <2>1
<1> DEFINE Same(n) == \A at \in Nat : at + n >= len => h[n + 1][at] = h[n][at]
           S == {n \in Nat : Same(n)}
<1> HIDE DEF V, Next, step, base
<1>7. 0 \in S
  <2>1. ASSUME NEW at \in Nat, at + 0 >= len PROVE h[0 + 1][at] = h[0][at]
    <3>1. h[0][at] = <<>>
      BY <1>5
    <3>2. h[0 + 1][at] = OneRecord(at, bytes, len, h[0])
      BY <1>6
    <3>3. at + 2 > len
      BY <2>1
    <3>4. OneRecord(at, bytes, len, h[0]) = <<>>
      BY <3>3, NoRecord
    <3> QED BY <3>1, <3>2, <3>4
  <2> QED BY <2>1
<1>8. ASSUME NEW n \in Nat, n \in S PROVE n + 1 \in S
  <2>1. Same(n)
    BY <1>8
  <2>2. ASSUME NEW at \in Nat, at + (n + 1) >= len PROVE h[(n + 1) + 1][at] = h[n + 1][at]
    <3>1. PICK one, two : one = h[n] /\ two = h[n + 1]
      OBVIOUS
    <3>2. h[(n + 1) + 1][at] = OneRecord(at, bytes, len, two) /\ h[n + 1][at] = OneRecord(at, bytes, len, one)
      <4>1. n + 1 \in Nat
        OBVIOUS
      <4>2. h[(n + 1) + 1][at] = OneRecord(at, bytes, len, h[n + 1])
        BY <4>1, <1>6
      <4>3. h[n + 1][at] = OneRecord(at, bytes, len, h[n])
        BY <1>6
      <4> HIDE DEF S
      <4> QED BY <3>1, <4>2, <4>3, Zenon
    <3>3. CASE at + 2 > len
      <4>1. OneRecord(at, bytes, len, two) = <<>> /\ OneRecord(at, bytes, len, one) = <<>>
        BY <3>3, NoRecord
      <4> QED BY <3>2, <4>1
    <3>4. CASE at + 2 <= len
      <4>1. PICK b \in Nat : b = bytes[at]
        BY <3>4, LengthIs
      <4>2. CASE b < 2
        <5>1. OneRecord(at, bytes, len, two) = <<>> /\ OneRecord(at, bytes, len, one) = <<>>
          BY <4>1, <4>2, NoRecord
        <5> QED BY <3>2, <5>1
      <4>3. CASE b >= 2
        <5>1. PICK next \in Nat : next = at + b /\ next + n >= len
          BY <2>2, <4>3
        <5>2. two[next] = one[next]
          BY <2>1, <3>1, <5>1
        <5>3. /\ OneRecord(at, bytes, len, two) = <<at>> \o two[next]
              /\ OneRecord(at, bytes, len, one) = <<at>> \o one[next]
          <6>1. /\ OneRecord(at, bytes, len, two) = <<at>> \o two[at + bytes[at]]
                /\ OneRecord(at, bytes, len, one) = <<at>> \o one[at + bytes[at]]
            BY <3>4, <4>1, <4>3 DEF OneRecord, RecordHeader
          <6> QED BY <4>1, <5>1, <6>1
        <5> QED BY <3>2, <5>2, <5>3
      <4> QED BY <4>2, <4>3
    <3> QED BY <3>3, <3>4
  <2>3. Same(n + 1) /\ n + 1 \in Nat
    BY <2>2
  <2> HIDE DEF Same
  <2> QED BY <2>3, Zenon
<1>9. Same(len)
  <2>1. Inductive(S)
    <3> HIDE DEF S
    <3> QED BY <1>7, <1>8, Zenon DEF Inductive
  <2> HIDE DEF Same
  <2> QED BY <2>1, Upwards
<1>10. PICK w \in V : w = h[len]
  BY <1>3
<1>11. w = [at \in Nat |-> w[at]]
  BY <1>10 DEF V
<1>12. \A at \in Nat : w[at] = OneRecord(at, bytes, len, w)
  <2>1. \A at \in Nat : h[len + 1][at] = OneRecord(at, bytes, len, w)
    <3>1. len \in Nat
      OBVIOUS
    <3> QED BY <1>6, <1>10, <3>1
  <2>2. \A at \in Nat : h[len + 1][at] = w[at]
    BY <1>9, <1>10
  <2> QED BY <2>1, <2>2
<1> QED BY <1>11, <1>12, Zenon

LEMMA WalkIs ==
    ASSUME NEW size \in Nat, NEW bytes \in [0 .. size -> Nat], NEW len \in 0 .. size
    PROVE  Walks(WalkOf(bytes, len), bytes, len)
<1> DEFINE Next(v) == [at \in Nat |-> OneRecord(at, bytes, len, v)]
<1>1. PICK d : d = WalkOf(bytes, len)
  OBVIOUS
<1>2. d = Next(d)
  <2>1. d = CHOOSE f : f = Next(f)
    BY <1>1 DEF WalkOf
  <2>2. \E f : f = Next(f)
    BY WalkExists
  <2> HIDE DEF Next
  <2> QED BY <2>1, <2>2
<1>3. \A at \in Nat : d[at] = OneRecord(at, bytes, len, d)
  <2>1. \A at \in Nat : Next(d)[at] = OneRecord(at, bytes, len, d)
    OBVIOUS
  <2> HIDE DEF Next
  <2> QED BY <1>2, <2>1
<1> QED BY <1>1, <1>3 DEF Walks

(* What MadtRecords answers from a place on.                                *)
Chain(seen, at, bytes, len) ==
    /\ seen \in Seq(Nat)
    /\ \A k \in 1 .. Len(seen) - 1 : seen[k + 1] = seen[k] + bytes[seen[k]]
    /\ \A k \in 1 .. Len(seen) : seen[k] + 2 <= len /\ bytes[seen[k]] >= 2
    /\ seen # <<>> => seen[1] = at
    /\ LET next == IF seen = <<>> THEN at ELSE seen[Len(seen)] + bytes[seen[Len(seen)]]
       IN  next + 2 > len \/ bytes[next] < 2

LEMMA EmptyChain ==
    ASSUME NEW at, NEW bytes, NEW len, at + 2 > len \/ bytes[at] < 2
    PROVE  Chain(<<>>, at, bytes, len)
BY DEF Chain

LEMMA LongerChain ==
    ASSUME NEW seen, NEW at \in Nat, NEW bytes, NEW len \in Nat, NEW b \in Nat, b = bytes[at],
           at + 2 <= len, b >= 2, Chain(seen, at + b, bytes, len)
    PROVE  Chain(<<at>> \o seen, at, bytes, len)
<1>1. PICK n \in Nat : n = Len(seen)
  BY DEF Chain
<1>2. PICK more \in Seq(Nat) : more = <<at>> \o seen
  <2>1. seen \in Seq(Nat) /\ <<at>> \in Seq(Nat)
    BY DEF Chain
  <2> QED BY <2>1, ConcatProperties
<1>3. Len(more) = n + 1 /\ more[1] = at /\ \A k \in 1 .. n : more[k + 1] = seen[k]
  <2>1. seen \in Seq(Nat)
    BY DEF Chain
  <2> QED BY <1>1, <1>2, <2>1
<1>4. ASSUME NEW k \in 1 .. n PROVE more[k + 1] = more[k] + bytes[more[k]]
  <2>1. CASE k = 1
    <3>1. seen # <<>> /\ seen[1] = at + b /\ more[1 + 1] = seen[1] /\ 1 \in 1 .. n
      BY <1>1, <1>3, <2>1 DEF Chain
    <3> QED BY <1>3, <2>1, <3>1
  <2>2. CASE k # 1
    <3>1. PICK j \in 1 .. n - 1 : k = j + 1
      <4>1. k - 1 \in 1 .. n - 1 /\ k = (k - 1) + 1
        BY <2>2
      <4> QED BY <4>1
    <3>2. seen[j + 1] = seen[j] + bytes[seen[j]]
      BY <1>1, <3>1 DEF Chain
    <3>3. more[k + 1] = seen[j + 1] /\ more[k] = seen[j]
      BY <1>3, <3>1
    <3> QED BY <3>2, <3>3
  <2> QED BY <2>1, <2>2
<1>5. ASSUME NEW k \in 1 .. n + 1 PROVE more[k] + 2 <= len /\ bytes[more[k]] >= 2
  <2>1. CASE k = 1
    BY <1>3, <2>1
  <2>2. CASE k # 1
    <3>1. PICK j \in 1 .. n : k = j + 1
      <4>1. k - 1 \in 1 .. n /\ k = (k - 1) + 1
        BY <2>2
      <4> QED BY <4>1
    <3>2. seen[j] + 2 <= len /\ bytes[seen[j]] >= 2
      BY <1>1, <3>1 DEF Chain
    <3>3. more[k] = seen[j]
      BY <1>3, <3>1
    <3> QED BY <3>2, <3>3
  <2> QED BY <2>1, <2>2
<1>6. ASSUME NEW next, next = more[n + 1] + bytes[more[n + 1]] PROVE next + 2 > len \/ bytes[next] < 2
  <2>1. CASE n = 0
    <3>1. seen = <<>>
      <4>1. seen \in Seq(Nat) /\ Len(seen) = 0
        BY <1>1, <2>1 DEF Chain
      <4> QED BY <4>1
    <3>2. next = at + b
      BY <1>3, <1>6, <2>1
    <3> QED BY <3>1, <3>2 DEF Chain
  <2>2. CASE n # 0
    <3>1. seen # <<>> /\ n \in 1 .. n
      BY <1>1, <2>2 DEF Chain
    <3>2. next = seen[Len(seen)] + bytes[seen[Len(seen)]]
      BY <1>1, <1>3, <1>6, <3>1
    <3> QED BY <3>1, <3>2 DEF Chain
  <2> QED BY <2>1, <2>2
<1>7. more # <<>> /\ Len(more) - 1 = n
  BY <1>3
<1>8. Chain(more, at, bytes, len)
  BY <1>3, <1>4, <1>5, <1>6, <1>7 DEF Chain
<1> QED BY <1>2, <1>8

LEMMA ChainIs ==
    ASSUME NEW size \in Nat, NEW bytes \in [0 .. size -> Nat], NEW len \in 0 .. size,
           NEW walk, Walks(walk, bytes, len)
    PROVE  Chain(walk[0], 0, bytes, len)
<1> DEFINE Chained(n) == \A at \in Nat : at + n >= len => Chain(walk[at], at, bytes, len)
           S == {n \in Nat : Chained(n)}
<1>1. 0 \in S
  <2>1. ASSUME NEW at \in Nat, at + 0 >= len PROVE Chain(walk[at], at, bytes, len)
    <3>1. at + 2 > len
      BY <2>1
    <3>2. walk[at] = <<>>
      BY <3>1, NoRecord DEF Walks
    <3> QED BY <3>1, <3>2, EmptyChain
  <2> QED BY <2>1
<1>2. ASSUME NEW n \in Nat, n \in S PROVE n + 1 \in S
  <2>1. Chained(n)
    BY <1>2
  <2>2. ASSUME NEW at \in Nat, at + (n + 1) >= len PROVE Chain(walk[at], at, bytes, len)
    <3>1. walk[at] = OneRecord(at, bytes, len, walk)
      BY DEF Walks
    <3>2. CASE at + 2 > len
      <4>1. walk[at] = <<>>
        BY <3>1, <3>2, NoRecord
      <4> QED BY <3>2, <4>1, EmptyChain
    <3>3. CASE at + 2 <= len
      <4>1. PICK b \in Nat : b = bytes[at]
        BY <3>3, LengthIs
      <4>2. CASE b < 2
        <5>1. walk[at] = <<>>
          BY <3>1, <4>1, <4>2, NoRecord
        <5> QED BY <4>1, <4>2, <5>1, EmptyChain
      <4>3. CASE b >= 2
        <5>1. PICK next \in Nat : next = at + b /\ next + n >= len
          BY <2>2, <4>3
        <5>2. Chain(walk[next], next, bytes, len)
          BY <2>1, <5>1
        <5>3. walk[at] = <<at>> \o walk[next]
          <6>1. OneRecord(at, bytes, len, walk) = <<at>> \o walk[at + bytes[at]]
            BY <3>3, <4>1, <4>3 DEF OneRecord, RecordHeader
          <6> QED BY <3>1, <4>1, <5>1, <6>1
        <5>4. Chain(<<at>> \o walk[next], at, bytes, len)
          <6> HIDE DEF S, Chained
          <6> QED BY <3>3, <4>1, <4>3, <5>1, <5>2, LongerChain
        <5> QED BY <5>3, <5>4
      <4> QED BY <4>2, <4>3
    <3> QED BY <3>2, <3>3
  <2>3. Chained(n + 1) /\ n + 1 \in Nat
    BY <2>2
  <2> HIDE DEF Chained
  <2> QED BY <2>3, Zenon
<1>3. Chained(len)
  <2>1. Inductive(S)
    <3> HIDE DEF S
    <3> QED BY <1>1, <1>2, Zenon DEF Inductive
  <2>2. len \in Nat
    OBVIOUS
  <2> HIDE DEF Chained
  <2> QED BY <2>1, <2>2, Upwards
<1>4. 0 \in Nat /\ 0 + len >= len
  OBVIOUS
<1> QED BY <1>3, <1>4

LEMMA MadtAnswers == asked \in MadtQuestions => MadtWalkIsTheChain
<1> SUFFICES ASSUME asked \in MadtQuestions PROVE MadtWalkIsTheChain
  OBVIOUS
<1>1. PICK size \in Nat : size = MadtSize
  BY AlgorithmsAssumption
<1>2. PICK bytes \in [0 .. size -> Nat], len \in 0 .. size : bytes = asked.bytes /\ len = asked.len
  <2>1. asked.bytes \in [0 .. size -> MadtBytes] /\ asked.len \in 0 .. size
    BY <1>1 DEF MadtQuestions
  <2>2. asked.bytes \in [0 .. size -> Nat]
    <3>1. MadtBytes \subseteq Nat
      BY AlgorithmsAssumption
    <3> QED BY <2>1, <3>1
  <2> QED BY <2>1, <2>2
<1>3. PICK seen : seen = MadtRecords(bytes, len)
  OBVIOUS
<1>4. seen = WalkOf(bytes, len)[0]
  BY <1>3 DEF MadtRecords, WalkOf, OneRecord
<1>5. Chain(seen, 0, bytes, len)
  BY <1>4, WalkIs, ChainIs
<1>6. seen \in Seq(Nat) /\ DOMAIN seen = 1 .. Len(seen)
  BY <1>5 DEF Chain
<1>7. LET next == IF seen = <<>> THEN 0 ELSE Last(seen) + bytes[Last(seen)]
      IN  /\ \A k \in 1 .. Len(seen) - 1 : seen[k + 1] = seen[k] + bytes[seen[k]]
          /\ \A k \in DOMAIN seen : seen[k] + RecordHeader <= len /\ bytes[seen[k]] >= RecordHeader
          /\ seen # <<>> => seen[1] = 0
          /\ next + RecordHeader > len \/ bytes[next] < RecordHeader
  BY <1>5, <1>6 DEF Chain, Last, RecordHeader
<1> QED BY <1>2, <1>3, <1>7, Zenon DEF MadtWalkIsTheChain

-----------------------------------------------------------------------------
(* DtbReg. *)

(* What AskReg can ask, and more: any numbers of words and of cells.        *)
RegQuestions ==
    [about : {"reg"}, words : Seq(RegWords), addressCells : Nat, sizeCells : Nat, cut : 0 .. 1]

(* The function the LET in ParseCells defines, and what it is.              *)
CellsOf(words) ==
    CHOOSE f : f = [n \in Nat |-> IF n = 0 THEN <<Zero, Zero>> ELSE ShiftIn(f[n - 1], words[n])]

Parses(f, words) == f[0] = <<Zero, Zero>> /\ \A n \in Nat : f[n + 1] = ShiftIn(f[n], words[n + 1])

LEMMA CellsAre == ASSUME NEW words PROVE Parses(CellsOf(words), words)
<1> DEFINE X == {Zero} \cup {words[n] : n \in Nat}
           V == X \X X
           step == [n \in Nat |-> [v \in V |-> ShiftIn(v, words[n])]]
           Does(f) == f = [n \in Nat |-> IF n = 0 THEN <<Zero, Zero>> ELSE ShiftIn(f[n - 1], words[n])]
           base == <<Zero, Zero>>
<1>1. base \in V
  OBVIOUS
<1>2. \A n \in Nat, v \in V : ShiftIn(v, words[n]) \in V
  <2> SUFFICES ASSUME NEW n \in Nat, NEW v \in V PROVE <<v[2], words[n]>> \in V
    BY DEF ShiftIn
  <2>1. words[n] \in X
    OBVIOUS
  <2> HIDE DEF X
  <2> QED BY <2>1
<1> HIDE DEF V
<1>3. step \in [Nat -> [V -> V]]
  BY <1>2
<1>4. PICK f \in [Nat -> V] : Recurs(f, base, step)
  <2> HIDE DEF step, base
  <2> QED BY <1>1, <1>3, Recursion
<1>5. Does(f)
  <2>1. \A n \in Nat : n # 0 => step[n][f[n - 1]] = ShiftIn(f[n - 1], words[n])
    BY <1>4
  <2> HIDE DEF step
  <2> QED BY <1>4, <2>1 DEF Recurs
<1>6. PICK d : d = CellsOf(words)
  OBVIOUS
<1>7. Does(d)
  <2>1. d = CHOOSE g : Does(g)
    BY <1>6 DEF CellsOf
  <2> HIDE DEF Does
  <2> QED BY <1>5, <2>1
<1>8. d[0] = <<Zero, Zero>>
  BY <1>7
<1>9. ASSUME NEW n \in Nat PROVE d[n + 1] = ShiftIn(d[n], words[n + 1])
  <2>1. n + 1 \in Nat /\ n + 1 # 0 /\ (n + 1) - 1 = n
    OBVIOUS
  <2> QED BY <1>7, <2>1
<1> QED BY <1>6, <1>8, <1>9 DEF Parses

HighWord(words, n) == IF n > 1 THEN words[n - 1] ELSE Zero
LowWord(words, n) == IF n > 0 THEN words[n] ELSE Zero

LEMMA ParsesTheLast ==
    ASSUME NEW words, NEW f, Parses(f, words)
    PROVE  \A n \in Nat : f[n] = <<HighWord(words, n), LowWord(words, n)>>
<1> DEFINE S == {n \in Nat : f[n] = <<HighWord(words, n), LowWord(words, n)>>}
<1>1. 0 \in S
  BY DEF Parses, HighWord, LowWord
<1>2. ASSUME NEW n \in Nat, n \in S PROVE n + 1 \in S
  <2>1. f[n + 1] = <<f[n][2], words[n + 1]>>
    BY DEF Parses, ShiftIn
  <2>2. f[n][2] = LowWord(words, n)
    BY <1>2
  <2>3. LowWord(words, n + 1) = words[n + 1] /\ HighWord(words, n + 1) = LowWord(words, n)
    BY DEF HighWord, LowWord
  <2> QED BY <2>1, <2>2, <2>3
<1>3. Inductive(S)
  <2> HIDE DEF S
  <2> QED BY <1>1, <1>2, Zenon DEF Inductive
<1> QED BY <1>3, Upwards

LEMMA ParseCellsIs ==
    ASSUME NEW words, NEW cells \in Nat
    PROVE  /\ cells > Len(words) => ParseCells(words, cells).ok = FALSE
           /\ ~ cells > Len(words) =>
                 /\ ParseCells(words, cells).ok = TRUE
                 /\ ParseCells(words, cells).value = <<HighWord(words, cells), LowWord(words, cells)>>
<1>1. CASE cells > Len(words)
  <2>1. ParseCells(words, cells) = [ok |-> FALSE, value |-> <<Zero, Zero>>]
    BY <1>1, Zenon DEF ParseCells
  <2> QED BY <1>1, <2>1
<1>2. CASE ~ cells > Len(words)
  <2>1. PICK f : f = CellsOf(words)
    OBVIOUS
  <2>2. ParseCells(words, cells) = [ok |-> TRUE, value |-> f[cells]]
    BY <1>2, <2>1, Zenon DEF ParseCells, CellsOf
  <2>3. f[cells] = <<HighWord(words, cells), LowWord(words, cells)>>
    BY <2>1, CellsAre, ParsesTheLast
  <2> QED BY <1>2, <2>2, <2>3
<1> QED BY <1>1, <1>2

(* The number of the first cells of words.                                  *)
LEMMA NumberOfFirst ==
    ASSUME NEW S, NEW words \in Seq(S), NEW n \in 0 .. Len(words)
    PROVE  Number(SubSeq(words, 1, n)) = <<HighWord(words, n), LowWord(words, n)>>
<1>1. PICK cells \in Seq(S) : cells = SubSeq(words, 1, n) /\ Len(cells) = n /\ \A k \in 1 .. n : cells[k] = words[k]
  <2>1. /\ SubSeq(words, 1, n) \in Seq(S) /\ Len(SubSeq(words, 1, n)) = IF 1 <= n THEN n - 1 + 1 ELSE 0
        /\ \A k \in 1 .. n - 1 + 1 : SubSeq(words, 1, n)[k] = words[1 + k - 1]
    <3>1. \A k \in 1 .. n : words[k] \in S
      OBVIOUS
    <3> QED BY <3>1, SubSeqProperties
  <2>2. (IF 1 <= n THEN n - 1 + 1 ELSE 0) = n /\ n - 1 + 1 = n /\ \A k \in 1 .. n : 1 + k - 1 = k
    OBVIOUS
  <2> QED BY <2>1, <2>2
<1>2. CASE n = 0
  BY <1>1, <1>2 DEF Number, HighWord, LowWord
<1>3. CASE n = 1
  <2>1. cells[1] = words[1]
    BY <1>1, <1>3
  <2> QED BY <1>1, <1>3, <2>1 DEF Number, HighWord, LowWord
<1>4. CASE n > 1
  <2>1. cells[n] = words[n] /\ cells[n - 1] = words[n - 1]
    BY <1>1, <1>4
  <2> QED BY <1>1, <1>4, <2>1 DEF Number, HighWord, LowWord
<1> QED BY <1>2, <1>3, <1>4

LEMMA Rest ==
    ASSUME NEW S, NEW words \in Seq(S), NEW n \in 0 .. Len(words)
    PROVE  /\ SubSeq(words, n + 1, Len(words)) \in Seq(S)
           /\ Len(SubSeq(words, n + 1, Len(words))) = Len(words) - n
           /\ \A k \in 1 .. Len(words) - n : SubSeq(words, n + 1, Len(words))[k] = words[n + k]
<1>1. PICK len \in Nat : len = Len(words)
  OBVIOUS
<1>2. \A k \in n + 1 .. len : words[k] \in S
  BY <1>1
<1>3. /\ SubSeq(words, n + 1, len) \in Seq(S)
      /\ Len(SubSeq(words, n + 1, len)) = IF n + 1 <= len THEN len - (n + 1) + 1 ELSE 0
      /\ \A k \in 1 .. len - (n + 1) + 1 : SubSeq(words, n + 1, len)[k] = words[n + 1 + k - 1]
  <2>1. n + 1 \in Int /\ len \in Int
    OBVIOUS
  <2> QED BY <1>2, <2>1, SubSeqProperties
<1>4. /\ (IF n + 1 <= len THEN len - (n + 1) + 1 ELSE 0) = len - n /\ len - (n + 1) + 1 = len - n
      /\ \A k \in 1 .. len - n : n + 1 + k - 1 = n + k
  BY <1>1
<1> QED BY <1>1, <1>3, <1>4

(* The number of some cells behind the first n.                             *)
LEMMA NumberOfNext ==
    ASSUME NEW S, NEW words \in Seq(S), NEW n \in Nat, NEW m \in Nat, n + m <= Len(words)
    PROVE  Number(SubSeq(words, n + 1, n + m))
             = <<HighWord(SubSeq(words, n + 1, Len(words)), m), LowWord(SubSeq(words, n + 1, Len(words)), m)>>
<1>1. PICK rest : rest = SubSeq(words, n + 1, Len(words))
  OBVIOUS
<1>5. \A k \in 1 .. Len(words) - n : rest[k] = words[n + k]
  <2>1. n \in 0 .. Len(words)
    OBVIOUS
  <2> QED BY <1>1, <2>1, Rest
<1>2. /\ SubSeq(words, n + 1, n + m) \in Seq(S) /\ Len(SubSeq(words, n + 1, n + m)) = m
      /\ \A k \in 1 .. m : SubSeq(words, n + 1, n + m)[k] = words[n + k]
  <2>1. \A k \in n + 1 .. n + m : words[k] \in S
    OBVIOUS
  <2>2. /\ SubSeq(words, n + 1, n + m) \in Seq(S)
        /\ Len(SubSeq(words, n + 1, n + m)) = IF n + 1 <= n + m THEN n + m - (n + 1) + 1 ELSE 0
        /\ \A k \in 1 .. n + m - (n + 1) + 1 : SubSeq(words, n + 1, n + m)[k] = words[n + 1 + k - 1]
    <3>1. n + 1 \in Int /\ n + m \in Int
      OBVIOUS
    <3> QED BY <2>1, <3>1, SubSeqProperties
  <2>3. /\ (IF n + 1 <= n + m THEN n + m - (n + 1) + 1 ELSE 0) = m /\ n + m - (n + 1) + 1 = m
        /\ \A k \in 1 .. m : n + 1 + k - 1 = n + k
    OBVIOUS
  <2> QED BY <2>2, <2>3
<1>3. PICK cells \in Seq(S) : cells = SubSeq(words, n + 1, n + m) /\ Len(cells) = m /\ \A k \in 1 .. m : cells[k] = rest[k]
  <2>1. \A k \in 1 .. m : SubSeq(words, n + 1, n + m)[k] = rest[k]
    BY <1>2, <1>5
  <2> QED BY <1>2, <2>1
<1>4. Number(cells) = <<HighWord(rest, m), LowWord(rest, m)>>
  <2>1. CASE m = 0
    BY <1>3, <2>1 DEF Number, HighWord, LowWord
  <2>2. CASE m = 1
    <3>1. cells[1] = rest[1]
      BY <1>3, <2>2
    <3> QED BY <1>3, <2>2, <3>1 DEF Number, HighWord, LowWord
  <2>3. CASE m > 1
    <3>1. cells[m] = rest[m] /\ cells[m - 1] = rest[m - 1]
      BY <1>3, <2>3
    <3> QED BY <1>3, <2>3, <3>1 DEF Number, HighWord, LowWord
  <2> QED BY <2>1, <2>2, <2>3
<1> QED BY <1>1, <1>3, <1>4

-----------------------------------------------------------------------------
(* Words and their bytes. *)

LEMMA RegBytesAre ==
    ASSUME asked \in RegQuestions, NEW n \in Nat, n = Len(asked.words)
    PROVE  /\ asked.cut = 0 \/ n = 0 =>
                 /\ RegBytes \in Seq(Byte) /\ Len(RegBytes) = 4 * n
                 /\ \A k \in 1 .. n, j \in 1 .. 4 : RegBytes[4 * (k - 1) + j] = asked.words[k][j]
           /\ ~(asked.cut = 0 \/ n = 0) => RegBytes \in Seq(Byte) /\ Len(RegBytes) = 4 * n - 1
<1>1. PICK words \in Seq(RegWords) : words = asked.words
  BY DEF RegQuestions
<1>2. ASSUME NEW k \in 1 .. n, NEW j \in 1 .. 4 PROVE words[k][j] \in Byte
  <2>1. words[k] \in RegWords
    BY <1>1
  <2>2. words[k] \in [1 .. 4 -> Byte]
    BY <2>1, AlgorithmsAssumption
  <2> QED BY <2>2, Zenon
<1>3. PICK len \in Nat : len = 4 * n
  OBVIOUS
<1> DEFINE all == [k \in 1 .. len |-> words[(k - 1) \div 4 + 1][((k - 1) % 4) + 1]]
<1>4. \A k \in 1 .. len : (k - 1) \div 4 + 1 \in 1 .. n /\ ((k - 1) % 4) + 1 \in 1 .. 4
  BY <1>3
<1>5. all \in [1 .. len -> Byte]
  BY <1>2, <1>4
<1>6. all \in Seq(Byte) /\ Len(all) = len
  <2> HIDE DEF all
  <2> QED BY <1>5, FunctionIsSeq
<1>7. ASSUME NEW k \in 1 .. n, NEW j \in 1 .. 4 PROVE all[4 * (k - 1) + j] = words[k][j]
  <2>1. PICK m \in 1 .. len : m = 4 * (k - 1) + j
    BY <1>3
  <2>2. (m - 1) \div 4 + 1 = k /\ ((m - 1) % 4) + 1 = j
    BY <2>1
  <2> QED BY <2>1, <2>2
<1>8. RegBytes = IF asked.cut > 0 /\ all # <<>> THEN Front(all) ELSE all
  BY <1>1, <1>3 DEF RegBytes
<1> HIDE DEF all
<1>9. all # <<>> <=> n # 0
  BY <1>3, <1>6
<1>10. asked.cut \in {0, 1}
  BY DEF RegQuestions
<1>11. CASE asked.cut = 0 \/ n = 0
  <2>1. RegBytes = all
    BY <1>8, <1>9, <1>11
  <2> QED BY <1>1, <1>3, <1>6, <1>7, <1>11, <2>1
<1>12. CASE ~(asked.cut = 0 \/ n = 0)
  <2>1. RegBytes = SubSeq(all, 1, len - 1)
    BY <1>6, <1>8, <1>9, <1>10, <1>12 DEF Front
  <2>2. \A k \in 1 .. len - 1 : all[k] \in Byte
    BY <1>5
  <2>3. SubSeq(all, 1, len - 1) \in Seq(Byte) /\ Len(SubSeq(all, 1, len - 1)) = IF 1 <= len - 1 THEN len - 1 - 1 + 1 ELSE 0
    <3>1. 1 \in Int /\ len - 1 \in Int
      OBVIOUS
    <3> QED BY <2>2, <3>1, SubSeqProperties
  <2>4. len - 1 \in Nat /\ (IF 1 <= len - 1 THEN len - 1 - 1 + 1 ELSE 0) = 4 * n - 1
    BY <1>3, <1>12
  <2> QED BY <1>12, <2>1, <2>3, <2>4
<1> QED BY <1>11, <1>12

LEMMA WholeWords == ASSUME NEW n \in Nat PROVE (4 * n) % 4 = 0 /\ (4 * n) \div 4 = n
OBVIOUS

LEMMA Regs32Are ==
    ASSUME asked \in RegQuestions, ~ SniffStr(RegBytes), NEW n \in Nat, n = Len(asked.words)
    PROVE  /\ asked.cut = 0 \/ n = 0 => Len(RegBytes) % 4 = 0 /\ Regs32(RegBytes) = asked.words
           /\ ~(asked.cut = 0 \/ n = 0) => Len(RegBytes) % 4 # 0 /\ Regs32(RegBytes) = <<>>
<1>1. PICK words \in Seq(RegWords) : words = asked.words
  BY DEF RegQuestions
<1>2. PICK bytes : bytes = RegBytes
  OBVIOUS
<1>3. CASE asked.cut = 0 \/ n = 0
  <2>1. /\ bytes \in Seq(Byte) /\ Len(bytes) = 4 * n
        /\ \A k \in 1 .. n, j \in 1 .. 4 : bytes[4 * (k - 1) + j] = words[k][j]
    BY <1>1, <1>2, <1>3, RegBytesAre
  <2>2. Len(bytes) % 4 = 0 /\ Len(bytes) \div 4 = n
    <3>1. (4 * n) % 4 = 0 /\ (4 * n) \div 4 = n
      BY WholeWords
    <3> QED BY <2>1, <3>1
  <2>3. ASSUME NEW k \in 1 .. n PROVE SubSeq(bytes, 4 * k - 3, 4 * k) = words[k]
    <3>1. PICK from \in Nat : from = 4 * k - 3 /\ 4 * k = from + 3 /\ from + 3 <= Len(bytes) /\ from >= 1
      <4>1. 4 * k - 3 \in Nat /\ 4 * k = (4 * k - 3) + 3 /\ (4 * k - 3) + 3 <= Len(bytes) /\ 4 * k - 3 >= 1
        BY <2>1
      <4> QED BY <4>1
    <3>2. /\ SubSeq(bytes, from, from + 3) \in Seq(Byte) /\ Len(SubSeq(bytes, from, from + 3)) = 4
          /\ \A j \in 1 .. 4 : SubSeq(bytes, from, from + 3)[j] = bytes[from + j - 1]
      <4>1. \A m \in from .. from + 3 : bytes[m] \in Byte
        BY <2>1, <3>1
      <4>2. /\ SubSeq(bytes, from, from + 3) \in Seq(Byte)
            /\ Len(SubSeq(bytes, from, from + 3)) = IF from <= from + 3 THEN from + 3 - from + 1 ELSE 0
            /\ \A m \in 1 .. from + 3 - from + 1 : SubSeq(bytes, from, from + 3)[m] = bytes[from + m - 1]
        <5>1. from \in Int /\ from + 3 \in Int
          BY <3>1
        <5> QED BY <4>1, <5>1, SubSeqProperties
      <4>3. from + 3 - from + 1 = 4 /\ from <= from + 3
        OBVIOUS
      <4> QED BY <4>2, <4>3
    <3>3. words[k] \in [1 .. 4 -> Byte]
      <4>1. words[k] \in RegWords
        BY <1>1
      <4> QED BY <4>1, AlgorithmsAssumption
    <3>4. PICK s \in Seq(Byte) : s = SubSeq(bytes, from, from + 3) /\ Len(s) = 4
                                 /\ \A j \in 1 .. 4 : s[j] = bytes[from + j - 1]
      BY <3>2
    <3>5. ASSUME NEW j \in 1 .. 4 PROVE s[j] = words[k][j]
      <4>1. from + j - 1 = 4 * (k - 1) + j
        BY <3>1
      <4>2. s[j] = bytes[from + j - 1]
        BY <3>4
      <4>3. bytes[4 * (k - 1) + j] = words[k][j]
        BY <2>1
      <4> QED BY <4>1, <4>2, <4>3
    <3>6. s \in [1 .. 4 -> Byte]
      BY <3>4, LenProperties
    <3>7. s = words[k]
      BY <3>3, <3>5, <3>6
    <3> QED BY <3>1, <3>4, <3>7
  <2>4. words = [k \in 1 .. n |-> words[k]]
    BY <1>1
  <2>5. [k \in 1 .. n |-> SubSeq(bytes, 4 * k - 3, 4 * k)] = words
    BY <2>3, <2>4
  <2>6. CASE bytes \in {<<>>, <<Nul>>}
    <3>1. n = 0
      <4>1. Len(<<>>) = 0 /\ Len(<<Nul>>) = 1
        OBVIOUS
      <4>2. Len(bytes) = 0 \/ Len(bytes) = 1
        BY <2>6, <4>1
      <4> QED BY <2>1, <4>2
    <3>2. words = <<>>
      <4>1. Len(words) = 0
        BY <1>1, <3>1
      <4> QED BY <4>1
    <3>3. Regs32(bytes) = <<>>
      BY <2>6 DEF Regs32, Sniff
    <3> QED BY <1>1, <1>2, <1>3, <2>2, <3>2, <3>3
  <2>7. CASE bytes \notin {<<>>, <<Nul>>}
    <3>1. Sniff(bytes) = "U32"
      BY <1>2, <2>2, <2>7 DEF Sniff
    <3>2. Regs32(bytes) = words
      BY <2>2, <2>5, <3>1 DEF Regs32
    <3> QED BY <1>1, <1>2, <1>3, <2>2, <3>2
  <2> QED BY <2>6, <2>7
<1>4. CASE ~(asked.cut = 0 \/ n = 0)
  <2>1. Len(bytes) = 4 * n - 1
    BY <1>2, <1>4, RegBytesAre
  <2>2. Len(bytes) % 4 # 0 /\ Len(bytes) % 8 # 0
    <3>1. PICK m \in Nat : n = m + 1
      <4>1. n - 1 \in Nat /\ n = (n - 1) + 1
        BY <1>4
      <4> QED BY <4>1
    <3>2. (4 * m + 3) % 4 # 0 /\ (4 * m + 3) % 8 # 0
      OBVIOUS
    <3>3. Len(bytes) = 4 * m + 3
      BY <2>1, <3>1
    <3> QED BY <3>2, <3>3
  <2>3. Sniff(bytes) \notin {"U32", "U64"}
    BY <1>2, <2>2 DEF Sniff
  <2>4. Regs32(bytes) = <<>>
    BY <2>3 DEF Regs32
  <2> QED BY <1>2, <1>4, <2>2, <2>4
<1> QED BY <1>3, <1>4

(* Whatever the words are, the cells are found if there are so many.        *)
LEMMA CellsOfWords ==
    ASSUME NEW bytes, NEW S, NEW words \in Seq(S), Regs32(bytes) = words, NEW a \in Nat, NEW s \in Nat
    PROVE  /\ a + s <= Len(words) =>
                 ParseAddressSize(bytes, a, s)
                   = [found |-> TRUE, address |-> Number(SubSeq(words, 1, a)),
                      size |-> Number(SubSeq(words, a + 1, a + s))]
           /\ a + s > Len(words) => ParseAddressSize(bytes, a, s) = [found |-> FALSE]
<1>1. PICK rest : rest = SubSeq(words, a + 1, Len(words))
  OBVIOUS
<1>2. PICK address, size : address = ParseCells(words, a) /\ size = ParseCells(rest, s)
  OBVIOUS
<1>3. ParseAddressSize(bytes, a, s) =
          IF address.ok /\ size.ok
          THEN [found |-> TRUE, address |-> address.value, size |-> size.value]
          ELSE [found |-> FALSE]
  BY <1>1, <1>2 DEF ParseAddressSize
<1>4. a <= Len(words) => Len(rest) = Len(words) - a
  <2>1. a <= Len(words) => a \in 0 .. Len(words)
    OBVIOUS
  <2> QED BY <1>1, <2>1, Rest
<1>5. CASE a + s <= Len(words)
  <2>1. ~ a > Len(words) /\ ~ s > Len(rest) /\ a \in 0 .. Len(words)
    BY <1>4, <1>5
  <2>2. address.ok = TRUE /\ address.value = <<HighWord(words, a), LowWord(words, a)>>
    BY <1>2, <2>1, ParseCellsIs
  <2>3. size.ok = TRUE /\ size.value = <<HighWord(rest, s), LowWord(rest, s)>>
    BY <1>2, <2>1, ParseCellsIs
  <2>4. address.value = Number(SubSeq(words, 1, a))
    BY <2>1, <2>2, NumberOfFirst
  <2>5. size.value = Number(SubSeq(words, a + 1, a + s))
    BY <1>1, <1>5, <2>3, NumberOfNext
  <2>6. ParseAddressSize(bytes, a, s) = [found |-> TRUE, address |-> address.value, size |-> size.value]
    BY <1>3, <2>2, <2>3, Zenon
  <2> QED BY <1>5, <2>4, <2>5, <2>6
<1>6. CASE a + s > Len(words)
  <2>1. a > Len(words) \/ s > Len(rest)
    BY <1>4, <1>6
  <2>2. address.ok = FALSE \/ size.ok = FALSE
    BY <1>2, <2>1, ParseCellsIs
  <2>3. ParseAddressSize(bytes, a, s) = [found |-> FALSE]
    BY <1>3, <2>2, Zenon
  <2> QED BY <1>6, <2>3
<1> QED BY <1>5, <1>6

LEMMA RegAnswers == asked \in RegQuestions => RegIsWhatWasWritten
<1> SUFFICES ASSUME asked \in RegQuestions, ~ SniffStr(RegBytes)
             PROVE  RegIsWhatWasWritten
  BY DEF RegIsWhatWasWritten
<1>1. PICK written \in Seq(RegWords), a \in Nat, s \in Nat, n \in Nat :
         written = asked.words /\ a = asked.addressCells /\ s = asked.sizeCells /\ n = Len(written)
  BY DEF RegQuestions
<1>2. PICK words \in Seq(RegWords) : Regs32(RegBytes) = words /\ (words = written \/ words = <<>>)
  <2>1. Regs32(RegBytes) = written \/ Regs32(RegBytes) = <<>>
    BY <1>1, Regs32Are
  <2>2. written \in Seq(RegWords) /\ <<>> \in Seq(RegWords)
    OBVIOUS
  <2> QED BY <2>1, <2>2
<1>3. PICK answer : answer = ParseAddressSize(RegBytes, a, s)
  OBVIOUS
<1>4. CASE a + s = 0
  <2>1. a = 0 /\ s = 0 /\ a + s <= Len(words)
    BY <1>4
  <2>2. answer = [found |-> TRUE, address |-> Number(SubSeq(words, 1, 0)), size |-> Number(SubSeq(words, 0 + 1, 0 + 0))]
    BY <1>2, <1>3, <2>1, CellsOfWords
  <2>3. SubSeq(words, 1, 0) = <<>> /\ SubSeq(words, 0 + 1, 0 + 0) = <<>>
    OBVIOUS
  <2>4. Number(<<>>) = <<Zero, Zero>>
    BY DEF Number
  <2>5. answer = [found |-> TRUE, address |-> <<Zero, Zero>>, size |-> <<Zero, Zero>>]
    BY <2>2, <2>3, <2>4
  <2> QED BY <1>1, <1>3, <1>4, <2>5 DEF RegIsWhatWasWritten
<1>5. CASE a + s # 0 /\ Len(RegBytes) % 4 = 0
  <2>1. words = written
    BY <1>1, <1>2, <1>5, Regs32Are
  <2>2. CASE a + s <= n
    <3>1. answer = [found |-> TRUE, address |-> Number(SubSeq(written, 1, a)),
                    size |-> Number(SubSeq(written, a + 1, a + s))]
      <4>1. a + s <= Len(words)
        BY <1>1, <2>1, <2>2
      <4>2. answer = [found |-> TRUE, address |-> Number(SubSeq(words, 1, a)),
                      size |-> Number(SubSeq(words, a + 1, a + s))]
        BY <1>2, <1>3, <4>1, CellsOfWords
      <4> QED BY <2>1, <4>2
    <3>2. Len(written) >= a + s
      BY <1>1, <2>2
    <3> QED BY <1>1, <1>3, <1>5, <3>1, <3>2, Zenon DEF RegIsWhatWasWritten
  <2>3. CASE ~ a + s <= n
    <3>1. answer = [found |-> FALSE]
      <4>1. a + s > Len(words)
        BY <1>1, <2>1, <2>3
      <4> QED BY <1>2, <1>3, <4>1, CellsOfWords
    <3>2. ~ Len(written) >= a + s /\ answer.found = FALSE
      BY <1>1, <2>3, <3>1
    <3> QED BY <1>1, <1>3, <1>5, <3>2, Zenon DEF RegIsWhatWasWritten
  <2> QED BY <2>2, <2>3
<1>6. CASE a + s # 0 /\ Len(RegBytes) % 4 # 0
  <2>1. words = <<>>
    BY <1>1, <1>2, <1>6, Regs32Are
  <2>2. a + s > Len(words)
    BY <1>6, <2>1
  <2>3. answer = [found |-> FALSE]
    BY <1>2, <1>3, <2>2, CellsOfWords
  <2>4. answer.found = FALSE
    BY <2>3
  <2> QED BY <1>1, <1>3, <1>6, <2>4, Zenon DEF RegIsWhatWasWritten
<1> QED BY <1>4, <1>5, <1>6

-----------------------------------------------------------------------------
(* PageEntry. *)

(* What AskEntry can ask, and more: any virtual address and level.          *)
EntryQuestions ==
    [about : {"entry"}, arch : {X86, SV39}, paddr : Paddrs, other : Paddrs,
     flags : SUBSET VmmFlags, virt : Nat, level : Nat \ {0}]

(* Powers of two. *)

LEMMA Powers ==
    /\ Pow2 \in [Nat -> Nat] /\ Pow2[0] = 1
    /\ \A n \in Nat : Pow2[n + 1] = 2 * Pow2[n]
<1> DEFINE step == [n \in Nat |-> [v \in Nat |-> 2 * v]]
           Does(f) == f = [n \in Nat |-> IF n = 0 THEN 1 ELSE 2 * f[n - 1]]
<1>1. step \in [Nat -> [Nat -> Nat]] /\ 1 \in Nat
  OBVIOUS
<1>2. PICK f \in [Nat -> Nat] : Recurs(f, 1, step)
  <2> HIDE DEF step
  <2> QED BY <1>1, Recursion
<1>3. \A n \in Nat : n # 0 => n - 1 \in Nat
  OBVIOUS
<1>4. Does(f)
  <2>1. \A n \in Nat : n # 0 => step[n][f[n - 1]] = 2 * f[n - 1]
    BY <1>2, <1>3
  <2> HIDE DEF step
  <2> QED BY <1>2, <2>1 DEF Recurs
<1> DEFINE d == CHOOSE g : Does(g)
<1>5. Does(d)
  <2> HIDE DEF Does
  <2> QED BY <1>4
<1>6. Pow2 = d
  BY DEF Pow2
<1> HIDE DEF d
<1>7. d[0] = 1
  BY <1>5
<1>8. ASSUME NEW n \in Nat PROVE d[n + 1] = 2 * d[n]
  <2>1. n + 1 \in Nat /\ n + 1 # 0 /\ (n + 1) - 1 = n
    OBVIOUS
  <2> QED BY <1>5, <2>1
<1> DEFINE S == {n \in Nat : d[n] \in Nat}
<1>9. Inductive(S)
  <2>1. 0 \in S
    BY <1>7
  <2>2. ASSUME NEW n \in Nat, n \in S PROVE n + 1 \in S
    <3>1. d[n] \in Nat /\ d[n + 1] = 2 * d[n]
      BY <1>8, <2>2
    <3> QED BY <3>1
  <2> HIDE DEF S
  <2> QED BY <2>1, <2>2, Zenon DEF Inductive
<1>10. \A n \in Nat : d[n] \in Nat
  <2>1. Nat \subseteq S
    BY <1>9, Upwards
  <2> QED BY <2>1
<1>11. d \in [Nat -> Nat]
  <2>1. d = [n \in Nat |-> d[n]]
    BY <1>5
  <2> QED BY <1>10, <2>1
<1> QED BY <1>6, <1>7, <1>8, <1>11

LEMMA Twice == ASSUME NEW a \in Nat, NEW b \in Nat PROVE 2 * (a * b) = a * (2 * b)
OBVIOUS

LEMMA PowersMultiply ==
    ASSUME NEW a \in Nat PROVE \A b \in Nat : Pow2[a + b] = Pow2[a] * Pow2[b]
<1> DEFINE S == {b \in Nat : Pow2[a + b] = Pow2[a] * Pow2[b]}
<1>1. 0 \in S
  BY Powers
<1>2. ASSUME NEW b \in Nat, b \in S PROVE b + 1 \in S
  <2>1. PICK x \in Nat, y \in Nat : x = Pow2[a] /\ y = Pow2[b]
    BY Powers
  <2>2. Pow2[a + b] = x * y
    BY <1>2, <2>1
  <2>3. Pow2[(a + b) + 1] = 2 * Pow2[a + b] /\ Pow2[b + 1] = 2 * y /\ a + (b + 1) = (a + b) + 1
    BY <2>1, Powers
  <2>4. Pow2[a + (b + 1)] = 2 * (x * y) /\ Pow2[a] * Pow2[b + 1] = x * (2 * y)
    BY <2>1, <2>2, <2>3
  <2>5. Pow2[a + (b + 1)] = Pow2[a] * Pow2[b + 1]
    BY <2>1, <2>4, Twice
  <2> QED BY <2>5
<1>3. Inductive(S)
  <2> HIDE DEF S
  <2> QED BY <1>1, <1>2, Zenon DEF Inductive
<1> QED BY <1>3, Upwards

LEMMA PowersPositive == \A n \in Nat : Pow2[n] \in Nat \ {0}
<1> DEFINE S == {n \in Nat : Pow2[n] \in Nat \ {0}}
<1>1. 0 \in S
  BY Powers
<1>2. ASSUME NEW n \in Nat, n \in S PROVE n + 1 \in S
  <2>1. PICK x \in Nat \ {0} : x = Pow2[n]
    BY <1>2
  <2>2. Pow2[n + 1] = 2 * x
    BY <2>1, Powers
  <2> QED BY <2>2
<1>3. Inductive(S)
  <2> HIDE DEF S
  <2> QED BY <1>1, <1>2, Zenon DEF Inductive
<1> QED BY <1>3, Upwards

LEMMA SmallPowers == Pow2[0] = 1 /\ Pow2[2] = 4 /\ Pow2[9] = 512 /\ Pow2[10] = 1024
<1>1. /\ Pow2[0] = 1 /\ Pow2[0 + 1] = 2 * Pow2[0] /\ Pow2[1 + 1] = 2 * Pow2[1] /\ Pow2[2 + 1] = 2 * Pow2[2]
      /\ Pow2[3 + 1] = 2 * Pow2[3] /\ Pow2[4 + 1] = 2 * Pow2[4] /\ Pow2[5 + 1] = 2 * Pow2[5]
      /\ Pow2[6 + 1] = 2 * Pow2[6] /\ Pow2[7 + 1] = 2 * Pow2[7] /\ Pow2[8 + 1] = 2 * Pow2[8]
      /\ Pow2[9 + 1] = 2 * Pow2[9]
  <2>1. \A n \in Nat : Pow2[n + 1] = 2 * Pow2[n]
    BY Powers
  <2> QED BY <2>1, Powers
<1> QED BY <1>1

-----------------------------------------------------------------------------
(* The bits of an entry. *)

Archs == {X86, SV39}

HasBits(raw, bits) == \E t \in Nat : raw = 512 * t + bits

X86Says(raw, names) ==
    /\ Present(X86, raw) <=> "PRESENT" \in names
    /\ Has(raw, X86, "WRITE") <=> "WRITE" \in names
    /\ Has(raw, X86, "USER") <=> "USER" \in names

Sv39Says(raw, names) ==
    /\ Present(SV39, raw) <=> "VALID" \in names
    /\ Has(raw, SV39, "READ") <=> "READ" \in names
    /\ Has(raw, SV39, "WRITE") <=> "WRITE" \in names
    /\ Has(raw, SV39, "EXEC") <=> "EXEC" \in names
    /\ Has(raw, SV39, "USER") <=> "USER" \in names

LEMMA X86Bits ==
    ASSUME NEW names
    PROVE  /\ Bits(X86, names) \in 0 .. 279
           /\ \A raw : HasBits(raw, Bits(X86, names)) => X86Says(raw, names)
<1>1. PICK p \in {0, 1} : p = Bit(X86, "PRESENT", names) /\ (p = 1 <=> "PRESENT" \in names)
  BY DEF Bit, BitOf, X86Bit
<1>2. PICK w \in {0, 2} : w = Bit(X86, "WRITE", names) /\ (w = 2 <=> "WRITE" \in names)
  BY DEF Bit, BitOf, X86Bit
<1>3. PICK u \in {0, 4} : u = Bit(X86, "USER", names) /\ (u = 4 <=> "USER" \in names)
  BY DEF Bit, BitOf, X86Bit
<1>4. PICK n \in {0, 16} : n = Bit(X86, "NO_CACHE", names)
  BY DEF Bit, BitOf, X86Bit
<1>5. PICK g \in {0, 256} : g = Bit(X86, "GLOBAL", names)
  BY DEF Bit, BitOf, X86Bit
<1>6. PICK all \in Nat : all = Bits(X86, names) /\ all = p + w + u + n + g
  <2>1. p + w + u + n + g \in Nat
    OBVIOUS
  <2> QED BY <1>1, <1>2, <1>3, <1>4, <1>5, <2>1 DEF Bits
<1>7. all \in 0 .. 279
  BY <1>6
<1>8. ASSUME NEW t \in Nat
      PROVE  /\ (512 * t + (p + w + u + n + g)) % 2 = 1 <=> p = 1
             /\ ((512 * t + (p + w + u + n + g)) \div 2) % 2 = 1 <=> w = 2
             /\ ((512 * t + (p + w + u + n + g)) \div 4) % 2 = 1 <=> u = 4
  OBVIOUS
<1>9. ASSUME NEW raw
      PROVE  /\ Present(X86, raw) <=> raw % 2 = 1
             /\ Has(raw, X86, "WRITE") <=> (raw \div 2) % 2 = 1
             /\ Has(raw, X86, "USER") <=> (raw \div 4) % 2 = 1
  BY DEF Present, Has, BitOf, X86Bit
<1>10. ASSUME NEW t \in Nat, NEW raw, raw = 512 * t + all
       PROVE  X86Says(raw, names)
  <2>1. raw = 512 * t + (p + w + u + n + g)
    BY <1>6, <1>10
  <2>2. raw % 2 = 1 <=> p = 1
    BY <1>8, <2>1
  <2>3. (raw \div 2) % 2 = 1 <=> w = 2
    BY <1>8, <2>1
  <2>4. (raw \div 4) % 2 = 1 <=> u = 4
    BY <1>8, <2>1
  <2>5. Present(X86, raw) <=> "PRESENT" \in names
    BY <1>1, <1>9, <2>2, Zenon
  <2>6. Has(raw, X86, "WRITE") <=> "WRITE" \in names
    BY <1>2, <1>9, <2>3, Zenon
  <2>7. Has(raw, X86, "USER") <=> "USER" \in names
    BY <1>3, <1>9, <2>4, Zenon
  <2> QED BY <2>5, <2>6, <2>7, Zenon DEF X86Says
<1> QED BY <1>6, <1>7, <1>10 DEF HasBits

LEMMA Sv39Bits ==
    ASSUME NEW names
    PROVE  /\ Bits(SV39, names) \in 0 .. 255
           /\ \A raw : HasBits(raw, Bits(SV39, names)) => Sv39Says(raw, names)
<1>0. SV39 # X86
  BY DEF SV39, X86
<1>1. PICK v \in {0, 1} : v = Bit(SV39, "VALID", names) /\ (v = 1 <=> "VALID" \in names)
  BY <1>0 DEF Bit, BitOf, Sv39Bit
<1>2. PICK rd \in {0, 2} : rd = Bit(SV39, "READ", names) /\ (rd = 2 <=> "READ" \in names)
  BY <1>0 DEF Bit, BitOf, Sv39Bit
<1>3. PICK w \in {0, 4} : w = Bit(SV39, "WRITE", names) /\ (w = 4 <=> "WRITE" \in names)
  BY <1>0 DEF Bit, BitOf, Sv39Bit
<1>4. PICK x \in {0, 8} : x = Bit(SV39, "EXEC", names) /\ (x = 8 <=> "EXEC" \in names)
  BY <1>0 DEF Bit, BitOf, Sv39Bit
<1>5. PICK u \in {0, 16} : u = Bit(SV39, "USER", names) /\ (u = 16 <=> "USER" \in names)
  BY <1>0 DEF Bit, BitOf, Sv39Bit
<1>6. PICK g \in {0, 32} : g = Bit(SV39, "GLOBAL", names)
  BY <1>0 DEF Bit, BitOf, Sv39Bit
<1>7. PICK a \in {0, 64} : a = Bit(SV39, "ACCESSED", names)
  BY <1>0 DEF Bit, BitOf, Sv39Bit
<1>8. PICK d \in {0, 128} : d = Bit(SV39, "DIRTY", names)
  BY <1>0 DEF Bit, BitOf, Sv39Bit
<1>9. PICK all \in Nat : all = Bits(SV39, names) /\ all = v + rd + w + x + u + g + a + d
  <2>1. v + rd + w + x + u + g + a + d \in Nat
    OBVIOUS
  <2> QED BY <1>0, <1>1, <1>2, <1>3, <1>4, <1>5, <1>6, <1>7, <1>8, <2>1 DEF Bits
<1>10. all \in 0 .. 255
  BY <1>9
<1>11. ASSUME NEW t \in Nat, NEW raw, raw = 512 * t + (v + rd + w + x + u + g + a + d)
       PROVE  /\ raw % 2 = 1 <=> v = 1
              /\ (raw \div 2) % 2 = 1 <=> rd = 2
              /\ (raw \div 4) % 2 = 1 <=> w = 4
              /\ (raw \div 8) % 2 = 1 <=> x = 8
              /\ (raw \div 16) % 2 = 1 <=> u = 16
  BY <1>11
<1>12. ASSUME NEW raw
       PROVE  /\ Present(SV39, raw) <=> raw % 2 = 1
              /\ Has(raw, SV39, "READ") <=> (raw \div 2) % 2 = 1
              /\ Has(raw, SV39, "WRITE") <=> (raw \div 4) % 2 = 1
              /\ Has(raw, SV39, "EXEC") <=> (raw \div 8) % 2 = 1
              /\ Has(raw, SV39, "USER") <=> (raw \div 16) % 2 = 1
  BY <1>0 DEF Present, Has, BitOf, Sv39Bit
<1>13. ASSUME NEW t \in Nat, NEW raw, raw = 512 * t + all
       PROVE  Sv39Says(raw, names)
  <2>1. raw = 512 * t + (v + rd + w + x + u + g + a + d)
    BY <1>9, <1>13
  <2>2. raw % 2 = 1 <=> v = 1
    BY <1>11, <2>1
  <2>3. (raw \div 2) % 2 = 1 <=> rd = 2
    BY <1>11, <2>1
  <2>4. (raw \div 4) % 2 = 1 <=> w = 4
    BY <1>11, <2>1
  <2>5. (raw \div 8) % 2 = 1 <=> x = 8
    BY <1>11, <2>1
  <2>6. (raw \div 16) % 2 = 1 <=> u = 16
    BY <1>11, <2>1
  <2>7. Present(SV39, raw) <=> "VALID" \in names
    BY <1>1, <1>12, <2>2, Zenon
  <2>8. Has(raw, SV39, "READ") <=> "READ" \in names
    BY <1>2, <1>12, <2>3, Zenon
  <2>9. Has(raw, SV39, "WRITE") <=> "WRITE" \in names
    BY <1>3, <1>12, <2>4, Zenon
  <2>10. Has(raw, SV39, "EXEC") <=> "EXEC" \in names
    BY <1>4, <1>12, <2>5, Zenon
  <2>11. Has(raw, SV39, "USER") <=> "USER" \in names
    BY <1>5, <1>12, <2>6, Zenon
  <2> QED BY <2>7, <2>8, <2>9, <2>10, <2>11, Zenon DEF Sv39Says
<1> QED BY <1>9, <1>10, <1>13 DEF HasBits

(* An address is that of a page and an offset; an entry has the same page   *)
(* and the flags where the offset was.                                      *)
WidthsAre(arch, sh, c, q) ==
    /\ sh = Pow2[Shift(arch)] /\ Pow2[FlagBits(arch)] = 512 * c
    /\ Pow2[PageBits] = (512 * c) * sh
    /\ Pow2[PaddrBits] = ((512 * c) * sh) * q
    /\ Pow2[PaddrBits - Shift(arch)] = (512 * c) * q
    /\ FlagBits(arch) \in Nat /\ PaddrBits - Shift(arch) \in Nat

LEMMA Widths ==
    ASSUME NEW arch \in Archs
    PROVE  \E sh, c, q \in Nat \ {0} : WidthsAre(arch, sh, c, q)
<1>1. PICK shift \in {0, 2} : shift = Shift(arch)
  BY DEF Shift
<1>2. FlagBits(arch) = PageBits - shift /\ PageBits >= 12 /\ PageBits \in Nat /\ PaddrBits \in Nat
      /\ PaddrBits >= PageBits
  BY <1>1, PageEntryAssumption DEF FlagBits
<1>3. PICK rest \in Nat, flagBits \in Nat, upper \in Nat :
         /\ flagBits = PageBits - shift /\ flagBits = 9 + rest /\ upper = PaddrBits - PageBits
  <2>1. PageBits - shift \in Nat /\ (PageBits - shift) - 9 \in Nat /\ PaddrBits - PageBits \in Nat
        /\ PageBits - shift = 9 + ((PageBits - shift) - 9)
    BY <1>1, <1>2
  <2> QED BY <2>1
<1>4. /\ PageBits = flagBits + shift /\ PaddrBits = PageBits + upper /\ PaddrBits - shift = flagBits + upper
  BY <1>1, <1>2, <1>3
<1>5. PICK sh \in Nat \ {0}, c \in Nat \ {0}, q \in Nat \ {0} :
         sh = Pow2[shift] /\ c = Pow2[rest] /\ q = Pow2[upper]
  BY <1>1, PowersPositive
<1>6. Pow2[flagBits] = 512 * c
  <2>1. Pow2[9 + rest] = Pow2[9] * Pow2[rest]
    BY PowersMultiply
  <2> QED BY <1>3, <1>5, <2>1, SmallPowers
<1>7. Pow2[PageBits] = (512 * c) * sh
  <2>1. Pow2[flagBits + shift] = Pow2[flagBits] * Pow2[shift]
    <3>1. shift \in Nat
      BY <1>1
    <3> QED BY <3>1, PowersMultiply
  <2> QED BY <1>4, <1>5, <1>6, <2>1
<1>8. Pow2[PaddrBits] = ((512 * c) * sh) * q
  <2>1. Pow2[PageBits + upper] = Pow2[PageBits] * Pow2[upper]
    BY <1>2, PowersMultiply
  <2> QED BY <1>4, <1>5, <1>7, <2>1
<1>9. Pow2[PaddrBits - shift] = (512 * c) * q
  <2>1. Pow2[flagBits + upper] = Pow2[flagBits] * Pow2[upper]
    BY PowersMultiply
  <2> QED BY <1>4, <1>5, <1>6, <2>1
<1>10. PaddrBits - shift \in Nat
  BY <1>3, <1>4
<1>11. /\ sh = Pow2[Shift(arch)] /\ Pow2[FlagBits(arch)] = 512 * c
       /\ Pow2[PaddrBits - Shift(arch)] = (512 * c) * q
       /\ FlagBits(arch) \in Nat /\ PaddrBits - Shift(arch) \in Nat
  BY <1>1, <1>2, <1>3, <1>5, <1>6, <1>9, <1>10
<1>12. WidthsAre(arch, sh, c, q)
  BY <1>5, <1>7, <1>8, <1>11 DEF WidthsAre
<1> QED BY <1>5, <1>12

EntryHolds(arch, paddr, flags) ==
    /\ HasBits(Entry(arch, paddr, flags), flags)
    /\ Paddr(arch, Entry(arch, paddr, flags)) = Clear(paddr, PageBits)

LEMMA EntryIs ==
    ASSUME NEW arch \in Archs, NEW paddr \in 0 .. Pow2[PaddrBits] - 1, NEW flags \in 0 .. 279,
           arch = SV39 => flags <= 255
    PROVE  EntryHolds(arch, paddr, flags)
<1>1. PICK sh \in Nat \ {0}, c \in Nat \ {0}, q \in Nat \ {0} : WidthsAre(arch, sh, c, q)
  BY Widths
<1>2. PICK n \in Nat \ {0} : n = 512 * c
  BY <1>1
<1>3. flags < n
  BY <1>2
<1>4. PICK page \in Nat \ {0} : page = n * sh
  BY <1>1, <1>2
<1>5. /\ sh = Pow2[Shift(arch)] /\ Pow2[FlagBits(arch)] = n /\ Pow2[PageBits] = page
      /\ Pow2[PaddrBits] = page * q /\ Pow2[PaddrBits - Shift(arch)] = n * q
  BY <1>1, <1>2, <1>4 DEF WidthsAre
<1>6. PICK p \in Nat, r \in Nat : p = paddr \div page /\ r = paddr % page /\ r < page /\ paddr = page * p + r
  <2>1. PICK x \in Nat : x = paddr
    OBVIOUS
  <2>2. \E p \in Nat, r \in Nat : p = x \div page /\ r = x % page /\ r < page /\ x = page * p + r
    BY Divided
  <2> QED BY <2>1, <2>2
<1>7. PICK all \in Nat : all = page * q
  BY <1>1, <1>4
<1>8. paddr < all
  BY <1>5, <1>7
<1>9. p < q
  <2> SUFFICES ASSUME ~ p < q PROVE FALSE
    OBVIOUS
  <2>1. CASE p = q
    BY <1>6, <1>7, <1>8, <2>1
  <2>2. CASE q < p
    <3>1. page * p >= page * q + page
      BY <1>1, <2>2, Steps
    <3>2. PICK y \in Nat : y = page * p
      BY <1>4, <1>6
    <3> QED BY <1>4, <1>6, <1>7, <1>8, <3>1, <3>2
  <2> QED BY <2>1, <2>2
<1>10. Low(paddr, PaddrBits) = paddr
  <2>1. (all * 0 + paddr) % all = paddr
    BY <1>7, <1>8, Division
  <2>2. all * 0 + paddr = paddr
    BY <1>7
  <2> QED BY <1>5, <1>7, <2>1, <2>2 DEF Low
<1>11. Clear(paddr, PageBits) = page * p /\ page * p \in Nat
  <2>1. PICK y \in Nat : y = page * p
    BY <1>4, <1>6
  <2> QED BY <1>5, <1>6, <2>1 DEF Clear, Low
<1>12. (page * p) \div sh = n * p
  <2>1. page * p = sh * (n * p) + 0
    BY <1>1, <1>2, <1>4, <1>6
  <2>2. n * p \in Nat
    BY <1>2, <1>6
  <2>3. (sh * (n * p) + 0) \div sh = n * p
    BY <1>1, <2>2, Division
  <2> QED BY <2>1, <2>3
<1>13. Low(flags, FlagBits(arch)) = flags
  <2>1. (n * 0 + flags) % n = flags
    BY <1>3, Division
  <2>2. n * 0 + flags = flags
    BY <1>2
  <2> QED BY <1>5, <2>1, <2>2 DEF Low
<1>14. Entry(arch, paddr, flags) = n * p + flags
  BY <1>5, <1>10, <1>11, <1>12, <1>13 DEF Entry
<1>15. HasBits(Entry(arch, paddr, flags), flags)
  <2>1. PICK t \in Nat : t = c * p
    BY <1>1, <1>6
  <2>2. n * p = 512 * t
    BY <1>1, <1>2, <1>6, <2>1
  <2>3. Entry(arch, paddr, flags) = 512 * t + flags
    BY <1>14, <2>2
  <2> QED BY <2>3 DEF HasBits
<1>16. n * p + flags < n * q
  <2>1. n * q >= n * p + n
    BY <1>1, <1>6, <1>9, Steps
  <2>2. PICK x \in Nat : x = n * q
    BY <1>1, <1>2
  <2>3. PICK y \in Nat : y = n * p
    BY <1>2, <1>6
  <2>4. x >= y + n
    BY <2>1, <2>2, <2>3
  <2>5. y + flags < x
    BY <1>2, <1>3, <2>2, <2>3, <2>4
  <2> QED BY <2>2, <2>3, <2>5
<1>17. PICK raw \in Nat : raw = n * p + flags
  BY <1>2, <1>6
<1>18. Low(raw, PaddrBits - Shift(arch)) = raw
  <2>1. PICK m \in Nat \ {0} : m = n * q /\ raw < m
    <3>1. PICK m \in Nat : m = n * q
      BY <1>1, <1>2
    <3>2. raw < m
      BY <1>16, <1>17, <3>1
    <3> QED BY <1>17, <3>1, <3>2
  <2>2. (m * 0 + raw) % m = raw
    BY <2>1, Division
  <2>3. m * 0 + raw = raw
    BY <2>1
  <2> QED BY <1>5, <2>1, <2>2, <2>3 DEF Low
<1>19. Clear(raw, FlagBits(arch)) = n * p
  <2>1. (n * p + flags) % n = flags
    <3>1. flags \in Nat
      OBVIOUS
    <3> QED BY <1>2, <1>3, <1>6, <3>1, Division
  <2>2. PICK y \in Nat : y = n * p
    BY <1>2, <1>6
  <2> QED BY <1>5, <1>17, <2>1, <2>2 DEF Clear, Low
<1>20. Paddr(arch, raw) = page * p
  <2>1. Paddr(arch, raw) = (n * p) * sh
    BY <1>5, <1>18, <1>19 DEF Paddr
  <2>2. (n * p) * sh = (n * sh) * p
    BY <1>1, <1>2, <1>6
  <2> QED BY <1>4, <2>1, <2>2
<1> QED BY <1>11, <1>14, <1>15, <1>17, <1>20 DEF EntryHolds

-----------------------------------------------------------------------------
(* The entry of a page and that of a table. *)

PageNames(arch, flags) ==
    MakeFlags(arch, flags) \cup (IF arch = X86 THEN {"PRESENT"} ELSE {"ACCESSED", "DIRTY", "VALID"})

LEMMA ArchsDiffer == SV39 # X86
BY DEF SV39, X86

LEMMA X86EntryIs ==
    ASSUME NEW paddr \in 0 .. Pow2[PaddrBits] - 1, NEW names
    PROVE  LET raw == Entry(X86, paddr, Bits(X86, names))
           IN  X86Says(raw, names) /\ Paddr(X86, raw) = Clear(paddr, PageBits)
<1>1. PICK bits \in 0 .. 279 : bits = Bits(X86, names)
  BY X86Bits
<1>2. X86 \in Archs /\ (X86 = SV39 => bits <= 255)
  BY ArchsDiffer DEF Archs
<1>3. PICK raw : raw = Entry(X86, paddr, bits)
  OBVIOUS
<1>4. EntryHolds(X86, paddr, bits)
  BY <1>2, EntryIs, Zenon
<1>5. HasBits(raw, bits)
  BY <1>3, <1>4 DEF EntryHolds
<1>6. X86Says(raw, names)
  BY <1>1, <1>5, X86Bits, Zenon
<1>7. Paddr(X86, raw) = Clear(paddr, PageBits)
  BY <1>3, <1>4 DEF EntryHolds
<1> QED BY <1>1, <1>3, <1>6, <1>7, Zenon

LEMMA Sv39EntryIs ==
    ASSUME NEW paddr \in 0 .. Pow2[PaddrBits] - 1, NEW names
    PROVE  LET raw == Entry(SV39, paddr, Bits(SV39, names))
           IN  Sv39Says(raw, names) /\ Paddr(SV39, raw) = Clear(paddr, PageBits)
<1>1. PICK bits \in 0 .. 255 : bits = Bits(SV39, names)
  BY Sv39Bits
<1>2. SV39 \in Archs /\ (SV39 = SV39 => bits <= 255) /\ bits \in 0 .. 279
  BY <1>1 DEF Archs
<1>3. PICK raw : raw = Entry(SV39, paddr, bits)
  OBVIOUS
<1>4. EntryHolds(SV39, paddr, bits)
  BY <1>2, EntryIs, Zenon
<1>5. HasBits(raw, bits)
  BY <1>3, <1>4 DEF EntryHolds
<1>6. Sv39Says(raw, names)
  BY <1>1, <1>5, Sv39Bits, Zenon
<1>7. Paddr(SV39, raw) = Clear(paddr, PageBits)
  BY <1>3, <1>4 DEF EntryHolds
<1> QED BY <1>1, <1>3, <1>6, <1>7, Zenon

LEMMA X86Page ==
    ASSUME NEW paddr \in 0 .. Pow2[PaddrBits] - 1, NEW flags
    PROVE  LET raw == PageEntry(X86, paddr, flags)
           IN  /\ Present(X86, raw)
               /\ Has(raw, X86, "USER") <=> "USER" \in flags
               /\ "WRITE" \in flags => Has(raw, X86, "WRITE")
               /\ Paddr(X86, raw) = Clear(paddr, PageBits)
<1>1. PICK names : names = PageNames(X86, flags)
  OBVIOUS
<1>2. /\ "PRESENT" \in names
      /\ "USER" \in names <=> "USER" \in flags
      /\ "WRITE" \in flags => "WRITE" \in names
  BY <1>1 DEF PageNames, MakeFlags, X86Flags
<1>3. PICK raw : raw = PageEntry(X86, paddr, flags)
  OBVIOUS
<1>4. raw = Entry(X86, paddr, Bits(X86, names))
  BY <1>1, <1>3 DEF PageEntry, PageNames
<1>5. X86Says(raw, names) /\ Paddr(X86, raw) = Clear(paddr, PageBits)
  BY <1>4, X86EntryIs, Zenon
<1>6. /\ Present(X86, raw)
      /\ Has(raw, X86, "USER") <=> "USER" \in flags
      /\ "WRITE" \in flags => Has(raw, X86, "WRITE")
  BY <1>2, <1>5, Zenon DEF X86Says
<1> QED BY <1>3, <1>5, <1>6, Zenon

LEMMA Sv39Page ==
    ASSUME NEW paddr \in 0 .. Pow2[PaddrBits] - 1, NEW flags
    PROVE  LET raw == PageEntry(SV39, paddr, flags)
           IN  /\ Present(SV39, raw)
               /\ \A name \in {"READ", "WRITE", "EXEC", "USER"} : Has(raw, SV39, name) <=> name \in flags
               /\ Paddr(SV39, raw) = Clear(paddr, PageBits)
<1>1. PICK names : names = PageNames(SV39, flags)
  OBVIOUS
<1>2. /\ "VALID" \in names
      /\ "READ" \in names <=> "READ" \in flags
      /\ "WRITE" \in names <=> "WRITE" \in flags
      /\ "EXEC" \in names <=> "EXEC" \in flags
      /\ "USER" \in names <=> "USER" \in flags
  BY <1>1, ArchsDiffer DEF PageNames, MakeFlags, Sv39Flags
<1>3. PICK raw : raw = PageEntry(SV39, paddr, flags)
  OBVIOUS
<1>4. raw = Entry(SV39, paddr, Bits(SV39, names))
  BY <1>1, <1>3, ArchsDiffer DEF PageEntry, PageNames
<1>5. Sv39Says(raw, names) /\ Paddr(SV39, raw) = Clear(paddr, PageBits)
  BY <1>4, Sv39EntryIs, Zenon
<1>6. Present(SV39, raw)
  BY <1>2, <1>5, Zenon DEF Sv39Says
<1>7. ASSUME NEW name \in {"READ", "WRITE", "EXEC", "USER"}
      PROVE  Has(raw, SV39, name) <=> name \in flags
  <2>1. CASE name = "READ"
    BY <1>2, <1>5, <2>1, Zenon DEF Sv39Says
  <2>2. CASE name = "WRITE"
    BY <1>2, <1>5, <2>2, Zenon DEF Sv39Says
  <2>3. CASE name = "EXEC"
    BY <1>2, <1>5, <2>3, Zenon DEF Sv39Says
  <2>4. CASE name = "USER"
    BY <1>2, <1>5, <2>4, Zenon DEF Sv39Says
  <2> QED BY <2>1, <2>2, <2>3, <2>4, Zenon
<1> QED BY <1>3, <1>5, <1>6, <1>7, Zenon

LEMMA X86Table ==
    ASSUME NEW lower \in 0 .. Pow2[PaddrBits] - 1
    PROVE  LET raw == TableEntry(X86, lower)
           IN  /\ Present(X86, raw) /\ Has(raw, X86, "USER") /\ Has(raw, X86, "WRITE")
               /\ Paddr(X86, raw) = Clear(lower, PageBits)
<1>1. PICK names : names = {"WRITE", "PRESENT", "USER"}
  OBVIOUS
<1>2. PICK raw : raw = TableEntry(X86, lower)
  OBVIOUS
<1>3. raw = Entry(X86, lower, Bits(X86, names))
  BY <1>1, <1>2 DEF TableEntry
<1>4. X86Says(raw, names) /\ Paddr(X86, raw) = Clear(lower, PageBits)
  BY <1>3, X86EntryIs, Zenon
<1>5. Present(X86, raw) /\ Has(raw, X86, "USER") /\ Has(raw, X86, "WRITE")
  BY <1>1, <1>4 DEF X86Says
<1> QED BY <1>2, <1>4, <1>5, Zenon

LEMMA Sv39Table ==
    ASSUME NEW lower \in 0 .. Pow2[PaddrBits] - 1
    PROVE  LET raw == TableEntry(SV39, lower)
           IN  /\ Present(SV39, raw) /\ ~IsLeaf(raw)
               /\ Paddr(SV39, raw) = Clear(lower, PageBits)
<1>1. PICK names : names = {"VALID"}
  OBVIOUS
<1>2. PICK raw : raw = TableEntry(SV39, lower)
  OBVIOUS
<1>3. raw = Entry(SV39, lower, Bits(SV39, names))
  BY <1>1, <1>2, ArchsDiffer DEF TableEntry
<1>4. Sv39Says(raw, names) /\ Paddr(SV39, raw) = Clear(lower, PageBits)
  BY <1>3, Sv39EntryIs, Zenon
<1>5. "VALID" \in names /\ "READ" \notin names /\ "WRITE" \notin names /\ "EXEC" \notin names
  BY <1>1
<1>6. /\ Present(SV39, raw)
      /\ ~Has(raw, SV39, "READ") /\ ~Has(raw, SV39, "WRITE") /\ ~Has(raw, SV39, "EXEC")
  BY <1>4, <1>5, Zenon DEF Sv39Says
<1>7. ~IsLeaf(raw)
  BY <1>6, Zenon DEF IsLeaf
<1> QED BY <1>2, <1>4, <1>6, <1>7, Zenon

(* The nine bits are the offset in the page of the first 512 bytes of one.  *)
LEMMA FirstBytes ==
    ASSUME NEW virt \in Nat, Low(virt, PageBits) < 512
    PROVE  Low(virt, 9) = Low(virt, PageBits)
<1>1. PICK sh \in Nat \ {0}, c \in Nat \ {0}, q \in Nat \ {0} : WidthsAre(X86, sh, c, q)
  BY Widths DEF Archs
<1>2. PICK page \in Nat \ {0} : page = (512 * c) * sh
  BY <1>1
<1>3. Pow2[PageBits] = page /\ Pow2[9] = 512
  BY <1>1, <1>2, SmallPowers DEF WidthsAre
<1>4. PICK p \in Nat, r \in Nat : p = virt \div page /\ r = virt % page /\ r < page /\ virt = page * p + r
  BY <1>2, Divided
<1>5. r < 512 /\ r = Low(virt, PageBits)
  BY <1>3, <1>4 DEF Low
<1>6. PICK x \in Nat : x = (c * sh) * p
  BY <1>1, <1>4
<1>7. page * p = 512 * x
  BY <1>1, <1>2, <1>4, <1>6
<1>8. virt = 512 * x + r
  BY <1>4, <1>7
<1>9. virt % 512 = r
  <2>1. r \in Nat /\ x \in Nat /\ r < 512
    BY <1>4, <1>5, <1>6
  <2>2. (512 * x + r) % 512 = r
    BY <2>1
  <2> QED BY <1>8, <2>2
<1> QED BY <1>3, <1>5, <1>9 DEF Low

LEMMA WalkAtX86 ==
    ASSUME NEW raw, Present(X86, raw), NEW virt, NEW level
    PROVE  Virt2Phys(X86, raw, virt, level) =
               IF level = 1 THEN [step |-> "page", at |-> Paddr(X86, raw) + Low(virt, 9)]
               ELSE [step |-> "lower", at |-> Paddr(X86, raw)]
BY ArchsDiffer DEF Virt2Phys, LeafOffset, X86, SV39

LEMMA WalkAtSv39 ==
    ASSUME NEW raw, Present(SV39, raw), NEW virt, NEW level
    PROVE  Virt2Phys(SV39, raw, virt, level) =
               IF level = 1 \/ IsLeaf(raw)
               THEN [step |-> "page", at |-> Paddr(SV39, raw) + Low(virt, PageBits + (level - 1) * IndexBits)]
               ELSE [step |-> "lower", at |-> Paddr(SV39, raw)]
BY ArchsDiffer, Zenon DEF Virt2Phys, LeafOffset

LEMMA EntryQuestion ==
    ASSUME asked \in EntryQuestions
    PROVE  /\ asked.arch \in {X86, SV39} /\ asked.flags \in SUBSET VmmFlags
           /\ asked.virt \in Nat /\ asked.level \in Nat \ {0}
           /\ asked.paddr \in 0 .. Pow2[PaddrBits] - 1 /\ asked.other \in 0 .. Pow2[PaddrBits] - 1
BY AlgorithmsAssumption DEF EntryQuestions

LEMMA X86EntryAnswers ==
    ASSUME asked \in EntryQuestions, asked.arch = X86
    PROVE  EntrySaysWhatWasAsked
<1> DEFINE page == PageEntry(X86, asked.paddr, asked.flags)
           table == TableEntry(X86, asked.other)
<1>1. /\ Present(X86, page) /\ Paddr(X86, page) = Clear(asked.paddr, PageBits)
      /\ Has(page, X86, "USER") <=> "USER" \in asked.flags
      /\ "WRITE" \in asked.flags => Has(page, X86, "WRITE")
  BY EntryQuestion, X86Page, Zenon
<1>2. /\ Present(X86, table) /\ Has(table, X86, "USER") /\ Has(table, X86, "WRITE")
      /\ Paddr(X86, table) = Clear(asked.other, PageBits)
  BY EntryQuestion, X86Table, Zenon
<1>3. Allows(asked.arch, "USER") <=> "USER" \in asked.flags
  BY <1>1, <1>2, Zenon DEF Allows
<1>4. "WRITE" \in asked.flags => Allows(asked.arch, "WRITE")
  BY <1>1, <1>2, Zenon DEF Allows
<1> HIDE DEF page, table
<1>5. asked.level > 1 => Virt2Phys(X86, table, asked.virt, asked.level)
                             = [step |-> "lower", at |-> Page(asked.other)]
  BY <1>2, EntryQuestion, WalkAtX86 DEF Page
<1>6. Low(asked.virt, PageBits) < 512 =>
         Virt2Phys(X86, page, asked.virt, 1)
             = [step |-> "page", at |-> Page(asked.paddr) + Low(asked.virt, PageBits)]
  BY <1>1, EntryQuestion, WalkAtX86, FirstBytes DEF Page
<1>7. asked.arch = X86 /\ asked.arch # SV39
  BY ArchsDiffer
<1> QED BY <1>3, <1>4, <1>5, <1>6, <1>7, Zenon DEF EntrySaysWhatWasAsked, page, table

LEMMA Sv39EntryAnswers ==
    ASSUME asked \in EntryQuestions, asked.arch = SV39
    PROVE  EntrySaysWhatWasAsked
<1> DEFINE page == PageEntry(SV39, asked.paddr, asked.flags)
           table == TableEntry(SV39, asked.other)
           bits == PageBits + (asked.level - 1) * IndexBits
<1>1. /\ Present(SV39, page) /\ Paddr(SV39, page) = Clear(asked.paddr, PageBits)
      /\ \A name \in {"READ", "WRITE", "EXEC", "USER"} : Has(page, SV39, name) <=> name \in asked.flags
  BY EntryQuestion, Sv39Page, Zenon
<1>2. Present(SV39, table) /\ ~IsLeaf(table) /\ Paddr(SV39, table) = Clear(asked.other, PageBits)
  BY EntryQuestion, Sv39Table, Zenon
<1>3. ASSUME NEW name \in {"READ", "WRITE", "EXEC", "USER"}
      PROVE  Allows(SV39, name) <=> name \in asked.flags
  BY <1>1, <1>3, ArchsDiffer, Zenon DEF Allows
<1> HIDE DEF page, table
<1>4. /\ Allows(asked.arch, "USER") <=> "USER" \in asked.flags
      /\ "WRITE" \in asked.flags => Allows(asked.arch, "WRITE")
      /\ \A name \in {"READ", "WRITE", "EXEC"} : Allows(SV39, name) <=> name \in asked.flags
  BY <1>3
<1>5. asked.level > 1 => Virt2Phys(SV39, table, asked.virt, asked.level)
                             = [step |-> "lower", at |-> Page(asked.other)]
  BY <1>2, EntryQuestion, WalkAtSv39 DEF Page
<1>6. Virt2Phys(SV39, page, asked.virt, 1)
          = [step |-> "page", at |-> Page(asked.paddr) + Low(asked.virt, PageBits)]
  <2>1. PageBits + (1 - 1) * IndexBits = PageBits
    BY PageEntryAssumption
  <2> QED BY <1>1, <2>1, WalkAtSv39 DEF Page
<1>7. asked.flags \cap {"READ", "WRITE", "EXEC"} # {} =>
         Virt2Phys(SV39, page, asked.virt, asked.level)
             = [step |-> "page", at |-> Page(asked.paddr) + Low(asked.virt, bits)]
  <2> SUFFICES ASSUME asked.flags \cap {"READ", "WRITE", "EXEC"} # {}
               PROVE  Virt2Phys(SV39, page, asked.virt, asked.level)
                          = [step |-> "page", at |-> Page(asked.paddr) + Low(asked.virt, bits)]
    OBVIOUS
  <2>1. PICK name \in {"READ", "WRITE", "EXEC"} : name \in asked.flags
    OBVIOUS
  <2>2. IsLeaf(page)
    BY <1>1, <2>1, Zenon DEF IsLeaf
  <2> QED BY <1>1, <2>2, WalkAtSv39 DEF Page
<1>8. asked.arch = SV39
  OBVIOUS
<1> QED BY <1>4, <1>5, <1>6, <1>7, <1>8, Zenon DEF EntrySaysWhatWasAsked, page, table

LEMMA EntryAnswers == asked \in EntryQuestions => EntrySaysWhatWasAsked
BY X86EntryAnswers, Sv39EntryAnswers DEF EntryQuestions

-----------------------------------------------------------------------------
(* Every question the run can ask is one of those above; trees and lists of *)
(* strings, which no lemma is about, stay open.                             *)
Asked ==
    \/ asked.about \in {"none", "tree", "strings"}
    \/ asked \in IoQuestions \cup EntryQuestions
    \/ asked \in TableQuestions \cup MadtQuestions \cup ConfigQuestions \cup EcamQuestions
    \/ asked \in RegQuestions
    \/ asked \in SimdQuestions \cup DescriptorQuestions \cup PitQuestions

LEMMA AskedIo == AskIo => asked' \in IoQuestions
<1> HAVE AskIo
<1> DEFINE values == {<<"value", n>> : n \in {1, 2, 3, 4, 8}}
           buffers == {<<"buffer", n>> : n \in BufLens}
<1>0. BufLens \subseteq Nat
  BY AlgorithmsAssumption
<1>1. PICK kind \in {"port", "dma"}, range \in IoRanges, offset \in IoOffsets, transfer \in values \cup buffers :
         /\ kind = "port" => range \in PortRanges
         /\ asked' = [about |-> "io", io |-> [kind |-> kind, range |-> range], offset |-> offset,
                      transfer |-> transfer[1], size |-> transfer[2]]
  BY ZenonT(30) DEF AskIo
<1>2. transfer[1] \in {"value", "buffer"} /\ transfer[2] \in Nat
  <2>1. CASE transfer \in values
    BY <2>1
  <2>2. CASE transfer \in buffers
    <3>1. PICK n \in BufLens : transfer = <<"buffer", n>>
      BY <2>2, Zenon
    <3>2. n \in Nat
      BY <1>0, <3>1, Zenon
    <3> QED BY <3>1, <3>2, Zenon
  <2> QED BY <1>1, <2>1, <2>2
<1>3. range \in [start : Nat, size : Nat] /\ offset \in Nat
  BY <1>1, AlgorithmsAssumption
<1>4. kind = "port" => range.start + range.size <= Ports /\ range.size < Ports
  BY <1>1 DEF PortRanges
<1> HIDE DEF values, buffers
<1> QED BY <1>1, <1>2, <1>3, <1>4 DEF IoQuestions

LEMMA AskedEntry == AskEntry => asked' \in EntryQuestions
<1> HAVE AskEntry
<1>1. PICK arch \in {X86, SV39}, paddr, other \in Paddrs, flags \in SUBSET VmmFlags, virt \in Virts,
           level \in Levels :
         asked' = [about |-> "entry", arch |-> arch, paddr |-> paddr, other |-> other,
                   flags |-> flags, virt |-> virt, level |-> level]
  BY ZenonT(30) DEF AskEntry
<1>2. virt \in Nat /\ level \in Nat \ {0}
  BY AlgorithmsAssumption
<1> QED BY <1>1, <1>2 DEF EntryQuestions

LEMMA AskedTables == AskTables => asked' \in TableQuestions
BY DEF AskTables, TableQuestions

LEMMA AskedMadt == AskMadt => asked' \in MadtQuestions
BY DEF AskMadt, MadtQuestions

LEMMA AskedConfig == AskConfig => asked' \in ConfigQuestions
<1> HAVE AskConfig
<1>1. PICK n \in 0 .. MaxTables : \E guids \in [1 .. n -> Guids], guid \in Guids :
         asked' = [about |-> "config", guids |-> guids, guid |-> guid]
  BY ZenonT(30) DEF AskConfig
<1>2. n \in Nat
  BY AlgorithmsAssumption, SMTT(30)
<1>3. PICK guids \in [1 .. n -> Guids], guid \in Guids :
         asked' = [about |-> "config", guids |-> guids, guid |-> guid]
  BY <1>1, Zenon
<1>4. guids \in Seq(Guids)
  BY <1>2, <1>3, FunctionIsSeq, Zenon
<1> QED BY <1>3, <1>4 DEF ConfigQuestions

LEMMA AskedEcam == AskEcam => asked' \in EcamQuestions
BY AlgorithmsAssumption, SMTT(30) DEF AskEcam, EcamQuestions

LEMMA AskedReg == AskReg => asked' \in RegQuestions
<1> HAVE AskReg
<1>1. PICK n \in 0 .. MaxWords :
         \E words \in [1 .. n -> RegWords], a \in AddressCells, s \in SizeCells, cut \in 0 .. 1 :
            asked' = [about |-> "reg", words |-> words, cut |-> cut, addressCells |-> a, sizeCells |-> s]
  BY ZenonT(30) DEF AskReg
<1>2. n \in Nat
  OBVIOUS
<1> AddressCells \subseteq Nat /\ SizeCells \subseteq Nat
  BY AlgorithmsAssumption, Zenon
<1>3. PICK words \in [1 .. n -> RegWords], a \in AddressCells, s \in SizeCells, cut \in 0 .. 1 :
         asked' = [about |-> "reg", words |-> words, cut |-> cut, addressCells |-> a, sizeCells |-> s]
  BY <1>1, Zenon
<1>4. words \in Seq(RegWords)
  BY <1>2, <1>3, FunctionIsSeq, Zenon
<1>5. a \in Nat /\ s \in Nat
  BY <1>3, Zenon
<1> QED BY <1>3, <1>4, <1>5 DEF RegQuestions

LEMMA AskedSimd == AskSimd => asked' \in SimdQuestions
BY DEF AskSimd, SimdQuestions

LEMMA AskedDescriptor == AskDescriptor => asked' \in DescriptorQuestions
BY DEF AskDescriptor, DescriptorQuestions

LEMMA AskedPit == AskPit => asked' \in PitQuestions
<1> HAVE AskPit
<1>1. PICK freq \in Freqs, bytes \in 1 .. 3, high \in BOOLEAN, latched \in {NoCount} \cup Counts,
           counts \in [1 .. 3 -> Counts] :
         asked' = [about |-> "pit", freq |-> freq, counts |-> counts,
                   channel |-> [period |-> 0, low |-> 0, bytes |-> bytes, high |-> high, latched |-> latched]]
  BY ZenonT(30) DEF AskPit
<1>2. latched \in Int
  <2>1. \A count \in Counts : count \in Int
    <3>1. Counts \subseteq 1 .. 2 ^ 16
      BY AlgorithmsAssumption, Zenon
    <3> QED BY <3>1
  <2>2. NoCount \in Int
    BY DEF NoCount
  <2> QED BY <1>1, <2>1, <2>2, Zenon
<1>3. [period |-> 0, low |-> 0, bytes |-> bytes, high |-> high, latched |-> latched] \in Channels
  BY <1>1, <1>2 DEF Channels
<1> QED BY <1>1, <1>3 DEF PitQuestions

LEMMA OnlyAsked == Questions => []Asked
<1>1. NothingAsked => Asked
  BY DEF NothingAsked, NoQuestion, Asked
<1>2. Asked /\ [QuestionOrNot]_asked => Asked'
  <2> SUFFICES ASSUME Asked, [QuestionOrNot]_asked PROVE Asked'
    OBVIOUS
  <2>1. CASE UNCHANGED asked
    BY <2>1 DEF Asked
  <2>2. CASE asked' = NoQuestion
    BY <2>2 DEF Asked, NoQuestion
  <2>3. CASE AskIo
    BY <2>3, AskedIo, Zenon DEF Asked
  <2>4. CASE AskEntry
    BY <2>4, AskedEntry, Zenon DEF Asked
  <2>5. CASE AskTables
    BY <2>5, AskedTables, Zenon DEF Asked
  <2>6. CASE AskMadt
    BY <2>6, AskedMadt, Zenon DEF Asked
  <2>7. CASE AskConfig
    BY <2>7, AskedConfig, Zenon DEF Asked
  <2>8. CASE AskReg
    BY <2>8, AskedReg, Zenon DEF Asked
  <2>9. CASE AskTree
    BY <2>9 DEF AskTree, Asked
  <2>10. CASE AskStrings
    BY <2>10 DEF AskStrings, Asked
  <2>11. CASE AskEcam
    BY <2>11, AskedEcam, Zenon DEF Asked
  <2>12. CASE AskSimd
    BY <2>12, AskedSimd, Zenon DEF Asked
  <2>13. CASE AskDescriptor
    BY <2>13, AskedDescriptor, Zenon DEF Asked
  <2>14. CASE AskPit
    BY <2>14, AskedPit, Zenon DEF Asked
  <2> QED
    BY <2>1, <2>2, <2>3, <2>4, <2>5, <2>6, <2>7, <2>8, <2>9, <2>10, <2>11, <2>12, <2>13, <2>14, Zenon
    DEF QuestionOrNot, Ask
<1> QED BY <1>1, <1>2, PTL DEF Questions

(* What a question is about says which of the sets it is of.                *)
LEMMA About ==
    ASSUME Asked
    PROVE  /\ asked.about = "io" => asked \in IoQuestions
           /\ asked.about = "entry" => asked \in EntryQuestions
           /\ asked.about = "tables" => asked \in TableQuestions
           /\ asked.about = "madt" => asked \in MadtQuestions
           /\ asked.about = "config" => asked \in ConfigQuestions
           /\ asked.about = "ecam" => asked \in EcamQuestions
           /\ asked.about = "reg" => asked \in RegQuestions
           /\ asked.about = "simd" => asked \in SimdQuestions
           /\ asked.about = "descriptor" => asked \in DescriptorQuestions
           /\ asked.about = "pit" => asked \in PitQuestions
<1>1. asked \in IoQuestions => asked.about = "io"
  BY DEF IoQuestions
<1>2. asked \in EntryQuestions => asked.about = "entry"
  BY DEF EntryQuestions
<1>3. asked \in TableQuestions => asked.about = "tables"
  BY DEF TableQuestions
<1>4. asked \in MadtQuestions => asked.about = "madt"
  BY DEF MadtQuestions
<1>5. asked \in ConfigQuestions => asked.about = "config"
  BY DEF ConfigQuestions
<1>6. asked \in EcamQuestions => asked.about = "ecam"
  BY DEF EcamQuestions
<1>7. asked \in RegQuestions => asked.about = "reg"
  BY DEF RegQuestions
<1>8. asked \in SimdQuestions => asked.about = "simd"
  BY DEF SimdQuestions
<1>9. asked \in DescriptorQuestions => asked.about = "descriptor"
  BY DEF DescriptorQuestions
<1>10. asked \in PitQuestions => asked.about = "pit"
  BY DEF PitQuestions
<1> QED BY <1>1, <1>2, <1>3, <1>4, <1>5, <1>6, <1>7, <1>8, <1>9, <1>10 DEF Asked

(* However many registers a range has and however long the buffer, it       *)
(* reaches them in order, one byte each, and ends with an error where the   *)
(* ports of its range end (io.cpp, readBuf and writeBuf).                   *)
THEOREM BuffersStayInOrder == Questions => []BufferInOrder
<1>1. Asked => BufferInOrder
  BY About, IoAnswers, Zenon DEF BufferInOrder
<1> QED BY <1>1, OnlyAsked, PTL

(* For pages, tables and physical addresses of any width, an entry allows   *)
(* what was asked for and virt2phys finds the byte it is of (paging.cpp and *)
(* sv39.cpp, Entry, makeFlags and virt2phys).                               *)
THEOREM EntriesSayWhatWasAsked == Questions => []EntrySaysWhatWasAsked
<1>1. Asked => EntrySaysWhatWasAsked
  BY About, EntryAnswers, Zenon DEF EntrySaysWhatWasAsked
<1> QED BY <1>1, OnlyAsked, PTL

(* However many tables firmware lists and however long a MADT is, whatever  *)
(* its bytes say, a walk over it comes to what is there and ends, and no    *)
(* two PCI functions share configuration space.                             *)
THEOREM WalksAlwaysFindWhatIsListed == Questions => []WalksFindWhatIsListed
<1>1. Asked => FindsWhatIsListed
  BY About, TableAnswers, Zenon DEF FindsWhatIsListed
<1>2. Asked => MadtWalkIsTheChain
  BY About, MadtAnswers, Zenon DEF MadtWalkIsTheChain
<1>3. Asked => FindsTheConfiguration
  BY About, ConfigAnswers, Zenon DEF FindsTheConfiguration
<1>4. Asked => FunctionsApart
  BY About, EcamAnswers, Zenon DEF FunctionsApart
<1>5. Asked => WalksFindWhatIsListed
  BY <1>1, <1>2, <1>3, <1>4, Zenon DEF WalksFindWhatIsListed
<1> QED BY <1>5, OnlyAsked, PTL

(* Of a property of any number of words, with any numbers of cells, the     *)
(* first range is the one that was written, or an error (mod.cpp, Reg).     *)
THEOREM RegsAreWhatWasWritten == Questions => []RegIsWhatWasWritten
<1>1. Asked => RegIsWhatWasWritten
  BY About, RegAnswers, Zenon DEF RegIsWhatWasWritten
<1> QED BY <1>1, OnlyAsked, PTL

(* Whatever the CPU can do and whatever the control registers held, what    *)
(* simdInit enables is what a save stores (simd.cpp).                       *)
THEOREM SavesAreComplete == Questions => []SaveIsComplete
<1>1. Asked => SaveIsComplete
  BY About, SaveIs, Zenon DEF SaveIsComplete
<1> QED BY <1>1, OnlyAsked, PTL

(* Wherever the TSS and the handlers are, in all of 2^64 addresses, the CPU *)
(* finds the segments it counts on, and reads the addresses back.           *)
THEOREM CpuAlwaysFindsItsSegments == Questions => []CpuFindsItsSegments
<1>1. Asked => CpuFindsItsSegments
  BY About, DescriptorAnswers, Zenon DEF CpuFindsItsSegments
<1> QED BY <1>1, OnlyAsked, PTL

(* For every frequency the timer can run at and every count, however far it *)
(* has run on between the accesses (pit.cpp, init and readCount).           *)
THEOREM PitAlwaysTellsTheTime == Questions => []PitTellsTheTime
<1>1. Asked => PitTellsTheTime
  BY About, PitAnswers, Zenon DEF PitTellsTheTime
<1> QED BY <1>1, OnlyAsked, PTL

=============================================================================
