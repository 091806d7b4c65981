-------------------------- MODULE PageTables_proofs --------------------------
(***************************************************************************)
(* The tables of an address space form a tree with every table at its     *)
(* place, none is lost, they translate as AddressSpace says and dump logs *)
(* what they translate, for every number of levels, entries per table,    *)
(* pages and frames, after every store of every mapRange and free; so do  *)
(* the three-level tables of Riscv::Vmm.                                  *)
(***************************************************************************)
EXTENDS RiscvVmm, WellFoundedInduction, FiniteSetTheorems, TLAPS

-----------------------------------------------------------------------------
(* Induction, over a set of numbers in place of a predicate, for the levels *)
(* of the tables: it is what the spans and the trails are computed along.   *)

LEMMA Least ==
    ASSUME NEW S, S \subseteq Nat, S # {} PROVE \E n \in S : \A m \in S : n <= m
<1> DEFINE R == OpToRel(<, Nat)
<1>1. IsWellFoundedOn(R, Nat)
  BY NatLessThanWellFounded
<1>2. \A x, y \in Nat : y < x => <<y, x>> \in R
  BY DEF OpToRel
<1> HIDE DEF R
<1>3. \E x \in S : \A y \in S : ~(<<y, x>> \in R)
  BY <1>1, WFMin
<1>4. \E x \in S : \A y \in S : ~(y < x)
  BY <1>2, <1>3, Zenon
<1> QED BY <1>4

Inductive(S) == 0 \in S /\ \A n \in Nat : n \in S => n + 1 \in S

LEMMA LevelInduction == ASSUME NEW S, Inductive(S) PROVE Nat \subseteq S
<1> DEFINE rest == Nat \ S
<1>1. CASE rest = {}
  BY <1>1
<1>2. CASE rest # {}
  <2>1. PICK n \in rest : \A m \in rest : n <= m
    <3> HIDE DEF rest
    <3>1. rest \subseteq Nat
      BY DEF rest
    <3> QED BY <1>2, <3>1, Least
  <2>2. n # 0
    BY DEF Inductive
  <2>3. n - 1 \in Nat /\ n - 1 \in S
    BY <2>1, <2>2
  <2>4. (n - 1) + 1 \in S
    BY <2>3 DEF Inductive
  <2> QED BY <2>3, <2>4
<1> QED BY <1>1, <1>2

(* What is computed level by level exists.                                  *)
Iterates(f, V, base, step, n) ==
    f \in [0 .. n -> V] /\ f[0] = base /\ \A d \in 1 .. n : f[d] = step[d][f[d - 1]]

LEMMA Iteration ==
    ASSUME NEW V, NEW base \in V, NEW step \in [Nat -> [V -> V]], NEW N \in Nat
    PROVE  \E f : Iterates(f, V, base, step, N)
<1> DEFINE S == {n \in Nat : \E f : Iterates(f, V, base, step, n)}
<1>1. 0 \in S
  <2>1. Iterates([d \in 0 .. 0 |-> base], V, base, step, 0)
    BY DEF Iterates
  <2> QED BY <2>1
<1>2. \A n \in Nat : n \in S => n + 1 \in S
  <2> SUFFICES ASSUME NEW n \in Nat, n \in S PROVE n + 1 \in S
    OBVIOUS
  <2>1. PICK f : Iterates(f, V, base, step, n)
    OBVIOUS
  <2> DEFINE g == [d \in 0 .. n + 1 |-> IF d = n + 1 THEN step[n + 1][f[n]] ELSE f[d]]
  <2>2. f[n] \in V /\ step[n + 1][f[n]] \in V
    BY <2>1 DEF Iterates
  <2>3. g \in [0 .. n + 1 -> V] /\ g[0] = base
    BY <2>1, <2>2 DEF Iterates
  <2>4. \A d \in 1 .. n + 1 : g[d] = step[d][g[d - 1]]
    BY <2>1 DEF Iterates
  <2>5. Iterates(g, V, base, step, n + 1) /\ n + 1 \in Nat
    <3> HIDE DEF g
    <3> QED BY <2>3, <2>4 DEF Iterates
  <2> QED BY <2>5, Zenon
<1>3. Inductive(S)
  <2> HIDE DEF S
  <2> QED BY <1>1, <1>2, Zenon DEF Inductive
<1>4. N \in S
  <2> HIDE DEF S
  <2> QED BY <1>3, LevelInduction
<1> QED BY <1>4

-----------------------------------------------------------------------------
(* Spans and indices: the digits of a page number. *)

LEMMA Constants ==
    /\ Levels \in Nat /\ Levels > 0 /\ Radix \in Nat /\ Radix > 1
    /\ Page \subseteq Nat /\ PhysPage \subseteq Nat
BY TablesAssumption, PagesFit

LEMMA SpanIs ==
    /\ Span \in [0 .. Levels -> Nat \ {0}]
    /\ Span[0] = 1
    /\ \A l \in 1 .. Levels : Span[l] = Radix * Span[l - 1]
<1> DEFINE V == Nat \ {0}
           step == [l \in Nat |-> [n \in V |-> Radix * n]]
<1>1. step \in [Nat -> [V -> V]] /\ 1 \in V /\ Levels \in Nat
  BY Constants
<1>0. \A l \in Nat, n \in V : step[l][n] = Radix * n
  OBVIOUS
<1>2. PICK f : Iterates(f, V, 1, step, Levels)
  <2> HIDE DEF step, V
  <2> QED BY <1>1, Iteration, Zenon
<1>3. \A l \in 1 .. Levels : f[l] = Radix * f[l - 1]
  <2> HIDE DEF step
  <2>1. \A l \in 1 .. Levels : l \in Nat /\ l - 1 \in 0 .. Levels
    BY Constants
  <2>2. \A l \in 1 .. Levels : f[l - 1] \in V
    BY <1>2, <2>1 DEF Iterates
  <2> HIDE DEF V
  <2> QED BY <1>0, <1>2, <2>1, <2>2 DEF Iterates
<1>4. f = [l \in 0 .. Levels |-> IF l = 0 THEN 1 ELSE Radix * f[l - 1]]
  BY <1>2, <1>3 DEF Iterates
<1>5. Span = [l \in 0 .. Levels |-> IF l = 0 THEN 1 ELSE Radix * Span[l - 1]]
  BY <1>4 DEF Span
<1> DEFINE S == {l \in Nat : l \in 0 .. Levels => Span[l] \in V}
<1>6. 0 \in S
  BY <1>5
<1>7. \A l \in Nat : l \in S => l + 1 \in S
  <2> SUFFICES ASSUME NEW l \in Nat, l \in S, l + 1 \in 0 .. Levels PROVE Span[l + 1] \in V
    OBVIOUS
  <2>1. Span[l + 1] = Radix * Span[l] /\ Span[l] \in V
    BY <1>5, Constants
  <2> QED BY <2>1, Constants
<1>8. Nat \subseteq S
  <2> HIDE DEF S
  <2>1. Inductive(S)
    BY <1>6, <1>7, Zenon DEF Inductive
  <2> QED BY <2>1, LevelInduction
<1>9. \A l \in 0 .. Levels : Span[l] \in V
  BY <1>8 DEF S
<1> QED BY <1>5, <1>9, Constants

(* The index of a page at a level is the last digit of its prefix there.    *)
LEMMA Digit ==
    ASSUME NEW page \in Nat, NEW l \in 1 .. Levels
    PROVE  /\ Virt2Index(page, l) \in Index
           /\ page \div Span[l] \in Nat /\ page \div Span[l - 1] \in Nat
           /\ page \div Span[l - 1] = (Radix * (page \div Span[l])) + Virt2Index(page, l)
<1> DEFINE n == page \div Span[l - 1]
<1>1. Span[l - 1] \in Nat \ {0} /\ Span[l] = Radix * Span[l - 1]
  BY SpanIs, Constants
<1>2. n \in Nat
  BY <1>1
<1>3. page \div Span[l] = n \div Radix
  <2> DEFINE m == Span[l - 1]
  <2>1. ASSUME NEW r \in Nat, r > 1, NEW k \in Nat \ {0} PROVE (page \div k) \div r = page \div (r * k)
    BY <2>1
  <2> QED BY <1>1, <2>1, Constants
<1> HIDE DEF n
<1>4. n % Radix \in 0 .. Radix - 1 /\ n \div Radix \in Nat /\ n = (Radix * (n \div Radix)) + (n % Radix)
  BY <1>2, Constants
<1> QED BY <1>2, <1>3, <1>4 DEF Virt2Index, Index, n

LEMMA OneDigit ==
    ASSUME NEW a \in Nat, NEW b \in Nat, NEW i \in Index, NEW j \in Index,
           (Radix * a) + i = (Radix * b) + j
    PROVE  a = b /\ i = j
<1>1. ASSUME NEW r \in Nat, r > 1, NEW x \in 0 .. r - 1, NEW y \in 0 .. r - 1, (r * a) + x = (r * b) + y
      PROVE  a = b /\ x = y
  BY <1>1
<1> QED BY <1>1, Constants DEF Index

-----------------------------------------------------------------------------
(* The trail of a page. *)

Stored == Frame \cup PhysPage \cup {Absent, Garbage}
Memory == [Table -> [Index -> Stored]]

Follows(g, m, page) ==
    /\ g[0] = Root
    /\ \A d \in 1 .. Levels :
          g[d] = IF g[d - 1] \in Table
                 THEN m[g[d - 1]][Virt2Index(page, Levels - d + 1)]
                 ELSE g[d - 1]

LEMMA TrailIs ==
    ASSUME NEW m \in Memory, NEW page \in Nat
    PROVE  /\ Trail(m, page) \in [0 .. Levels -> Stored \cup {Root}]
           /\ Follows(Trail(m, page), m, page)
<1> DEFINE V == Stored \cup {Root}
           step == [d \in Nat |-> [e \in V |->
                       IF e \in Table /\ d \in 1 .. Levels
                       THEN m[e][Virt2Index(page, Levels - d + 1)] ELSE e]]
<1>1. step \in [Nat -> [V -> V]] /\ Root \in V /\ Levels \in Nat
  <2>1. ASSUME NEW d \in Nat, NEW e \in V PROVE step[d][e] \in V
    <3>1. CASE e \in Table /\ d \in 1 .. Levels
      <4>1. Levels - d + 1 \in 1 .. Levels
        BY <3>1, Constants
      <4>2. Virt2Index(page, Levels - d + 1) \in Index
        BY <4>1, Digit
      <4>3. m[e][Virt2Index(page, Levels - d + 1)] \in Stored
        BY <3>1, <4>2 DEF Memory
      <4> QED BY <3>1, <4>3
    <3>2. CASE ~(e \in Table /\ d \in 1 .. Levels)
      BY <3>2
    <3> QED BY <3>1, <3>2
  <2> QED BY <2>1, Constants
<1>2. PICK f : Iterates(f, V, Root, step, Levels)
  <2> HIDE DEF step, V
  <2> QED BY <1>1, Iteration, Zenon
<1>3. \A d \in 1 .. Levels : d - 1 \in 0 .. Levels /\ d \in Nat
  BY Constants
<1>4. /\ f \in [0 .. Levels -> V] /\ f[0] = Root
      /\ \A d \in 1 .. Levels : f[d] = step[d][f[d - 1]] /\ f[d - 1] \in V
  <2> HIDE DEF step, V
  <2> QED BY <1>2, <1>3 DEF Iterates
<1>5. \A d \in 1 .. Levels :
          f[d] = IF f[d - 1] \in Table THEN m[f[d - 1]][Virt2Index(page, Levels - d + 1)] ELSE f[d - 1]
  BY <1>3, <1>4
<1>6. f = [d \in 0 .. Levels |->
               IF d = 0 THEN Root
               ELSE IF f[d - 1] \in Table THEN m[f[d - 1]][Virt2Index(page, Levels - d + 1)]
               ELSE f[d - 1]]
  <2> HIDE DEF step, V
  <2> QED BY <1>4, <1>5
<1> DEFINE at == Trail(m, page)
<1>7. at = [d \in 0 .. Levels |->
                IF d = 0 THEN Root
                ELSE IF at[d - 1] \in Table THEN m[at[d - 1]][Virt2Index(page, Levels - d + 1)]
                ELSE at[d - 1]]
  BY <1>6 DEF Trail
<1> HIDE DEF at
<1>8. Follows(at, m, page)
  BY <1>7, Constants DEF Follows
<1> DEFINE S == {d \in Nat : d \in 0 .. Levels => at[d] = f[d]}
<1>9. Inductive(S)
  <2>1. 0 \in S
    BY <1>4, <1>8 DEF Follows
  <2>2. ASSUME NEW d \in Nat, d \in S PROVE d + 1 \in S
    <3> SUFFICES ASSUME d + 1 \in 0 .. Levels PROVE at[d + 1] = f[d + 1]
      OBVIOUS
    <3>1. d + 1 \in 1 .. Levels /\ (d + 1) - 1 = d /\ d \in 0 .. Levels
      BY Constants
    <3>2. at[d] = f[d]
      BY <2>2, <3>1
    <3> QED BY <1>5, <1>8, <3>1, <3>2 DEF Follows
  <2> HIDE DEF S
  <2> QED BY <2>1, <2>2, Zenon DEF Inductive
<1>10. \A d \in 0 .. Levels : at[d] = f[d]
  <2>1. Nat \subseteq S
    <3> HIDE DEF S
    <3> QED BY <1>9, LevelInduction
  <2> QED BY <2>1, Constants
<1>11. at \in [0 .. Levels -> V]
  <2>1. at = [d \in 0 .. Levels |-> at[d]]
    BY <1>7
  <2> HIDE DEF V
  <2> QED BY <1>4, <1>10, <2>1
<1> QED BY <1>8, <1>11 DEF at

(* There is one trail.                                                      *)
LEMMA OneTrail ==
    ASSUME NEW m \in Memory, NEW page \in Nat, NEW g, Follows(g, m, page)
    PROVE  \A d \in 0 .. Levels : Trail(m, page)[d] = g[d]
<1> DEFINE at == Trail(m, page)
<1>1. Follows(at, m, page)
  BY TrailIs
<1> HIDE DEF at
<1> DEFINE S == {d \in Nat : d \in 0 .. Levels => at[d] = g[d]}
<1>2. Inductive(S)
  <2>1. 0 \in S
    BY <1>1 DEF Follows
  <2>2. ASSUME NEW d \in Nat, d \in S PROVE d + 1 \in S
    <3> SUFFICES ASSUME d + 1 \in 0 .. Levels PROVE at[d + 1] = g[d + 1]
      OBVIOUS
    <3>1. d + 1 \in 1 .. Levels /\ (d + 1) - 1 = d /\ d \in 0 .. Levels
      BY Constants
    <3>2. at[d] = g[d]
      BY <2>2, <3>1
    <3> QED BY <1>1, <3>1, <3>2 DEF Follows
  <2> HIDE DEF S
  <2> QED BY <2>1, <2>2, Zenon DEF Inductive
<1>3. Nat \subseteq S
  <2> HIDE DEF S
  <2> QED BY <1>2, LevelInduction
<1> QED BY <1>3, Constants DEF at

-----------------------------------------------------------------------------
(* The inductive invariant. *)

Used == Table \ free
Live == {Root} \cup Linked

(* A call is for pages there are, and goes through them in order.           *)
CallInv ==
    /\ call \in [op : {"none", "map", "free"}, first : Nat, size : Nat, phys : Nat, done : Nat]
    /\ call.op = "none" => call = NoCall
    /\ call.op # "none" => Within(call.first, call.size, Page)
    /\ call.op = "map" => Within(call.phys, call.size, PhysPage)

(* What is true at each stage of allocPage and freePage: the frame just     *)
(* allocated is linked nowhere, and the entry for it is absent; so is the   *)
(* table being given back.                                                  *)
StageInv ==
    /\ call = NoCall => stage = "walk"
    /\ stage = "walk" /\ call.done = call.size => path = <<Root>> /\ new = NoFrame
    /\ new # NoFrame => /\ call.op = "map" /\ stage \in {"walk", "link"} /\ call.done < call.size
                        /\ Level > 1 /\ Entry = Absent
                        /\ new \in Used \ Live /\ mem[new] \in {Dirty, Cleared}
    /\ stage = "link" => new # NoFrame /\ mem[new] = Cleared
    /\ stage \in {"prune", "release"} => call.op = "free" /\ call.done > 0
    /\ stage = "release" => Len(path) > 1 /\ Here \notin Live /\ Empty(Here)

(* Frames in use hold what somebody stored, and no frame is linked that     *)
(* is not in use.  A table linked nowhere has nothing below it.             *)
TablesInv ==
    /\ \A frame \in free : mem[frame] = Dirty
    /\ \A t \in Used, i \in Index : mem[t][i] = Garbage => t = new
    /\ \A t \in Used \ Live : t = new \/ Empty(t)
    /\ Linked \cap free = {}

(* Every table is for one level and for the pages with one prefix: an entry *)
(* leads to the table of the level below and the prefix one digit longer,   *)
(* and no two tables the hardware can reach are for the same.               *)
Placed(lev, pre) ==
    /\ lev[Root] = Levels /\ pre[Root] = 0
    /\ \A t \in Used, i \in Index :
          /\ mem[t][i] \in Frame =>
                /\ lev[t] > 1 /\ lev[mem[t][i]] = lev[t] - 1
                /\ pre[mem[t][i]] = (Radix * pre[t]) + i
          /\ mem[t][i] \in PhysPage => lev[t] = 1 /\ (Radix * pre[t]) + i \in Page
    /\ \A t, u \in Live : lev[t] = lev[u] /\ pre[t] = pre[u] => t = u

(* The tables on the path are those for the current page, each linked from  *)
(* the one before, but for the one being given back.                        *)
OnPath(lev, pre) ==
    /\ path[1] = Root
    /\ \A k \in 2 .. Len(path) :
          /\ path[k] \in Frame \ free
          /\ lev[path[k]] = Levels - k + 1
          /\ pre[path[k]] = Current \div Span[Levels - k + 1]
          /\ mem[path[k - 1]][Virt2Index(Current, Levels - k + 2)] =
                IF stage = "release" /\ k = Len(path) THEN Absent ELSE path[k]

(* A table in use and linked nowhere was refused by the Pmm, or a call is   *)
(* at it.  A table with nothing in it is left behind by a call that failed, *)
(* or a call is at it.                                                      *)
NoneLost ==
    ~FreeMayFail \/ ~spoiled =>
        \A t \in Used \ Live : t = new \/ (stage = "release" /\ t = Here)

NoneIdle ==
    ~spoiled =>
        \A t \in Linked : Empty(t) =>
            t = IF stage = "release" THEN path[Len(path) - 1] ELSE Here

Places == [Table -> 1 .. Levels]
TableKeys == [Table -> Nat]

PInv(lev, pre) ==
    /\ TypeOK /\ CallInv /\ StageInv /\ TablesInv /\ NoneLost /\ NoneIdle
    /\ Placed(lev, pre) /\ OnPath(lev, pre)

IInv == \E lev \in Places, pre \in TableKeys : PInv(lev, pre)

-----------------------------------------------------------------------------
(* What follows from it. *)

LEMMA Entries ==
    /\ Root \notin Frame /\ Absent # Garbage /\ Frame \subseteq Table /\ Root \in Table
    /\ \A t \in Table : t \notin PhysPage
    /\ NoFrame \notin Table /\ NoFrame \notin Frame
    /\ Absent \notin Table /\ Garbage \notin Table
    /\ Absent \notin PhysPage /\ Garbage \notin PhysPage
    /\ Absent \in Stored /\ Garbage \in Stored
BY EntriesDistinct DEF Table, Stored

LEMMA FrontIs ==
    ASSUME NEW S, NEW s \in Seq(S), Len(s) > 1
    PROVE  /\ Front(s) \in Seq(S) /\ Len(Front(s)) = Len(s) - 1
           /\ \A k \in 1 .. Len(s) - 1 : Front(s)[k] = s[k]
BY DEF Front

(* A store into one entry of a table.                                       *)
LEMMA OneEntry ==
    ASSUME NEW m \in Memory, NEW t \in Table, NEW i \in Index, NEW e \in Stored
    PROVE  /\ [m EXCEPT ![t][i] = e] \in Memory
           /\ \A u \in Table, j \in Index :
                 [m EXCEPT ![t][i] = e][u][j] = IF u = t /\ j = i THEN e ELSE m[u][j]
BY DEF Memory

LEMMA IsLinked ==
    \A f : f \in Linked <=> f \in Frame /\ \E t \in Used, i \in Index : mem[t][i] = f
BY DEF Linked, Used

(* The page being worked on is one of the range.                            *)
LEMMA AtPage ==
    ASSUME TypeOK, CallInv, StageInv, call # NoCall,
           call.done < call.size \/ stage \in {"prune", "release"}
    PROVE  Current \in Page /\ Current \in Nat
<1>1. call.first .. call.first + call.size - 1 \subseteq Page
  BY DEF CallInv, Within
<1>2. /\ call.first \in Nat /\ call.size \in Nat /\ call.done \in 0 .. call.size
      /\ stage \in {"prune", "release"} => call.done > 0
  BY DEF TypeOK, CallInv, StageInv
<1>3. Current \in call.first .. call.first + call.size - 1
  BY <1>2 DEF Current
<1> QED BY <1>1, <1>3, Constants

LEMMA PathFacts ==
    ASSUME NEW lev \in Places, NEW pre \in TableKeys, PInv(lev, pre)
    PROVE  /\ Len(path) \in 1 .. Levels /\ Level \in 1 .. Levels /\ Current \in Nat
           /\ path[1] = Root /\ (Len(path) > 1 <=> Here # Root)
           /\ Here \in Used /\ lev[Here] = Level
           /\ Current \in Page => pre[Here] = Current \div Span[Level]
           /\ Virt2Index(Current, Level) \in Index /\ Entry = mem[Here][Virt2Index(Current, Level)]
<1>1. Len(path) \in 1 .. Levels /\ Level \in 1 .. Levels /\ Current \in Nat
  BY Constants DEF PInv, TypeOK, CallInv, StageInv, Level, Current
<1>2. path[1] = Root /\ lev[Root] = Levels /\ pre[Root] = 0 /\ Root \in Used
  BY Entries DEF PInv, OnPath, Placed, Used, TypeOK
<1>3. CASE Len(path) = 1
  <2>1. Here = Root /\ Level = Levels
    BY <1>2, <1>3, Constants DEF Here, Level
  <2>2. Current \in Page => 0 = Current \div Span[Levels]
    <3>1. ASSUME NEW n \in Nat \ {0}, NEW p \in 0 .. n - 1 PROVE 0 = p \div n
      BY <3>1
    <3>2. Span[Levels] \in Nat \ {0}
      BY SpanIs, Constants
    <3>3. Current \in Page => Current \in 0 .. Span[Levels] - 1
      BY PagesFit
    <3> QED BY <3>1, <3>2, <3>3
  <2> QED BY <1>1, <1>2, <1>3, <2>1, <2>2, Digit DEF Entry, PageAt
<1>4. CASE Len(path) > 1
  <2>1. Here = path[Len(path)] /\ Len(path) \in 2 .. Len(path) /\ Level = Levels - Len(path) + 1
    BY <1>1, <1>4, Constants DEF Here, Level
  <2>2. Here \in Frame \ free /\ lev[Here] = Level /\ pre[Here] = Current \div Span[Level]
    BY <2>1 DEF PInv, OnPath
  <2> QED BY <1>1, <1>2, <1>4, <2>2, Digit, Entries DEF Entry, PageAt, Used
<1>5. Len(path) = 1 \/ Len(path) > 1
  <2>1. ASSUME NEW m \in Nat, NEW n \in 1 .. m PROVE n = 1 \/ n > 1
    OBVIOUS
  <2> QED BY <1>1, <2>1, Constants
<1> QED BY <1>3, <1>4, <1>5

(* A table with a frame in it is reachable, and a frame is in one place.    *)
LEMMA OneLink ==
    ASSUME NEW lev \in Places, NEW pre \in TableKeys, PInv(lev, pre),
           NEW t \in Used, NEW i \in Index, mem[t][i] \in Frame
    PROVE  /\ t \in Live
           /\ \A u \in Used, j \in Index : mem[u][j] = mem[t][i] => u = t /\ j = i
<1>1. ASSUME NEW u \in Used, NEW j \in Index, mem[u][j] \in Frame PROVE u \in Live
  <2>1. mem[u][j] # Absent /\ mem[u][j] # Garbage
    BY <1>1, Entries
  <2>2. u # new
    <3> SUFFICES ASSUME u = new PROVE FALSE
      OBVIOUS
    <3>1. mem[u] \in {Dirty, Cleared}
      BY <1>1, Entries DEF PInv, TypeOK, StageInv, Used, Table
    <3> QED BY <2>1, <3>1 DEF Dirty, Cleared
  <2> QED BY <2>1, <2>2 DEF PInv, TablesInv, Empty
<1>2. ASSUME NEW u \in Used, NEW j \in Index, mem[u][j] = mem[t][i] PROVE u = t /\ j = i
  <2>1. t \in Live /\ u \in Live
    BY <1>1, <1>2
  <2>2. /\ lev[t] - 1 = lev[u] - 1 /\ (Radix * pre[t]) + i = (Radix * pre[u]) + j
    BY <1>2 DEF PInv, Placed
  <2>3. lev[t] \in Nat /\ lev[u] \in Nat /\ pre[t] \in Nat /\ pre[u] \in Nat
    BY Constants DEF Places, TableKeys, Used
  <2>4. pre[t] = pre[u] /\ i = j
    BY <2>2, <2>3, OneDigit
  <2> QED BY <2>1, <2>2, <2>3, <2>4 DEF PInv, Placed
<1> QED BY <1>1, <1>2

LEMMA PathIsLive ==
    ASSUME NEW lev \in Places, NEW pre \in TableKeys, PInv(lev, pre),
           NEW k \in 1 .. Len(path), stage # "release" \/ k < Len(path)
    PROVE  path[k] \in Live /\ path[k] \in Used
<1>1. path[1] = Root /\ Root \in Used /\ Len(path) \in Nat
  BY PathFacts, Entries, Constants DEF Used, PInv, TypeOK
<1>2. CASE k = 1
  BY <1>1, <1>2 DEF Live
<1>3. CASE k # 1
  <2>1. k \in 2 .. Len(path) /\ (k = 2 \/ k - 1 \in 2 .. Len(path)) /\ Levels - k + 2 \in 1 .. Levels
    BY <1>1, <1>3, PathFacts, Constants
  <2>2. /\ path[k] \in Frame \ free
        /\ mem[path[k - 1]][Virt2Index(Current, Levels - k + 2)] = path[k]
    BY <2>1 DEF PInv, OnPath
  <2>3. path[k - 1] \in Used
    BY <1>1, <2>1, Entries DEF PInv, OnPath, Used
  <2>4. Virt2Index(Current, Levels - k + 2) \in Index
    BY <2>1, PathFacts, Digit
  <2> QED BY <2>2, <2>3, <2>4, IsLinked, Entries DEF Live, Used
<1> QED BY <1>2, <1>3

(* No table is on the path twice.                                           *)
LEMMA PathPlaces ==
    ASSUME NEW lev \in Places, NEW pre \in TableKeys, PInv(lev, pre), NEW k \in 1 .. Len(path)
    PROVE  /\ lev[path[k]] = Levels - k + 1 /\ path[k] \in Used
           /\ path[k] = Here <=> k = Len(path)
<1>1. Len(path) \in Nat /\ path[1] = Root /\ lev[Root] = Levels
  BY PathFacts, Constants DEF PInv, TypeOK, Placed
<1>2. k = 1 \/ k \in 2 .. Len(path)
  BY <1>1
<1>3. lev[path[k]] = Levels - k + 1 /\ path[k] \in Used
  <2>1. CASE k = 1
    BY <1>1, <2>1, Entries, Constants DEF PInv, TypeOK, Used
  <2>2. CASE k \in 2 .. Len(path)
    BY <2>2, Entries DEF PInv, OnPath, Used
  <2> QED BY <1>2, <2>1, <2>2
<1>4. lev[Here] = Levels - Len(path) + 1
  BY PathFacts DEF Level
<1> QED BY <1>1, <1>3, <1>4, Constants DEF Here

-----------------------------------------------------------------------------
(* Every step keeps it. *)

LEMMA IInvInit == Init => IInv
<1> SUFFICES ASSUME Init PROVE IInv
  OBVIOUS
<1> DEFINE lev == [t \in Table |-> Levels]
           pre == [t \in Table |-> 0]
<1>1. /\ mem = [t \in Table |-> IF t = Root THEN Cleared ELSE Dirty] /\ free = Frame
      /\ call = NoCall /\ stage = "walk" /\ path = <<Root>> /\ new = NoFrame
  BY DEF Init
<1>2. Used = {Root} /\ mem[Root] = Cleared /\ Linked = {}
  BY <1>1, Entries DEF Used, Linked, Table, Cleared
<1>3. lev \in Places /\ pre \in TableKeys
  BY Constants DEF Places, TableKeys
<1>4. TypeOK
  <2>1. Cleared \in [Index -> Stored] /\ Dirty \in [Index -> Stored]
    BY Entries DEF Cleared, Dirty
  <2>2. mem \in [Table -> [Index -> Stored]]
    BY <1>1, <2>1
  <2>3. path \in Seq(Table) /\ Len(path) = 1
    BY <1>1, Entries
  <2> QED BY <1>1, <2>2, <2>3, Constants DEF TypeOK, Stored, NoCall
<1>5. CallInv /\ StageInv
  BY <1>1 DEF CallInv, StageInv, NoCall
<1>6. TablesInv /\ NoneLost /\ NoneIdle
  BY <1>1, <1>2, Entries DEF TablesInv, NoneLost, NoneIdle, Live, Cleared
<1>7. Placed(lev, pre)
  BY <1>2, Entries DEF Placed, Live, Cleared, Table
<1>8. OnPath(lev, pre)
  BY <1>1 DEF OnPath
<1> QED BY <1>3, <1>4, <1>5, <1>6, <1>7, <1>8 DEF IInv, PInv

LEMMA StartKeeps ==
    ASSUME NEW lev \in Places, NEW pre \in TableKeys, PInv(lev, pre),
           call = NoCall, CallInv', call'.done = 0,
           UNCHANGED <<mem, free, stage, path, new, spoiled>>
    PROVE  PInv(lev, pre)'
<1>1. stage = "walk" /\ path = <<Root>> /\ new = NoFrame
  BY DEF PInv, StageInv, NoCall
<1>2. UNCHANGED <<Used, Linked, Live, Here>> /\ \A t : Empty(t)' <=> Empty(t)
  BY DEF Used, Linked, Live, Here, Empty
<1>3. TypeOK'
  BY DEF PInv, TypeOK, CallInv
<1>4. StageInv'
  BY <1>1 DEF StageInv
<1>5. TablesInv' /\ NoneLost' /\ NoneIdle'
  BY <1>1, <1>2 DEF PInv, TablesInv, NoneLost, NoneIdle
<1>6. Placed(lev, pre)'
  BY <1>2 DEF PInv, Placed
<1>7. OnPath(lev, pre)'
  BY <1>1 DEF OnPath
<1> QED BY <1>3, <1>4, <1>5, <1>6, <1>7 DEF PInv

LEMMA MapRangeKeeps ==
    ASSUME NEW lev \in Places, NEW pre \in TableKeys, PInv(lev, pre),
           NEW first \in Page, NEW size \in Sizes, NEW phys \in PhysPage, NEW physSize \in Sizes,
           MapRange(first, size, phys, physSize)
    PROVE  PInv(lev, pre)'
<1>1. /\ call = NoCall /\ UNCHANGED <<mem, free, stage, path, new, spoiled>>
      /\ \/ call' = NoCall
         \/ /\ call' = Call("map", first, size, phys)
            /\ Within(first, size, Page) /\ Within(phys, size, PhysPage)
  BY DEF MapRange
<1>2. first \in Nat /\ size \in Nat /\ phys \in Nat
  BY TablesAssumption, Constants
<1>3. CallInv' /\ call'.done = 0
  BY <1>1, <1>2 DEF CallInv, Call, NoCall
<1> QED BY <1>1, <1>3, StartKeeps

LEMMA FreeKeeps ==
    ASSUME NEW lev \in Places, NEW pre \in TableKeys, PInv(lev, pre),
           NEW first \in Page, NEW size \in Sizes, Free(first, size)
    PROVE  PInv(lev, pre)'
<1>1. /\ call = NoCall /\ UNCHANGED <<mem, free, stage, path, new, spoiled>>
      /\ call' = Call("free", first, size, 0) /\ Within(first, size, Page)
  BY DEF Free
<1>2. first \in Nat /\ size \in Nat
  BY TablesAssumption, Constants
<1>3. CallInv' /\ call'.done = 0
  BY <1>1, <1>2 DEF CallInv, Call, NoCall
<1> QED BY <1>1, <1>3, StartKeeps

(* A call may end when no frame of its own is left unlinked, unless it is   *)
(* the one the Pmm refused, and no table is left with nothing in it, unless *)
(* it failed.                                                               *)
LEMMA FinishKeeps ==
    ASSUME NEW lev \in Places, NEW pre \in TableKeys, PInv(lev, pre),
           NEW how, Finish(how), UNCHANGED <<mem, free>>, new = NoFrame,
           how # "error" => stage = "walk" /\ path = <<Root>>,
           stage = "release" => FreeMayFail
    PROVE  PInv(lev, pre)'
<1>1. /\ call' = NoCall /\ stage' = "walk" /\ path' = <<Root>> /\ new' = NoFrame
      /\ ~spoiled' => ~spoiled /\ how # "error"
  BY DEF Finish
<1>2. UNCHANGED <<Used, Linked, Live>> /\ \A t : Empty(t)' <=> Empty(t)
  BY DEF Used, Linked, Live, Empty
<1>3. TypeOK'
  <2>1. path' \in Seq(Table) /\ Len(path') = 1
    BY <1>1, Entries
  <2> QED BY <1>1, <2>1, Constants DEF PInv, TypeOK, NoCall
<1>4. CallInv' /\ StageInv'
  BY <1>1 DEF CallInv, StageInv, NoCall
<1>5. TablesInv'
  BY <1>1, <1>2 DEF PInv, TablesInv
<1>6. NoneLost'
  BY <1>1, <1>2 DEF PInv, NoneLost
<1>7. NoneIdle'
  BY <1>1, <1>2 DEF PInv, NoneIdle, Here
<1>8. Placed(lev, pre)'
  BY <1>2 DEF PInv, Placed
<1>9. OnPath(lev, pre)'
  BY <1>1 DEF OnPath
<1> QED BY <1>3, <1>4, <1>5, <1>6, <1>7, <1>8, <1>9 DEF PInv

LEMMA CallEndsKeeps ==
    ASSUME NEW lev \in Places, NEW pre \in TableKeys, PInv(lev, pre),
           Return \/ AllocFails \/ NotPresent \/ ReleaseFails
    PROVE  PInv(lev, pre)'
<1>1. CASE Return
  BY <1>1, FinishKeeps DEF Return, PInv, StageInv
<1>2. CASE AllocFails
  BY <1>2, FinishKeeps DEF AllocFails, Missing, Walking
<1>3. CASE NotPresent
  <2>1. new = NoFrame /\ stage = "walk"
    BY <1>3 DEF NotPresent, Walking, PInv, StageInv
  <2> QED BY <1>3, <2>1, FinishKeeps DEF NotPresent
<1>4. CASE ReleaseFails
  <2>1. new = NoFrame /\ stage = "release" /\ FreeMayFail
    BY <1>4 DEF ReleaseFails, PInv, StageInv
  <2> QED BY <1>4, <2>1, FinishKeeps DEF ReleaseFails
<1> QED BY <1>1, <1>2, <1>3, <1>4

LEMMA DescendKeeps ==
    ASSUME NEW lev \in Places, NEW pre \in TableKeys, PInv(lev, pre), Descend
    PROVE  PInv(lev, pre)'
<1>1. /\ call # NoCall /\ call.done < call.size /\ stage = "walk"
      /\ Level > 1 /\ new = NoFrame /\ Entry # Absent /\ path' = Append(path, Entry)
      /\ UNCHANGED <<mem, free, call, stage, new, spoiled>>
  BY DEF Descend, Walking, NoCall
<1>2. /\ Len(path) \in 1 .. Levels - 1 /\ Here \in Used /\ lev[Here] = Level
      /\ Virt2Index(Current, Level) \in Index /\ Entry = mem[Here][Virt2Index(Current, Level)]
  BY <1>1, PathFacts, Constants DEF Level
<1>3. Current \in Page /\ Current \in Nat /\ pre[Here] = Current \div Span[Level]
  BY <1>1, AtPage, PathFacts DEF PInv
<1>4. Entry \in Frame \ free
  <2>1. Entry \in Stored
    BY <1>2 DEF PInv, TypeOK, Stored, Used
  <2>2. Entry # Garbage
    BY <1>1, <1>2, Entries DEF PInv, TablesInv, Used
  <2>3. Entry \notin PhysPage
    BY <1>1, <1>2 DEF PInv, Placed
  <2>4. Entry \in Frame
    BY <1>1, <2>1, <2>2, <2>3 DEF Stored
  <2> QED BY <1>2, <2>4, IsLinked DEF PInv, TablesInv
<1>5. lev[Entry] = Level - 1 /\ pre[Entry] = Current \div Span[Level - 1]
  <2>1. lev[Entry] = lev[Here] - 1 /\ pre[Entry] = (Radix * pre[Here]) + Virt2Index(Current, Level)
    BY <1>2, <1>4 DEF PInv, Placed
  <2> QED BY <1>2, <1>3, <2>1, Digit, PathFacts
<1>6. /\ path' \in Seq(Table) /\ Len(path') = Len(path) + 1 /\ path'[Len(path) + 1] = Entry
      /\ \A k \in 1 .. Len(path) : path'[k] = path[k]
  BY <1>1, <1>4, Entries DEF PInv, TypeOK
<1>7. UNCHANGED <<Used, Linked, Live, Current>> /\ \A t : Empty(t)' <=> Empty(t)
  BY <1>1 DEF Used, Linked, Live, Empty, Current
<1>8. TypeOK' /\ CallInv'
  BY <1>1, <1>2, <1>6, Constants DEF PInv, TypeOK, CallInv
<1>9. StageInv'
  BY <1>1, <1>8 DEF PInv, StageInv, TypeOK, CallInv
<1>10. TablesInv' /\ NoneLost'
  BY <1>1, <1>7 DEF PInv, TablesInv, NoneLost
<1>11. NoneIdle'
  <2>1. ~Empty(Here)
    BY <1>1, <1>2 DEF Empty
  <2> QED BY <1>1, <1>7, <2>1 DEF PInv, NoneIdle
<1>12. Placed(lev, pre)'
  BY <1>1, <1>7 DEF PInv, Placed
<1>13. OnPath(lev, pre)'
  <2>1. path'[1] = Root
    BY <1>2, <1>6, PathFacts, Constants
  <2>2. ASSUME NEW k \in 2 .. Len(path')
        PROVE  /\ path'[k] \in Frame \ free
               /\ lev[path'[k]] = Levels - k + 1
               /\ pre[path'[k]] = Current \div Span[Levels - k + 1]
               /\ mem[path'[k - 1]][Virt2Index(Current, Levels - k + 2)] = path'[k]
    <3>1. CASE k \in 2 .. Len(path)
      <4>1. k \in 1 .. Len(path) /\ k - 1 \in 1 .. Len(path)
        BY <1>2, <3>1, Constants
      <4>2. path'[k] = path[k] /\ path'[k - 1] = path[k - 1]
        BY <1>6, <4>1
      <4> QED BY <1>1, <3>1, <4>2 DEF PInv, OnPath
    <3>2. CASE k = Len(path) + 1
      <4>1. path'[k] = Entry /\ path'[k - 1] = Here /\ Levels - k + 1 = Level - 1 /\ Levels - k + 2 = Level
        BY <1>2, <1>6, <3>2, Constants DEF Here, Level
      <4> QED BY <1>2, <1>4, <1>5, <4>1
    <3> QED BY <1>2, <1>6, <3>1, <3>2, Constants
  <2> QED BY <1>1, <1>7, <2>1, <2>2 DEF OnPath
<1> QED BY <1>8, <1>9, <1>10, <1>11, <1>12, <1>13 DEF PInv

LEMMA AllocTableKeeps ==
    ASSUME NEW lev \in Places, NEW pre \in TableKeys, PInv(lev, pre),
           NEW frame \in free, AllocTable(frame)
    PROVE  PInv(lev, pre)'
<1>1. /\ call.op = "map" /\ call.done < call.size /\ stage = "walk"
      /\ Level > 1 /\ new = NoFrame /\ Entry = Absent
      /\ free' = free \ {frame} /\ new' = frame
      /\ UNCHANGED <<mem, call, stage, path, spoiled>>
  BY DEF AllocTable, Missing, Walking
<1>2. frame \in Frame /\ frame \in Table /\ frame # NoFrame /\ mem[frame] = Dirty /\ frame \notin Live
  BY Entries DEF PInv, TypeOK, TablesInv, Live
<1>3. \A i \in Index : mem[frame][i] = Garbage
  BY <1>2 DEF Dirty
<1>4. Used' = Used \cup {frame} /\ frame \notin Used
  BY <1>1, <1>2 DEF Used
<1>5. Linked' = Linked
  BY <1>1, <1>3, <1>4, Entries DEF Linked, Used
<1>6. UNCHANGED <<Live, Here, Level, Current, Entry>> /\ \A t : Empty(t)' <=> Empty(t)
  BY <1>1, <1>5 DEF Live, Empty, Current, Here, Level, Entry, PageAt
<1>7. TypeOK' /\ CallInv'
  BY <1>1, <1>2 DEF PInv, TypeOK, CallInv
<1>8. StageInv'
  BY <1>1, <1>2, <1>4, <1>6, <1>7 DEF PInv, StageInv, TypeOK, CallInv
<1>9. TablesInv'
  BY <1>1, <1>3, <1>4, <1>5, <1>6, Entries DEF PInv, TablesInv, Used
<1>10. NoneLost' /\ NoneIdle'
  BY <1>1, <1>4, <1>5, <1>6, Entries DEF PInv, NoneLost, NoneIdle, Used
<1>11. Placed(lev, pre)'
  BY <1>1, <1>3, <1>4, <1>6, Entries DEF PInv, Placed
<1>12. OnPath(lev, pre)'
  BY <1>1, <1>2, <1>6, PathIsLive DEF PInv, OnPath, Live
<1> QED BY <1>7, <1>8, <1>9, <1>10, <1>11, <1>12 DEF PInv

LEMMA ZeroTableKeeps ==
    ASSUME NEW lev \in Places, NEW pre \in TableKeys, PInv(lev, pre), ZeroTable
    PROVE  PInv(lev, pre)'
<1>1. /\ new # NoFrame /\ stage = "walk" /\ stage' = "link"
      /\ mem' = [mem EXCEPT ![new] = Cleared]
      /\ UNCHANGED <<free, call, path, new, spoiled>>
  BY DEF ZeroTable
<1>2. /\ call.op = "map" /\ call.done < call.size /\ Level > 1 /\ Entry = Absent
      /\ new \in Used \ Live /\ mem[new] \in {Dirty, Cleared} /\ new \in Table
      /\ mem \in Memory
  BY <1>1 DEF PInv, StageInv, TypeOK, Used, Memory, Stored
<1>3. /\ mem' \in Memory /\ mem'[new] = Cleared
      /\ \A t \in Table : t # new => mem'[t] = mem[t]
  BY <1>1, <1>2, Entries DEF Memory, Cleared
<1>4. \A i \in Index : mem'[new][i] = Absent /\ mem[new][i] \in {Absent, Garbage}
  BY <1>2, <1>3 DEF Cleared, Dirty
<1>5. Used' = Used /\ Used \subseteq Table
  BY <1>1 DEF Used
<1>6. Linked' = Linked
  <2>1. ASSUME NEW t \in Used, NEW i \in Index
        PROVE  mem'[t][i] = mem[t][i] \/ (mem'[t][i] \notin Frame /\ mem[t][i] \notin Frame)
    BY <1>3, <1>4, <1>5, Entries
  <2>2. \A f : f \in Linked' <=> f \in Frame /\ \E t \in Used, i \in Index : mem'[t][i] = f
    BY <1>5 DEF Linked, Used
  <2>3. \A f : f \in Linked' <=> f \in Linked
    BY <2>1, <2>2, IsLinked
  <2> QED BY <2>3
<1>7. \A t \in Live : mem'[t] = mem[t] /\ t \in Table
  BY <1>2, <1>3, Entries DEF Live, Linked
<1>8. UNCHANGED <<Live, Here, Level, Current>>
  BY <1>1, <1>6 DEF Live, Current, Here, Level
<1>9. Here \in Live /\ Entry' = Entry
  <2>1. Here \in Live
    BY <1>1, PathIsLive, PathFacts, Constants DEF Here
  <2> QED BY <1>7, <1>8, <2>1 DEF Entry, PageAt
<1>10. TypeOK' /\ CallInv'
  BY <1>1, <1>3 DEF PInv, TypeOK, CallInv, Memory, Stored
<1>11. StageInv'
  BY <1>1, <1>2, <1>3, <1>5, <1>8, <1>9 DEF PInv, StageInv, NoCall
<1>12. TablesInv'
  BY <1>1, <1>2, <1>3, <1>4, <1>5, <1>6, <1>8, Entries DEF PInv, TablesInv, Empty, Used
<1>13. NoneLost' /\ NoneIdle'
  BY <1>1, <1>5, <1>6, <1>7, <1>8 DEF PInv, NoneLost, NoneIdle, Empty, Live
<1>14. Placed(lev, pre)'
  BY <1>3, <1>4, <1>5, <1>8, Entries DEF PInv, Placed
<1>15. OnPath(lev, pre)'
  <2> SUFFICES ASSUME NEW k \in 2 .. Len(path) PROVE mem'[path[k - 1]] = mem[path[k - 1]]
    BY <1>1, <1>8 DEF PInv, OnPath
  <2>1. k - 1 \in 1 .. Len(path)
    BY PathFacts, Constants
  <2> QED BY <1>1, <1>7, <2>1, PathIsLive
<1> QED BY <1>10, <1>11, <1>12, <1>13, <1>14, <1>15 DEF PInv

(* The new table takes its place: it is the only one there, since the entry *)
(* that leads to the place was absent.                                      *)
LEMMA LinkTableKeeps ==
    ASSUME NEW lev \in Places, NEW pre \in TableKeys, PInv(lev, pre), LinkTable
    PROVE  IInv'
<1> DEFINE idx == Virt2Index(Current, Level)
<1>1. /\ stage = "link" /\ stage' = "walk" /\ new' = NoFrame /\ path' = Append(path, new)
      /\ mem' = [mem EXCEPT ![Here][idx] = new]
      /\ UNCHANGED <<free, call, spoiled>>
  BY DEF LinkTable, PutPage
<1>2. /\ call.op = "map" /\ call # NoCall /\ call.done < call.size /\ Level > 1 /\ Entry = Absent
      /\ new # NoFrame /\ new \in Used \ Live /\ new \in Frame /\ mem[new] = Cleared /\ new \in Table
      /\ mem \in Memory
  BY <1>1, Entries DEF PInv, StageInv, TypeOK, Memory, Stored, NoCall
<1>3. /\ Len(path) \in 1 .. Levels - 1 /\ Here \in Used /\ Here \in Table /\ lev[Here] = Level
      /\ idx \in Index /\ mem[Here][idx] = Absent /\ Level \in 2 .. Levels /\ path[1] = Root
  BY <1>2, PathFacts, Constants DEF Level, Used
<1>4. Current \in Page /\ Current \in Nat /\ pre[Here] = Current \div Span[Level]
  BY <1>2, AtPage, PathFacts DEF PInv
<1>5. Here \in Live /\ Here # new
  BY <1>1, <1>2, <1>3, PathIsLive, Constants DEF Here
<1>6. /\ mem' \in Memory
      /\ \A t \in Table, i \in Index : mem'[t][i] = IF t = Here /\ i = idx THEN new ELSE mem[t][i]
  <2> HIDE DEF idx
  <2>1. new \in Stored
    BY <1>2 DEF Stored
  <2>2. /\ [mem EXCEPT ![Here][idx] = new] \in Memory
        /\ \A t \in Table, i \in Index :
              [mem EXCEPT ![Here][idx] = new][t][i] = IF t = Here /\ i = idx THEN new ELSE mem[t][i]
    BY <1>2, <1>3, <2>1, OneEntry
  <2> QED BY <1>1, <2>2
<1> HIDE DEF idx
<1>7. Used' = Used /\ Used \subseteq Table /\ Current' = Current
  BY <1>1 DEF Used, Current
<1>8. Linked' = Linked \cup {new}
  <2>1. \A f : f \in Linked' <=> f \in Frame /\ \E t \in Used, i \in Index : mem'[t][i] = f
    BY <1>7 DEF Linked, Used
  <2>2. \A f : f \in Linked' <=> f \in Linked \/ f = new
    BY <1>2, <1>3, <1>6, <1>7, <2>1, IsLinked, Entries
  <2> QED BY <2>2
<1>9. Live' = Live \cup {new} /\ new \notin Linked
  BY <1>2, <1>8 DEF Live
<1>10. /\ path' \in Seq(Table) /\ Len(path') = Len(path) + 1 /\ path'[Len(path) + 1] = new
       /\ \A k \in 1 .. Len(path) : path'[k] = path[k]
  BY <1>1, <1>2 DEF PInv, TypeOK
<1>11. TypeOK' /\ CallInv'
  BY <1>1, <1>3, <1>6, <1>10, Constants DEF PInv, TypeOK, CallInv, Memory, Stored
<1>12. StageInv'
  BY <1>1, <1>2, <1>11 DEF StageInv, TypeOK, CallInv
<1>13. TablesInv'
  <2>1. \A i \in Index : mem[new][i] = Absent
    BY <1>2 DEF Cleared
  <2>2. \A t \in Used, i \in Index : mem'[t][i] # Garbage
    BY <1>2, <1>6, <1>7, <2>1, Entries DEF PInv, TablesInv
  <2>3. \A t \in Used \ Live' : Empty(t)'
    BY <1>5, <1>6, <1>7, <1>9 DEF PInv, TablesInv, Empty
  <2>4. Linked' \cap free = {}
    BY <1>2, <1>8 DEF PInv, TablesInv, Used
  <2>5. \A frame \in free : mem'[frame] = mem[frame]
    BY <1>1, <1>3 DEF Used, PInv, TypeOK, Table
  <2> QED BY <1>1, <1>7, <2>2, <2>3, <2>4, <2>5 DEF PInv, TablesInv
<1>14. NoneLost'
  BY <1>1, <1>2, <1>7, <1>9 DEF PInv, NoneLost
<1>15. NoneIdle'
  <2>1. Here' = new
    BY <1>10 DEF Here
  <2>2. ASSUME NEW t \in Linked, \A i \in Index : mem'[t][i] = Absent, ~spoiled PROVE FALSE
    <3>1. t \in Table
      BY Entries DEF Linked
    <3>2. t # Here
      BY <1>2, <1>3, <1>6, <2>2, Entries
    <3>3. Empty(t)
      BY <1>6, <2>2, <3>1, <3>2 DEF Empty
    <3> QED BY <1>1, <2>2, <3>2, <3>3 DEF PInv, NoneIdle
  <2> QED BY <1>1, <1>8, <2>1, <2>2 DEF NoneIdle, Empty
<1>16. PICK lev2 \in Places, pre2 \in TableKeys :
          /\ lev2[new] = Level - 1 /\ pre2[new] = Current \div Span[Level - 1]
          /\ \A t \in Table : t # new => lev2[t] = lev[t] /\ pre2[t] = pre[t]
  <2>1. Level - 1 \in 1 .. Levels /\ Level \in 1 .. Levels
    BY <1>3, Constants
  <2>2. Current \div Span[Level - 1] \in Nat
    BY <1>4, <2>1, Digit
  <2>3. [lev EXCEPT ![new] = Level - 1] \in Places
    BY <2>1 DEF Places
  <2>4. [pre EXCEPT ![new] = Current \div Span[Level - 1]] \in TableKeys
    BY <2>2 DEF TableKeys
  <2> QED BY <1>2, <2>3, <2>4 DEF Places, TableKeys
<1>17. pre2[new] = (Radix * pre[Here]) + idx
  BY <1>3, <1>4, <1>16, Digit, Constants DEF idx
<1>18. \A u \in Live : ~(lev[u] = Level - 1 /\ pre[u] = pre2[new])
  <2> SUFFICES ASSUME NEW u \in Live, lev[u] = Level - 1, pre[u] = pre2[new] PROVE FALSE
    OBVIOUS
  <2>1. u # Root
    BY <1>3, Constants DEF PInv, Placed
  <2>2. PICK t \in Used, j \in Index : mem[t][j] = u /\ u \in Frame
    BY <2>1, IsLinked DEF Live
  <2>3. t \in Live /\ lev[t] - 1 = lev[u] /\ pre[u] = (Radix * pre[t]) + j
    BY <2>2, OneLink DEF PInv, Placed
  <2>4. lev[t] \in Nat /\ pre[t] \in Nat /\ pre[Here] \in Nat
    BY <1>3, <1>7, Constants DEF Places, TableKeys
  <2>5. pre[t] = pre[Here] /\ j = idx
    BY <1>3, <1>17, <2>3, <2>4, OneDigit
  <2>6. lev[t] = lev[Here]
    BY <1>3, <2>3, <2>4
  <2>7. t = Here
    BY <1>5, <2>3, <2>5, <2>6 DEF PInv, Placed
  <2> QED BY <1>3, <2>2, <2>5, <2>7, Entries
<1>19. Placed(lev2, pre2)'
  <2>1. lev2[Root] = Levels /\ pre2[Root] = 0
    BY <1>2, <1>16, Entries DEF PInv, Placed
  <2>2. ASSUME NEW t \in Used, NEW i \in Index
        PROVE  /\ mem'[t][i] \in Frame =>
                     /\ lev2[t] > 1 /\ lev2[mem'[t][i]] = lev2[t] - 1
                     /\ pre2[mem'[t][i]] = (Radix * pre2[t]) + i
               /\ mem'[t][i] \in PhysPage => lev2[t] = 1 /\ (Radix * pre2[t]) + i \in Page
    <3>1. CASE t = Here /\ i = idx
      BY <1>2, <1>3, <1>5, <1>6, <1>16, <1>17, <3>1, Entries
    <3>2. CASE ~(t = Here /\ i = idx)
      <4>1. mem'[t][i] = mem[t][i]
        BY <1>6, <1>7, <3>2
      <4>2. t = new => mem[t][i] = Absent
        BY <1>2 DEF Cleared
      <4>3. mem[t][i] \in Frame => mem[t][i] # new
        BY <1>9, IsLinked
      <4> QED BY <1>7, <1>16, <4>1, <4>2, <4>3, Entries DEF PInv, Placed
    <3> QED BY <3>1, <3>2
  <2>3. \A t, u \in Live' : lev2[t] = lev2[u] /\ pre2[t] = pre2[u] => t = u
    <3>1. \A t \in Live : t \in Table /\ t # new
      BY <1>2, Entries DEF Live, Linked
    <3> QED BY <1>9, <1>16, <1>18, <3>1 DEF PInv, Placed
  <2> QED BY <1>7, <2>1, <2>2, <2>3 DEF Placed
<1>20. OnPath(lev2, pre2)'
  <2>1. path'[1] = Root
    BY <1>3, <1>10, Constants
  <2>2. ASSUME NEW k \in 2 .. Len(path')
        PROVE  /\ path'[k] \in Frame \ free
               /\ lev2[path'[k]] = Levels - k + 1
               /\ pre2[path'[k]] = Current \div Span[Levels - k + 1]
               /\ mem'[path'[k - 1]][Virt2Index(Current, Levels - k + 2)] = path'[k]
    <3>1. CASE k \in 2 .. Len(path)
      <4>1. /\ k \in 1 .. Len(path) /\ k - 1 \in 1 .. Len(path) /\ k - 1 # Len(path)
            /\ Levels - k + 2 \in 1 .. Levels
        BY <1>3, <3>1, Constants
      <4>2. path'[k] = path[k] /\ path'[k - 1] = path[k - 1]
        BY <1>10, <4>1
      <4>3. /\ path[k] \in Table /\ path[k] # new /\ path[k - 1] \in Table /\ path[k - 1] # Here
        BY <1>1, <1>2, <1>7, <4>1, PathIsLive, PathPlaces
      <4>4. Virt2Index(Current, Levels - k + 2) \in Index
        BY <1>4, <4>1, Digit
      <4> QED BY <1>1, <1>6, <1>16, <3>1, <4>2, <4>3, <4>4 DEF PInv, OnPath
    <3>2. CASE k = Len(path) + 1
      <4>1. /\ k - 1 = Len(path) /\ k - 1 \in 1 .. Len(path)
            /\ Levels - k + 1 = Level - 1 /\ Levels - k + 2 = Level
        BY <1>3, <3>2, Constants DEF Level
      <4>2. path'[k] = new /\ path'[k - 1] = Here
        BY <1>10, <3>2, <4>1 DEF Here
      <4> QED BY <1>2, <1>3, <1>6, <1>16, <4>1, <4>2 DEF idx, Used
    <3> QED BY <1>3, <1>10, <3>1, <3>2, Constants
  <2> QED BY <1>1, <1>7, <2>1, <2>2 DEF OnPath
<1>21. PInv(lev2, pre2)'
  BY <1>11, <1>12, <1>13, <1>14, <1>15, <1>19, <1>20 DEF PInv
<1> QED BY <1>16, <1>21 DEF IInv

(* Stores into a table of the lowest level: pages come and go, no table     *)
(* does.                                                                    *)
LEMMA LeafStore ==
    ASSUME NEW lev \in Places, NEW pre \in TableKeys, PInv(lev, pre),
           call # NoCall, call.done < call.size, stage = "walk", Level = 1, new = NoFrame,
           NEW e \in PhysPage \cup {Absent}, PutPage(Here, Current, 1, e),
           UNCHANGED <<free, new>>
    PROVE  /\ mem' \in Memory /\ TablesInv' /\ Placed(lev, pre)' /\ UNCHANGED <<Used, Linked, Live>>
           /\ \A t \in Table, i \in Index :
                 mem'[t][i] = IF t = Here /\ i = Virt2Index(Current, 1) THEN e ELSE mem[t][i]
<1> DEFINE idx == Virt2Index(Current, 1)
<1>1. /\ Here \in Used /\ Here \in Table /\ Here \in Live /\ lev[Here] = 1 /\ idx \in Index
      /\ Current \in Page /\ Current \in Nat /\ pre[Here] = Current \div Span[1]
      /\ mem \in Memory /\ mem[Here][idx] \in Stored /\ e \in Stored /\ e \notin Table /\ e # Garbage
  <2>1. /\ Here \in Used /\ Here \in Table /\ lev[Here] = 1 /\ idx \in Index
        /\ Current \in Page /\ Current \in Nat /\ pre[Here] = Current \div Span[1]
    BY PathFacts, AtPage DEF PInv, Used
  <2>2. Here \in Live
    BY PathFacts, PathIsLive, Constants DEF Here
  <2>3. mem \in Memory /\ mem[Here][idx] \in Stored
    BY <2>1 DEF PInv, TypeOK, Memory, Stored
  <2> QED BY <2>1, <2>2, <2>3, Entries DEF Stored
<1>2. mem[Here][idx] \notin Frame
  BY <1>1 DEF PInv, Placed
<1>3. /\ mem' \in Memory
      /\ \A t \in Table, i \in Index : mem'[t][i] = IF t = Here /\ i = idx THEN e ELSE mem[t][i]
  <2> HIDE DEF idx
  <2>1. mem' = [mem EXCEPT ![Here][idx] = e]
    BY DEF PutPage, idx
  <2>2. /\ [mem EXCEPT ![Here][idx] = e] \in Memory
        /\ \A t \in Table, i \in Index :
              [mem EXCEPT ![Here][idx] = e][t][i] = IF t = Here /\ i = idx THEN e ELSE mem[t][i]
    BY <1>1, OneEntry
  <2> QED BY <2>1, <2>2
<1> HIDE DEF idx
<1>4. Used' = Used /\ Used \subseteq Table
  BY DEF Used
<1>5. Linked' = Linked
  <2>1. \A f : f \in Linked' <=> f \in Frame /\ \E t \in Used, i \in Index : mem'[t][i] = f
    BY <1>4 DEF Linked, Used
  <2>2. \A f : f \in Linked' <=> f \in Linked
    BY <1>1, <1>2, <1>3, <1>4, <2>1, IsLinked, Entries
  <2> QED BY <2>2
<1>6. Live' = Live
  BY <1>5 DEF Live
<1>7. TablesInv'
  <2>1. \A t \in Used, i \in Index : mem'[t][i] # Garbage
    BY <1>1, <1>3, <1>4, Entries DEF PInv, TablesInv
  <2>2. \A t \in Used \ Live : Empty(t)'
    <3>1. \A t \in Used \ Live : Empty(t) /\ t # Here /\ t \in Table
      BY <1>1, <1>4, Entries DEF PInv, TablesInv
    <3> QED BY <1>3, <3>1 DEF Empty
  <2>3. \A frame \in free : mem'[frame] = Dirty
    <3>1. \A frame \in free : frame # Here /\ frame \in Table
      BY <1>1, Entries DEF Used, PInv, TypeOK
    <3>2. \A t \in Table : t # Here => mem'[t] = mem[t]
      BY <1>1, <1>3 DEF Memory
    <3> QED BY <3>1, <3>2 DEF PInv, TablesInv
  <2>4. Linked' \cap free' = {}
    BY <1>5 DEF PInv, TablesInv
  <2> QED BY <1>4, <1>6, <2>1, <2>2, <2>3, <2>4 DEF TablesInv, Dirty
<1>8. Placed(lev, pre)'
  <2>1. (Radix * pre[Here]) + idx = Current
    <3>1. /\ Current \div Span[0] = (Radix * (Current \div Span[1])) + idx
      BY <1>1, Digit, Constants DEF idx
    <3>2. Current \div Span[0] = Current
      BY <1>1, SpanIs
    <3> QED BY <1>1, <3>1, <3>2
  <2>2. \A t \in Used, i \in Index :
          /\ mem'[t][i] \in Frame =>
                /\ lev[t] > 1 /\ lev[mem'[t][i]] = lev[t] - 1
                /\ pre[mem'[t][i]] = (Radix * pre[t]) + i
          /\ mem'[t][i] \in PhysPage => lev[t] = 1 /\ (Radix * pre[t]) + i \in Page
    BY <1>1, <1>3, <1>4, <2>1, Entries DEF PInv, Placed
  <2> QED BY <1>4, <1>6, <2>2 DEF PInv, Placed
<1> QED BY <1>3, <1>4, <1>5, <1>6, <1>7, <1>8 DEF idx

LEMMA PutLeafKeeps ==
    ASSUME NEW lev \in Places, NEW pre \in TableKeys, PInv(lev, pre), PutLeaf
    PROVE  PInv(lev, pre)'
<1>1. /\ call.op = "map" /\ call # NoCall /\ call.done < call.size /\ stage = "walk" /\ Level = 1
      /\ call' = [call EXCEPT !.done = @ + 1] /\ path' = <<Root>>
      /\ UNCHANGED <<free, stage, new, spoiled>>
  BY DEF PutLeaf, Walking, NoCall
<1>2. call \in [op : {"none", "map", "free"}, first : Nat, size : Nat, phys : Nat, done : Nat]
  BY DEF PInv, CallInv
<1>3. /\ call'.op = "map" /\ call'.first = call.first /\ call'.size = call.size
      /\ call'.phys = call.phys /\ call'.done = call.done + 1
      /\ call' \in [op : {"none", "map", "free"}, first : Nat, size : Nat, phys : Nat, done : Nat]
  BY <1>1, <1>2
<1>4. new = NoFrame
  BY <1>1 DEF PInv, StageInv
<1>5. call.phys + call.done \in PhysPage
  BY <1>1, <1>2 DEF PInv, CallInv, Within
<1>6. /\ mem' \in Memory /\ TablesInv' /\ Placed(lev, pre)' /\ UNCHANGED <<Used, Linked, Live>>
      /\ \A t \in Table, i \in Index :
            mem'[t][i] = IF t = Here /\ i = Virt2Index(Current, 1) THEN call.phys + call.done ELSE mem[t][i]
  BY <1>1, <1>4, <1>5, LeafStore DEF PutLeaf
<1>7. path' \in Seq(Table) /\ Len(path') = 1
  BY <1>1, Entries
<1>8. TypeOK' /\ CallInv'
  BY <1>1, <1>2, <1>3, <1>6, <1>7, Constants DEF PInv, TypeOK, CallInv, Memory, Stored, Within, NoCall
<1>9. StageInv'
  BY <1>1, <1>4 DEF StageInv
<1>10. NoneLost'
  BY <1>1, <1>6 DEF PInv, NoneLost
<1>11. NoneIdle'
  <2> SUFFICES ASSUME ~spoiled, NEW t \in Linked, \A i \in Index : mem'[t][i] = Absent PROVE FALSE
    BY <1>1, <1>6 DEF NoneIdle, Empty
  <2>1. t \in Table
    BY Entries DEF Linked
  <2>2. Here \in Table /\ Virt2Index(Current, 1) \in Index
    BY <1>1, PathFacts DEF Used
  <2>3. t # Here
    BY <1>5, <1>6, <2>2, Entries
  <2>4. Empty(t)
    BY <1>6, <2>1, <2>3 DEF Empty
  <2> QED BY <1>1, <2>3, <2>4 DEF PInv, NoneIdle
<1>12. OnPath(lev, pre)'
  BY <1>1 DEF OnPath
<1> QED BY <1>6, <1>8, <1>9, <1>10, <1>11, <1>12 DEF PInv

LEMMA ClearLeafKeeps ==
    ASSUME NEW lev \in Places, NEW pre \in TableKeys, PInv(lev, pre), ClearLeaf
    PROVE  PInv(lev, pre)'
<1>1. /\ call.op = "free" /\ call # NoCall /\ call.done < call.size /\ stage = "walk" /\ Level = 1
      /\ call' = [call EXCEPT !.done = @ + 1] /\ stage' = "prune"
      /\ UNCHANGED <<free, path, new, spoiled>>
  BY DEF ClearLeaf, Walking, NoCall
<1>2. call \in [op : {"none", "map", "free"}, first : Nat, size : Nat, phys : Nat, done : Nat]
  BY DEF PInv, CallInv
<1>3. /\ call'.op = "free" /\ call'.first = call.first /\ call'.size = call.size
      /\ call'.phys = call.phys /\ call'.done = call.done + 1
      /\ call' \in [op : {"none", "map", "free"}, first : Nat, size : Nat, phys : Nat, done : Nat]
  BY <1>1, <1>2
<1>4. new = NoFrame
  BY <1>1 DEF PInv, StageInv
<1>5. Current' = Current
  BY <1>1, <1>2, <1>3 DEF Current
<1>6. /\ mem' \in Memory /\ TablesInv' /\ Placed(lev, pre)' /\ UNCHANGED <<Used, Linked, Live>>
      /\ \A t \in Table, i \in Index :
            mem'[t][i] = IF t = Here /\ i = Virt2Index(Current, 1) THEN Absent ELSE mem[t][i]
  BY <1>1, <1>4, LeafStore DEF ClearLeaf
<1>7. TypeOK' /\ CallInv'
  BY <1>1, <1>2, <1>3, <1>6 DEF PInv, TypeOK, CallInv, Memory, Stored, Within, NoCall
<1>8. StageInv'
  BY <1>1, <1>2, <1>3, <1>4 DEF StageInv, NoCall
<1>9. NoneLost'
  BY <1>1, <1>6 DEF PInv, NoneLost
<1>10. NoneIdle'
  <2> SUFFICES ASSUME ~spoiled, NEW t \in Linked, \A i \in Index : mem'[t][i] = Absent, t # Here PROVE FALSE
    BY <1>1, <1>6 DEF NoneIdle, Empty, Here
  <2>1. t \in Table
    BY Entries DEF Linked
  <2>2. Empty(t)
    BY <1>6, <2>1 DEF Empty
  <2> QED BY <1>1, <2>2 DEF PInv, NoneIdle
<1>11. OnPath(lev, pre)'
  <2> SUFFICES ASSUME NEW k \in 2 .. Len(path)
               PROVE  LET j == Virt2Index(Current, Levels - k + 2)
                      IN  mem'[path[k - 1]][j] = mem[path[k - 1]][j]
    BY <1>1, <1>5 DEF PInv, OnPath
  <2>1. k - 1 \in 1 .. Len(path) /\ k - 1 # Len(path) /\ Levels - k + 2 \in 1 .. Levels
    BY PathFacts, Constants
  <2>2. path[k - 1] # Here /\ path[k - 1] \in Table
    BY <2>1, PathPlaces DEF Used
  <2>3. Virt2Index(Current, Levels - k + 2) \in Index
    BY <2>1, PathFacts, Digit
  <2> QED BY <1>6, <2>2, <2>3
<1> QED BY <1>6, <1>7, <1>8, <1>9, <1>10, <1>11 DEF PInv

LEMMA KeepTableKeeps ==
    ASSUME NEW lev \in Places, NEW pre \in TableKeys, PInv(lev, pre), KeepTable
    PROVE  PInv(lev, pre)'
<1>1. /\ stage = "prune" /\ UNCHANGED <<mem, free, call, new, spoiled>>
      /\ call.op = "free" /\ call # NoCall /\ new = NoFrame /\ path \in Seq(Table)
      /\ Len(path) \in 1 .. Levels /\ path[1] = Root
  BY PathFacts DEF KeepTable, PInv, StageInv, TypeOK, NoCall
<1>2. UNCHANGED <<Used, Linked, Live>> /\ \A t : Empty(t)' <=> Empty(t)
  BY <1>1 DEF Used, Linked, Live, Empty
<1>3. CallInv' /\ Placed(lev, pre)'
  BY <1>1, <1>2 DEF PInv, CallInv, Placed
<1>4. CASE Len(path) > 1
  <2>1. ~Empty(Here) /\ path' = Front(path) /\ stage' = stage /\ Current' = Current
    BY <1>1, <1>4 DEF KeepTable, Current
  <2>2. /\ path' \in Seq(Table) /\ Len(path') = Len(path) - 1 /\ Len(path') \in 1 .. Levels
        /\ \A k \in 1 .. Len(path) - 1 : path'[k] = path[k]
    BY <1>1, <1>4, <2>1, FrontIs, Constants
  <2>3. TypeOK' /\ StageInv'
    BY <1>1, <2>1, <2>2 DEF PInv, TypeOK, StageInv
  <2>4. TablesInv' /\ NoneLost' /\ NoneIdle'
    BY <1>1, <1>2, <2>1 DEF PInv, TablesInv, NoneLost, NoneIdle
  <2>5. OnPath(lev, pre)'
    <3>1. path'[1] = Root
      BY <1>1, <1>4, <2>2, Constants
    <3>2. \A k \in 2 .. Len(path') :
              k \in 2 .. Len(path) /\ path'[k] = path[k] /\ path'[k - 1] = path[k - 1]
      BY <1>1, <2>2, Constants
    <3> QED BY <1>1, <2>1, <3>1, <3>2 DEF PInv, OnPath
  <2> QED BY <1>3, <2>3, <2>4, <2>5 DEF PInv
<1>5. CASE Len(path) = 1
  <2>1. path' = path /\ stage' = "walk" /\ path = <<Root>>
    BY <1>1, <1>5 DEF KeepTable
  <2>2. TypeOK' /\ StageInv'
    BY <1>1, <2>1 DEF PInv, TypeOK, StageInv
  <2>3. TablesInv' /\ NoneLost' /\ NoneIdle'
    BY <1>1, <1>2, <2>1 DEF PInv, TablesInv, NoneLost, NoneIdle, Here
  <2>4. OnPath(lev, pre)'
    BY <2>1 DEF OnPath
  <2> QED BY <1>3, <2>2, <2>3, <2>4 DEF PInv
<1>6. Len(path) = 1 \/ Len(path) > 1
  <2>1. ASSUME NEW m \in Nat, NEW n \in 1 .. m PROVE n = 1 \/ n > 1
    OBVIOUS
  <2> QED BY <1>1, <2>1, Constants
<1> QED BY <1>4, <1>5, <1>6

(* The table above the last one on the path, and the entry that leads down. *)
LEMMA ParentFacts ==
    ASSUME NEW lev \in Places, NEW pre \in TableKeys, PInv(lev, pre), Len(path) > 1,
           NEW parent, parent = path[Len(path) - 1]
    PROVE  /\ parent \in Live /\ parent \in Used /\ parent \in Table /\ parent # Here
           /\ lev[parent] = Level + 1 /\ Level + 1 \in 2 .. Levels
           /\ \A k \in 1 .. Len(path) : path[k] = parent <=> k = Len(path) - 1
           /\ Here \in Frame \ free
           /\ Virt2Index(Current, Level + 1) \in Index
           /\ mem[parent][Virt2Index(Current, Level + 1)] = IF stage = "release" THEN Absent ELSE Here
<1>1. /\ Len(path) \in 2 .. Levels /\ Len(path) - 1 \in 1 .. Len(path)
      /\ Len(path) - 1 < Len(path) /\ Level + 1 \in 2 .. Levels
      /\ Level = Levels - Len(path) + 1 /\ Levels - Len(path) + 2 = Level + 1
      /\ Len(path) \in 2 .. Len(path)
  BY PathFacts, Constants DEF Level
<1>2. parent \in Live /\ parent \in Used /\ parent \in Table /\ parent # Here
  BY <1>1, PathIsLive, PathPlaces DEF Used
<1>3. \A k \in 1 .. Len(path) : lev[path[k]] = Levels - k + 1
  BY PathPlaces
<1>4. lev[parent] = Level + 1
  BY <1>1, <1>3, Constants
<1>5. \A k \in 1 .. Len(path) : path[k] = parent <=> k = Len(path) - 1
  BY <1>1, <1>3, <1>4, Constants
<1>6. /\ Here \in Frame \ free
      /\ mem[parent][Virt2Index(Current, Level + 1)] = IF stage = "release" THEN Absent ELSE Here
  BY <1>1 DEF PInv, OnPath, Here
<1>7. Virt2Index(Current, Level + 1) \in Index
  <2>1. Level + 1 \in 1 .. Levels /\ Current \in Nat
    BY <1>1, PathFacts, Constants
  <2> QED BY <2>1, Digit
<1> QED BY <1>1, <1>2, <1>4, <1>5, <1>6, <1>7

LEMMA UnlinkTableKeeps ==
    ASSUME NEW lev \in Places, NEW pre \in TableKeys, PInv(lev, pre), UnlinkTable
    PROVE  PInv(lev, pre)'
<1>1. PICK parent, idx :
         /\ parent = path[Len(path) - 1] /\ idx = Virt2Index(Current, Level + 1)
         /\ mem' = [mem EXCEPT ![parent][idx] = Absent]
  BY DEF UnlinkTable, PutPage
<1>2. /\ stage = "prune" /\ stage' = "release" /\ Len(path) > 1 /\ Empty(Here)
      /\ UNCHANGED <<free, call, path, new, spoiled>>
      /\ call.op = "free" /\ call.done > 0 /\ call # NoCall /\ new = NoFrame /\ mem \in Memory
  BY DEF UnlinkTable, PInv, StageInv, TypeOK, Memory, Stored, NoCall
<1>3. /\ parent \in Live /\ parent \in Used /\ parent \in Table /\ parent # Here
      /\ \A k \in 1 .. Len(path) : path[k] = parent <=> k = Len(path) - 1
      /\ Here \in Frame \ free /\ Here # Root
      /\ idx \in Index /\ mem[parent][idx] = Here
  BY <1>1, <1>2, ParentFacts, Entries
<1>4. /\ mem' \in Memory
      /\ \A t \in Table, i \in Index : mem'[t][i] = IF t = parent /\ i = idx THEN Absent ELSE mem[t][i]
  <2>1. /\ [mem EXCEPT ![parent][idx] = Absent] \in Memory
        /\ \A t \in Table, i \in Index :
              [mem EXCEPT ![parent][idx] = Absent][t][i] = IF t = parent /\ i = idx THEN Absent ELSE mem[t][i]
    BY <1>2, <1>3, OneEntry, Entries
  <2> QED BY <1>1, <2>1
<1>5. UNCHANGED <<Used, Here, Current, Level>> /\ Used \subseteq Table
  BY <1>2 DEF Used, Here, Current, Level
<1>6. Linked' = Linked \ {Here}
  <2>1. \A f : f \in Linked' <=> f \in Frame /\ \E t \in Used, i \in Index : mem'[t][i] = f
    BY <1>5 DEF Linked, Used
  <2>2. \A t \in Used, i \in Index : mem[t][i] = Here => t = parent /\ i = idx
    BY <1>3, OneLink
  <2>3. \A f : f \in Linked' <=> f \in Linked /\ f # Here
    BY <1>3, <1>4, <1>5, <2>1, <2>2, IsLinked, Entries
  <2> QED BY <2>3
<1>7. Live' = Live \ {Here}
  BY <1>3, <1>6 DEF Live
<1>8. TypeOK' /\ CallInv'
  BY <1>2, <1>4 DEF PInv, TypeOK, CallInv, Memory, Stored
<1>9. Empty(Here)'
  BY <1>2, <1>3, <1>4, <1>5, Entries DEF Empty
<1>10. StageInv'
  BY <1>2, <1>5, <1>7, <1>9 DEF StageInv
<1>11. TablesInv'
  <2>1. \A t \in Used, i \in Index : mem'[t][i] # Garbage
    BY <1>2, <1>4, <1>5, Entries DEF PInv, TablesInv
  <2>2. \A t \in Used \ Live' : Empty(t)'
    <3>1. \A t \in Used \ Live' : t = Here \/ (Empty(t) /\ t # parent /\ t \in Table)
      BY <1>2, <1>3, <1>5, <1>7, Entries DEF PInv, TablesInv
    <3> QED BY <1>4, <1>5, <1>9, <3>1 DEF Empty
  <2>3. \A frame \in free : mem'[frame] = Dirty
    <3>1. \A frame \in free : frame # parent /\ frame \in Table
      BY <1>3, Entries DEF Used, PInv, TypeOK
    <3>2. \A t \in Table : t # parent => mem'[t] = mem[t]
      BY <1>2, <1>3, <1>4 DEF Memory
    <3> QED BY <3>1, <3>2 DEF PInv, TablesInv
  <2>4. Linked' \cap free' = {}
    BY <1>2, <1>6 DEF PInv, TablesInv
  <2> QED BY <1>2, <1>5, <2>1, <2>2, <2>3, <2>4 DEF TablesInv, Dirty
<1>12. NoneLost'
  BY <1>2, <1>5, <1>7 DEF PInv, NoneLost
<1>13. NoneIdle'
  <2> SUFFICES ASSUME ~spoiled, NEW t \in Linked', \A i \in Index : mem'[t][i] = Absent, t # parent
               PROVE  FALSE
    BY <1>1, <1>2 DEF NoneIdle, Empty
  <2>1. t \in Table /\ t \in Linked /\ t # Here
    BY <1>6, Entries DEF Linked
  <2>2. Empty(t)
    BY <1>4, <2>1 DEF Empty
  <2> QED BY <1>2, <2>1, <2>2 DEF PInv, NoneIdle
<1>14. Placed(lev, pre)'
  BY <1>4, <1>5, <1>7, Entries DEF PInv, Placed
<1>15. OnPath(lev, pre)'
  <2>1. ASSUME NEW k \in 2 .. Len(path), k # Len(path)
        PROVE  LET j == Virt2Index(Current, Levels - k + 2)
               IN  mem'[path[k - 1]][j] = mem[path[k - 1]][j]
    <3>1. /\ k - 1 \in 1 .. Len(path) /\ k - 1 # Len(path) - 1 /\ k - 1 < Len(path)
          /\ Levels - k + 2 \in 1 .. Levels
      BY <2>1, PathFacts, Constants
    <3>2. path[k - 1] # parent /\ path[k - 1] \in Table
      BY <1>3, <1>5, <3>1, PathPlaces
    <3>3. Virt2Index(Current, Levels - k + 2) \in Index
      BY <3>1, PathFacts, Digit
    <3> QED BY <1>4, <3>2, <3>3
  <2>2. /\ path[Len(path) - 1] = parent /\ Virt2Index(Current, Levels - Len(path) + 2) = idx
        /\ mem'[parent][idx] = Absent
    <3>1. Levels - Len(path) + 2 = Level + 1
      BY PathFacts, Constants DEF Level
    <3> QED BY <1>1, <1>3, <1>4, <3>1
  <2> QED BY <1>2, <1>5, <2>1, <2>2 DEF PInv, OnPath
<1> QED BY <1>8, <1>10, <1>11, <1>12, <1>13, <1>14, <1>15 DEF PInv

LEMMA ReleaseTableKeeps ==
    ASSUME NEW lev \in Places, NEW pre \in TableKeys, PInv(lev, pre), ReleaseTable
    PROVE  PInv(lev, pre)'
<1>1. /\ stage = "release" /\ stage' = "prune" /\ free' = free \cup {Here}
      /\ mem' = [mem EXCEPT ![Here] = Dirty] /\ path' = Front(path)
      /\ UNCHANGED <<call, new, spoiled>>
      /\ call.op = "free" /\ call.done > 0 /\ call # NoCall /\ new = NoFrame /\ mem \in Memory
      /\ Len(path) > 1 /\ Here \notin Live /\ Empty(Here) /\ path \in Seq(Table)
  BY DEF ReleaseTable, PInv, StageInv, TypeOK, Memory, Stored, NoCall
<1>2. /\ Here \in Frame \ free /\ Here \in Table /\ Here \in Used
      /\ Len(path) \in 2 .. Levels /\ path[1] = Root
  BY <1>1, ParentFacts, PathFacts, Entries, Constants DEF Used
<1>3. /\ mem' \in Memory /\ mem'[Here] = Dirty
      /\ \A t \in Table : t # Here => mem'[t] = mem[t]
  BY <1>1, <1>2, Entries DEF Memory, Dirty
<1>4. Used' = Used \ {Here} /\ Used \subseteq Table
  BY <1>1 DEF Used
<1>5. Linked' = Linked
  <2>1. \A f : f \in Linked' <=> f \in Frame /\ \E t \in Used \ {Here}, i \in Index : mem'[t][i] = f
    BY <1>4 DEF Linked, Used
  <2>2. \A f : f \in Linked' <=> f \in Linked
    BY <1>1, <1>3, <1>4, <2>1, IsLinked, Entries DEF Empty
  <2> QED BY <2>2
<1>6. Live' = Live /\ Current' = Current
  BY <1>1, <1>5 DEF Live, Current
<1>7. /\ path' \in Seq(Table) /\ Len(path') = Len(path) - 1 /\ Len(path') \in 1 .. Levels
      /\ \A k \in 1 .. Len(path) - 1 : path'[k] = path[k]
  BY <1>1, <1>2, FrontIs, Constants
<1>8. TypeOK' /\ CallInv'
  BY <1>1, <1>2, <1>3, <1>7 DEF PInv, TypeOK, CallInv, Memory, Stored
<1>9. StageInv'
  BY <1>1 DEF StageInv
<1>10. TablesInv'
  <2>1. \A t \in Used', i \in Index : mem'[t][i] # Garbage
    BY <1>1, <1>3, <1>4, Entries DEF PInv, TablesInv
  <2>2. \A t \in Used' \ Live' : Empty(t)'
    <3>1. \A t \in Used' \ Live' : Empty(t) /\ t # Here /\ t \in Table
      BY <1>1, <1>4, <1>6, Entries DEF PInv, TablesInv
    <3> QED BY <1>3, <3>1 DEF Empty
  <2>3. \A frame \in free' : mem'[frame] = Dirty
    <3>1. \A frame \in free : frame # Here /\ frame \in Table
      BY <1>2, Entries DEF PInv, TypeOK
    <3> QED BY <1>1, <1>3, <3>1 DEF PInv, TablesInv
  <2>4. Linked' \cap free' = {}
    BY <1>1, <1>5 DEF PInv, TablesInv, Live
  <2> QED BY <2>1, <2>2, <2>3, <2>4 DEF TablesInv, Dirty
<1>11. NoneLost'
  BY <1>1, <1>4, <1>6 DEF PInv, NoneLost
<1>12. NoneIdle'
  <2> SUFFICES ASSUME ~spoiled, NEW t \in Linked, \A i \in Index : mem'[t][i] = Absent
               PROVE  t = path[Len(path) - 1]
    BY <1>1, <1>2, <1>5, <1>7, Constants DEF NoneIdle, Empty, Here
  <2>1. t \in Table /\ t # Here
    BY <1>1, Entries DEF Linked, Live
  <2>2. Empty(t)
    BY <1>3, <2>1 DEF Empty
  <2> QED BY <1>1, <2>2 DEF PInv, NoneIdle
<1>13. Placed(lev, pre)'
  BY <1>3, <1>4, <1>6 DEF PInv, Placed
<1>14. OnPath(lev, pre)'
  <2>1. path'[1] = Root
    BY <1>2, <1>7, Constants
  <2>2. ASSUME NEW k \in 2 .. Len(path')
        PROVE  /\ k \in 2 .. Len(path) /\ k # Len(path)
               /\ path'[k] = path[k] /\ path'[k - 1] = path[k - 1]
               /\ path[k] # Here /\ mem'[path[k - 1]] = mem[path[k - 1]]
    <3>1. k \in 2 .. Len(path) /\ k \in 1 .. Len(path) - 1 /\ k - 1 \in 1 .. Len(path) - 1
          /\ k \in 1 .. Len(path) /\ k - 1 \in 1 .. Len(path) /\ k # Len(path) /\ k - 1 # Len(path)
      BY <1>2, <1>7, Constants
    <3>2. path[k] # Here /\ path[k - 1] # Here /\ path[k - 1] \in Table
      BY <1>4, <3>1, PathPlaces
    <3> QED BY <1>3, <1>7, <3>1, <3>2
  <2> QED BY <1>1, <1>6, <2>1, <2>2 DEF PInv, OnPath
<1> QED BY <1>8, <1>9, <1>10, <1>11, <1>12, <1>13, <1>14 DEF PInv

LEMMA StutterKeeps ==
    ASSUME NEW lev \in Places, NEW pre \in TableKeys, PInv(lev, pre), UNCHANGED vars
    PROVE  PInv(lev, pre)'
<1>1. UNCHANGED <<mem, free, call, stage, path, new, spoiled, Used, Linked, Live, Here, Level, Current, Entry>>
  BY DEF vars, Used, Linked, Live, Here, Level, Current, Entry, PageAt
<1>2. \A t : Empty(t)' <=> Empty(t)
  BY <1>1 DEF Empty
<1>3. TypeOK' /\ CallInv' /\ StageInv'
  BY <1>1, <1>2 DEF PInv, TypeOK, CallInv, StageInv
<1>4. TablesInv' /\ NoneLost' /\ NoneIdle'
  BY <1>1, <1>2 DEF PInv, TablesInv, NoneLost, NoneIdle
<1>5. Placed(lev, pre)' /\ OnPath(lev, pre)'
  BY <1>1 DEF PInv, Placed, OnPath
<1> QED BY <1>3, <1>4, <1>5 DEF PInv

LEMMA IInvStep == ASSUME IInv, [Next]_vars PROVE IInv'
<1>1. PICK lev \in Places, pre \in TableKeys : PInv(lev, pre)
  BY DEF IInv
<1>2. ASSUME PInv(lev, pre)' PROVE IInv'
  BY <1>2 DEF IInv
<1>3. CASE UNCHANGED vars
  BY <1>1, <1>2, <1>3, StutterKeeps
<1>4. CASE \E first \in Page, size, physSize \in Sizes, phys \in PhysPage :
              MapRange(first, size, phys, physSize)
  BY <1>1, <1>2, <1>4, MapRangeKeeps
<1>5. CASE \E first \in Page, size \in Sizes : Free(first, size)
  BY <1>1, <1>2, <1>5, FreeKeeps
<1>6. CASE Step
  <2>1. CASE LinkTable
    BY <1>1, <2>1, LinkTableKeeps
  <2>2. CASE Descend \/ ZeroTable \/ PutLeaf \/ (\E frame \in free : AllocTable(frame))
    BY <1>1, <1>2, <2>2, DescendKeeps, AllocTableKeeps, ZeroTableKeeps, PutLeafKeeps
  <2>3. CASE Return \/ AllocFails \/ NotPresent \/ ReleaseFails
    BY <1>1, <1>2, <2>3, CallEndsKeeps
  <2>4. CASE ClearLeaf \/ KeepTable \/ UnlinkTable \/ ReleaseTable
    BY <1>1, <1>2, <2>4, ClearLeafKeeps, KeepTableKeeps, UnlinkTableKeeps, ReleaseTableKeeps
  <2> QED BY <1>6, <2>1, <2>2, <2>3, <2>4 DEF Step
<1> QED BY <1>3, <1>4, <1>5, <1>6 DEF Next

LEMMA IInvAlways == Spec => []IInv
BY IInvInit, IInvStep, PTL DEF Spec

-----------------------------------------------------------------------------
(* The tables form a tree, after every store. *)

THEOREM TypeCorrect == Spec => []TypeOK
<1>1. IInv => TypeOK
  BY DEF IInv, PInv
<1> QED BY <1>1, IInvAlways, PTL

(* No frame is linked from two entries, or while the Pmm holds it, and no   *)
(* table the hardware can reach has an entry nobody cleared.                *)
THEOREM TablesAlwaysATree == Spec => []TablesAreATree
<1>1. ASSUME IInv PROVE TablesAreATree
  <2>1. PICK lev \in Places, pre \in TableKeys : PInv(lev, pre)
    BY <1>1 DEF IInv
  <2>2. Linked \cap free = {}
    BY <2>1 DEF PInv, TablesInv
  <2>3. \A t \in Live : t \in Used
    BY <2>1, <2>2, Entries DEF Live, Linked, Used, PInv, TypeOK
  <2>4. \A t \in Live, i \in Index : mem[t][i] # Garbage
    BY <2>1, <2>3, Entries DEF PInv, TablesInv, StageInv, Used
  <2>5. \A t, u \in Live, i, j \in Index :
            mem[t][i] = mem[u][j] /\ mem[t][i] \in Frame => t = u /\ i = j
    BY <2>1, <2>3, OneLink
  <2> QED BY <2>2, <2>4, <2>5 DEF TablesAreATree, Live
<1> QED BY <1>1, IInvAlways, PTL

-----------------------------------------------------------------------------
(* Where the trail of a page leads. *)

LEMMA TrailPlaced ==
    ASSUME NEW lev \in Places, NEW pre \in TableKeys, PInv(lev, pre), NEW q \in Page,
           NEW d \in 0 .. Levels, Trail(mem, q)[d] \in Table
    PROVE  /\ d < Levels /\ Trail(mem, q)[d] \in Live
           /\ lev[Trail(mem, q)[d]] = Levels - d
           /\ pre[Trail(mem, q)[d]] = q \div Span[Levels - d]
<1> DEFINE g == Trail(mem, q)
           At(n) == g[n] \in Live /\ lev[g[n]] = Levels - n /\ pre[g[n]] = q \div Span[Levels - n]
           S == {n \in Nat : n \in 0 .. Levels /\ g[n] \in Table => At(n)}
<1>1. mem \in Memory /\ q \in Nat /\ \A t \in Live : t \in Used /\ t \in Table
  BY Constants, Entries DEF PInv, TypeOK, TablesInv, Memory, Stored, Live, Linked, Used
<1>2. Follows(g, mem, q) /\ g \in [0 .. Levels -> Stored \cup {Root}]
  BY <1>1, TrailIs
<1> HIDE DEF g
<1>3. At(0)
  <2>1. g[0] = Root /\ lev[Root] = Levels /\ pre[Root] = 0 /\ Root \in Live
    BY <1>2 DEF Follows, PInv, Placed, Live
  <2>2. 0 = q \div Span[Levels]
    <3>1. ASSUME NEW n \in Nat \ {0}, NEW p \in 0 .. n - 1 PROVE 0 = p \div n
      BY <3>1
    <3>2. Span[Levels] \in Nat \ {0} /\ q \in 0 .. Span[Levels] - 1
      BY SpanIs, Constants, PagesFit
    <3> QED BY <3>1, <3>2
  <2> QED BY <2>1, <2>2, Constants
<1>4. ASSUME NEW n \in Nat, n + 1 \in 0 .. Levels, g[n + 1] \in Table, g[n] \in Table => At(n)
      PROVE  At(n + 1)
  <2>1. n \in 0 .. Levels /\ n + 1 \in 1 .. Levels /\ (n + 1) - 1 = n /\ Levels - n \in 1 .. Levels
        /\ Levels - (n + 1) + 1 = Levels - n /\ (Levels - n) - 1 = Levels - (n + 1)
    BY <1>4, Constants
  <2>2. g[n + 1] = IF g[n] \in Table THEN mem[g[n]][Virt2Index(q, Levels - n)] ELSE g[n]
    BY <1>2, <2>1 DEF Follows
  <2>3. g[n] \in Table /\ At(n)
    BY <1>4, <2>2
  <2>4. Virt2Index(q, Levels - n) \in Index
        /\ q \div Span[(Levels - n) - 1] = (Radix * (q \div Span[Levels - n])) + Virt2Index(q, Levels - n)
    BY <1>1, <2>1, Digit
  <2>5. g[n] \in Used /\ g[n + 1] = mem[g[n]][Virt2Index(q, Levels - n)]
    BY <1>1, <2>2, <2>3
  <2>6. g[n + 1] \in Frame
    <3>1. g[n + 1] \in Stored
      BY <1>1, <2>3, <2>4, <2>5 DEF Memory
    <3> QED BY <1>4, <3>1, Entries DEF Stored
  <2>7. g[n + 1] \in Live
    BY <2>4, <2>5, <2>6, IsLinked DEF Live
  <2>8. lev[g[n + 1]] = lev[g[n]] - 1 /\ pre[g[n + 1]] = (Radix * pre[g[n]]) + Virt2Index(q, Levels - n)
    BY <2>4, <2>5, <2>6 DEF PInv, Placed
  <2> QED BY <2>1, <2>3, <2>4, <2>7, <2>8, Constants
<1>5. Inductive(S)
  <2>1. 0 \in S
    BY <1>3
  <2>2. ASSUME NEW n \in Nat, n \in S PROVE n + 1 \in S
    <3> SUFFICES ASSUME n + 1 \in 0 .. Levels, g[n + 1] \in Table PROVE At(n + 1)
      OBVIOUS
    <3>1. n \in 0 .. Levels
      BY Constants
    <3>2. g[n] \in Table => At(n)
      BY <2>2, <3>1
    <3> HIDE DEF At
    <3> QED BY <1>4, <3>2
  <2> HIDE DEF S
  <2> QED BY <2>1, <2>2, Zenon DEF Inductive
<1>6. At(d)
  <2>1. Nat \subseteq S
    <3> HIDE DEF S
    <3> QED BY <1>5, LevelInduction
  <2> QED BY <2>1, Constants DEF g
<1>7. d < Levels
  <2>1. lev[g[d]] \in 1 .. Levels
    BY <1>1, <1>6 DEF Places
  <2> QED BY <1>6, <2>1, Constants
<1> QED BY <1>6, <1>7 DEF g

(* Memories that agree along the trail of a page take it the same way.      *)
LEMMA SameTrail ==
    ASSUME NEW m \in Memory, NEW m2 \in Memory, NEW q \in Nat,
           \A d \in 0 .. Levels - 1 :
               LET t == Trail(m, q)[d]
                   i == Virt2Index(q, Levels - d)
               IN  t \in Table => m2[t][i] = m[t][i]
    PROVE  Trail(m2, q)[Levels] = Trail(m, q)[Levels]
<1> DEFINE g == Trail(m, q)
<1>1. Follows(g, m, q)
  BY TrailIs
<1>2. \A d \in 0 .. Levels - 1 :
          g[d] \in Table => m2[g[d]][Virt2Index(q, Levels - d)] = m[g[d]][Virt2Index(q, Levels - d)]
  OBVIOUS
<1> HIDE DEF g
<1>3. Follows(g, m2, q)
  <2> SUFFICES ASSUME NEW d \in 1 .. Levels
               PROVE  g[d] = IF g[d - 1] \in Table
                             THEN m2[g[d - 1]][Virt2Index(q, Levels - d + 1)] ELSE g[d - 1]
    BY <1>1 DEF Follows
  <2>1. d - 1 \in 0 .. Levels - 1 /\ Levels - (d - 1) = Levels - d + 1
    BY Constants
  <2> QED BY <1>1, <1>2, <2>1 DEF Follows
<1>4. \A d \in 0 .. Levels : Trail(m2, q)[d] = g[d]
  BY <1>3, OneTrail
<1> QED BY <1>4, Constants DEF g

(* An entry that is no table is where the walk ends.                        *)
LEMMA TrailEnds ==
    ASSUME NEW m \in Memory, NEW q \in Nat, NEW c \in 0 .. Levels, NEW g,
           g[0] = Root, g[c] \notin Table,
           \A d \in 1 .. c : g[d] = IF g[d - 1] \in Table
                                    THEN m[g[d - 1]][Virt2Index(q, Levels - d + 1)] ELSE g[d - 1]
    PROVE  Trail(m, q)[Levels] = g[c]
<1> DEFINE h == [d \in 0 .. Levels |-> IF d <= c THEN g[d] ELSE g[c]]
<1>1. Follows(h, m, q)
  <2>1. h[0] = Root
    BY Constants
  <2>2. ASSUME NEW d \in 1 .. Levels
        PROVE  h[d] = IF h[d - 1] \in Table
                      THEN m[h[d - 1]][Virt2Index(q, Levels - d + 1)] ELSE h[d - 1]
    <3>1. CASE d \in 1 .. c
      <4>1. h[d] = g[d] /\ h[d - 1] = g[d - 1]
        BY <3>1, Constants
      <4> QED BY <3>1, <4>1
    <3>2. CASE d > c
      <4>1. h[d] = g[c] /\ h[d - 1] = g[c]
        BY <3>2, Constants
      <4> QED BY <4>1
    <3> QED BY <3>1, <3>2, Constants
  <2> HIDE DEF h
  <2> QED BY <2>1, <2>2 DEF Follows
<1>2. h[Levels] = g[c]
  BY Constants
<1> HIDE DEF h
<1>3. \A d \in 0 .. Levels : Trail(m, q)[d] = h[d]
  BY <1>1, OneTrail
<1> QED BY <1>2, <1>3, Constants

(* The tables on the path are those on the trail of the current page.       *)
LEMMA PathIsTrail ==
    ASSUME NEW lev \in Places, NEW pre \in TableKeys, PInv(lev, pre), Current \in Page,
           NEW k \in 1 .. Len(path), stage # "release" \/ k < Len(path)
    PROVE  Trail(mem, Current)[k - 1] = path[k]
<1> DEFINE g == Trail(mem, Current)
           last == IF stage = "release" THEN Len(path) - 1 ELSE Len(path)
           S == {n \in Nat : n + 1 \in 1 .. last => g[n] = path[n + 1]}
<1>1. /\ mem \in Memory /\ Current \in Nat /\ path[1] = Root /\ Len(path) \in 1 .. Levels
      /\ last \in Nat /\ last <= Len(path)
  BY PathFacts, Constants DEF PInv, TypeOK, Memory, Stored
<1>2. Follows(g, mem, Current)
  BY <1>1, TrailIs
<1> HIDE DEF g
<1>3. ASSUME NEW n \in Nat, (n + 1) + 1 \in 1 .. last, g[n] = path[n + 1]
      PROVE  g[n + 1] = path[(n + 1) + 1]
  <2>0. PICK k2 : k2 = (n + 1) + 1
    OBVIOUS
  <2> HIDE DEF S, last
  <2>a. k2 \in Int /\ 1 <= k2 /\ k2 <= last /\ k2 = n + 2
    BY <1>1, <1>3, <2>0
  <2>b. Len(path) \in Int /\ 1 <= Len(path) /\ Len(path) <= Levels /\ Levels \in Int /\ last \in Int
    BY <1>1, Constants
  <2>c. k2 <= Len(path)
    BY <1>1, <2>a, <2>b
  <2>1. /\ k2 \in 2 .. Len(path) /\ k2 - 1 = n + 1 /\ n + 1 \in 1 .. Len(path)
        /\ n + 1 \in 1 .. Levels /\ (n + 1) - 1 = n
        /\ Levels - k2 + 2 = Levels - (n + 1) + 1
    BY <2>a, <2>b, <2>c
  <2>2. ~(stage = "release" /\ k2 = Len(path))
    BY <2>a, <2>b DEF last
  <2>3. mem[path[k2 - 1]][Virt2Index(Current, Levels - k2 + 2)] = path[k2]
    BY <2>1, <2>2 DEF PInv, OnPath
  <2>4. path[n + 1] \in Table
    BY <2>1, PathPlaces DEF Used
  <2>5. g[n + 1] = IF g[n] \in Table THEN mem[g[n]][Virt2Index(Current, Levels - (n + 1) + 1)] ELSE g[n]
    BY <1>2, <2>1 DEF Follows
  <2> QED BY <1>3, <2>0, <2>1, <2>3, <2>4, <2>5
<1>4. Inductive(S)
  <2>1. 0 \in S
    BY <1>1, <1>2 DEF Follows
  <2>2. ASSUME NEW n \in Nat, n \in S PROVE n + 1 \in S
    <3> SUFFICES ASSUME (n + 1) + 1 \in 1 .. last PROVE g[n + 1] = path[(n + 1) + 1]
      OBVIOUS
    <3>1. n + 1 \in 1 .. last
      BY <1>1
    <3>2. g[n] = path[n + 1]
      BY <2>2, <3>1
    <3> HIDE DEF last
    <3> QED BY <1>3, <3>2
  <2> HIDE DEF S
  <2> QED BY <2>1, <2>2, Zenon DEF Inductive
<1>5. Nat \subseteq S
  <2> HIDE DEF S
  <2> QED BY <1>4, LevelInduction
<1>6. k - 1 \in Nat /\ (k - 1) + 1 = k /\ k \in 1 .. last
  BY <1>1
<1>7. k - 1 \in S
  <2> HIDE DEF S
  <2> QED BY <1>5, <1>6
<1> QED BY <1>6, <1>7 DEF g

-----------------------------------------------------------------------------
(* What a store into the tables does to the translation of a page. *)

LEMMA Machine ==
    ASSUME NEW lev \in Places, NEW pre \in TableKeys, PInv(lev, pre)
    PROVE  mem \in Memory /\ (\A t \in Live : t \in Used /\ t \in Table) /\ Used \subseteq Table
BY Entries DEF PInv, TypeOK, TablesInv, Memory, Stored, Live, Linked, Used

(* Nothing, when it is into a table the hardware cannot reach.              *)
LEMMA StoreUnseen ==
    ASSUME NEW lev \in Places, NEW pre \in TableKeys, PInv(lev, pre),
           NEW m2 \in Memory, \A t \in Live, i \in Index : m2[t][i] = mem[t][i], NEW q \in Page
    PROVE  Trail(m2, q)[Levels] = Trail(mem, q)[Levels]
<1> SUFFICES ASSUME NEW d \in 0 .. Levels - 1, NEW t, NEW i,
                    t = Trail(mem, q)[d], i = Virt2Index(q, Levels - d), t \in Table
             PROVE  m2[t][i] = mem[t][i]
  BY Machine, SameTrail, Constants
<1>1. d \in 0 .. Levels /\ Levels - d \in 1 .. Levels /\ q \in Nat
  BY Constants
<1>2. t \in Live
  BY <1>1, TrailPlaced
<1>3. i \in Index
  BY <1>1, Digit
<1> QED BY <1>2, <1>3

(* Nothing, when it is into an entry that is not on its trail: a table is   *)
(* on a trail at one depth.                                                 *)
LEMMA StoreElsewhere ==
    ASSUME NEW lev \in Places, NEW pre \in TableKeys, PInv(lev, pre),
           NEW t \in Table, NEW idx \in Index, NEW q \in Page,
           ~(Trail(mem, q)[Levels - lev[t]] = t /\ Virt2Index(q, lev[t]) = idx),
           NEW m2 \in Memory,
           \A u \in Table, j \in Index : ~(u = t /\ j = idx) => m2[u][j] = mem[u][j]
    PROVE  Trail(m2, q)[Levels] = Trail(mem, q)[Levels]
<1> SUFFICES ASSUME NEW d \in 0 .. Levels - 1, NEW u, NEW j,
                    u = Trail(mem, q)[d], j = Virt2Index(q, Levels - d), u \in Table
             PROVE  m2[u][j] = mem[u][j]
  BY Machine, SameTrail, Constants
<1>1. d \in 0 .. Levels /\ Levels - d \in 1 .. Levels /\ q \in Nat /\ d = Levels - (Levels - d)
  BY Constants
<1>2. lev[u] = Levels - d
  BY <1>1, TrailPlaced
<1>3. j \in Index
  BY <1>1, Digit
<1> QED BY <1>1, <1>2, <1>3

(* On its trail, the page is translated to what was stored there, or to     *)
(* nothing when that is a table with no entry for it.                       *)
LEMMA StoreHere ==
    ASSUME NEW lev \in Places, NEW pre \in TableKeys, PInv(lev, pre),
           NEW t \in Table, NEW idx \in Index, NEW q \in Page,
           Trail(mem, q)[Levels - lev[t]] = t, Virt2Index(q, lev[t]) = idx,
           NEW m2 \in Memory, NEW e, m2[t][idx] = e,
           \A u \in Table, j \in Index : ~(u = t /\ j = idx) => m2[u][j] = mem[u][j]
    PROVE  /\ e \notin Table => Trail(m2, q)[Levels] = e
           /\ e \in Table /\ lev[t] > 1 /\ m2[e][Virt2Index(q, lev[t] - 1)] = Absent
                => Trail(m2, q)[Levels] = Absent
<1> DEFINE g == Trail(mem, q)
<1>1. mem \in Memory /\ q \in Nat /\ lev[t] \in 1 .. Levels
  BY Machine, Constants DEF Places
<1>2. Follows(g, mem, q)
  BY <1>1, TrailIs
<1>3. PICK c : c = Levels - lev[t]
  OBVIOUS
<1>4. c \in 0 .. Levels - 1 /\ Levels - (c + 1) + 1 = lev[t] /\ c + 1 \in 0 .. Levels
  BY <1>1, <1>3, Constants
<1>5. g[c] = t
  BY <1>3
<1>6. ASSUME NEW d \in 0 .. c - 1, g[d] \in Table
      PROVE  m2[g[d]][Virt2Index(q, Levels - d)] = mem[g[d]][Virt2Index(q, Levels - d)]
  <2>1. d \in 0 .. Levels /\ Levels - d \in 1 .. Levels /\ Levels - d # lev[t]
    BY <1>1, <1>3, <1>4, Constants
  <2>2. lev[g[d]] = Levels - d
    BY <1>6, <2>1, TrailPlaced
  <2>3. Virt2Index(q, Levels - d) \in Index
    BY <1>1, <2>1, Digit
  <2> QED BY <1>6, <2>1, <2>2, <2>3
<1> HIDE DEF g
<1>7. PICK h : h = [d \in 0 .. Levels + 1 |-> IF d <= c THEN g[d] ELSE IF d = c + 1 THEN e ELSE Absent]
  OBVIOUS
<1>8. /\ h[0] = Root /\ h[c + 1] = e
      /\ c + 2 <= Levels => h[c + 2] = Absent
  BY <1>2, <1>4, <1>7, Constants DEF Follows
<1>9. ASSUME NEW d \in 1 .. c + 1
      PROVE  h[d] = IF h[d - 1] \in Table THEN m2[h[d - 1]][Virt2Index(q, Levels - d + 1)] ELSE h[d - 1]
  <2>1. CASE d = c + 1
    <3>1. d - 1 = c /\ d - 1 \in 0 .. Levels + 1 /\ d \in 0 .. Levels + 1 /\ Levels - d + 1 = lev[t]
      BY <1>3, <1>4, <2>1, Constants
    <3>2. h[d] = e /\ h[d - 1] = t
      BY <1>5, <1>7, <2>1, <3>1, Constants
    <3> QED BY <3>1, <3>2
  <2>2. CASE d \in 1 .. c
    <3>1. h[d] = g[d] /\ h[d - 1] = g[d - 1]
      BY <1>4, <1>7, <2>2, Constants
    <3>2. d \in 1 .. Levels /\ d - 1 \in 0 .. c - 1 /\ Levels - (d - 1) = Levels - d + 1
      BY <1>4, <2>2, Constants
    <3> QED BY <1>2, <1>6, <3>1, <3>2 DEF Follows
  <2> QED BY <1>4, <2>1, <2>2
<1>10. ASSUME e \notin Table PROVE Trail(m2, q)[Levels] = e
  BY <1>1, <1>4, <1>8, <1>9, <1>10, TrailEnds
<1>11. ASSUME e \in Table, lev[t] > 1, m2[e][Virt2Index(q, lev[t] - 1)] = Absent
       PROVE  Trail(m2, q)[Levels] = Absent
  <2>1. /\ c + 2 \in 0 .. Levels /\ Levels - (c + 2) + 1 = lev[t] - 1
        /\ (c + 2) - 1 = c + 1 /\ \A d \in 1 .. c + 2 : d \in 1 .. c + 1 \/ d = c + 2
    BY <1>1, <1>3, <1>4, <1>11, Constants
  <2>2. h[c + 2] = Absent /\ h[c + 1] = e
    BY <1>8, <2>1
  <2>3. \A d \in 1 .. c + 2 :
           h[d] = IF h[d - 1] \in Table THEN m2[h[d - 1]][Virt2Index(q, Levels - d + 1)] ELSE h[d - 1]
    BY <1>9, <1>11, <2>1, <2>2
  <2>4. h[c + 2] \notin Table
    BY <2>2, Entries
  <2>5. PICK c2 : c2 = c + 2
    OBVIOUS
  <2>6. c2 \in 0 .. Levels /\ h[0] = Root /\ h[c2] \notin Table
    BY <1>8, <2>1, <2>4, <2>5
  <2>7. \A d \in 1 .. c2 :
           h[d] = IF h[d - 1] \in Table THEN m2[h[d - 1]][Virt2Index(q, Levels - d + 1)] ELSE h[d - 1]
    BY <2>3, <2>5
  <2>8. Trail(m2, q)[Levels] = h[c2]
    BY <1>1, <2>6, <2>7, TrailEnds
  <2> QED BY <2>2, <2>5, <2>8
<1> QED BY <1>10, <1>11

LEMMA WalkIs == \A q \in Page : Walk(q) = Trail(mem, q)[Levels] /\ Walk(q)' = Trail(mem', q)[Levels]
BY DEF Walk

(* Clearing a frame and giving one back touch no table in use; the table    *)
(* that is linked or unlinked has no entry.                                 *)
LEMMA TableStores ==
    ASSUME NEW lev \in Places, NEW pre \in TableKeys, PInv(lev, pre), NEW q \in Page,
           ZeroTable \/ ReleaseTable \/ LinkTable \/ UnlinkTable
    PROVE  Trail(mem', q)[Levels] = Trail(mem, q)[Levels]
<1>0. mem \in Memory /\ Used \subseteq Table /\ Live \subseteq Table /\ q \in Nat
  BY Machine, Constants
<1>1. CASE ZeroTable
  <2>1. mem' = [mem EXCEPT ![new] = Cleared] /\ new \in Used \ Live
    BY <1>1 DEF ZeroTable, PInv, StageInv
  <2>2. mem' \in Memory /\ \A t \in Table : t # new => mem'[t] = mem[t]
    BY <1>0, <2>1, Entries DEF Memory, Cleared
  <2> QED BY <1>0, <2>1, <2>2, StoreUnseen
<1>2. CASE ReleaseTable
  <2>1. mem' = [mem EXCEPT ![Here] = Dirty] /\ Here \notin Live /\ Here \in Used
    BY <1>2, PathFacts DEF ReleaseTable, PInv, StageInv
  <2>2. mem' \in Memory /\ \A t \in Table : t # Here => mem'[t] = mem[t]
    BY <1>0, <2>1, Entries DEF Memory, Dirty
  <2> QED BY <1>0, <2>1, <2>2, StoreUnseen
<1>3. CASE LinkTable
  <2>1. PICK idx : idx = Virt2Index(Current, Level) /\ mem' = [mem EXCEPT ![Here][idx] = new]
    BY <1>3 DEF LinkTable, PutPage
  <2>2. /\ Entry = Absent /\ mem[new] = Cleared /\ new \in Frame /\ new \in Used \ Live /\ stage = "link"
        /\ Level > 1
    BY <1>3, Entries DEF LinkTable, PInv, StageInv, TypeOK
  <2>3. Here \in Table /\ lev[Here] = Level /\ Level \in 2 .. Levels /\ idx \in Index /\ mem[Here][idx] = Absent
    BY <1>0, <2>1, <2>2, PathFacts
  <2>4. Here # new
    BY <2>2, PathIsLive, PathFacts, Constants DEF Here
  <2>5. new \in Stored /\ new \in Table
    BY <2>2, Entries DEF Stored
  <2>6. /\ mem' \in Memory
        /\ \A u \in Table, j \in Index : mem'[u][j] = IF u = Here /\ j = idx THEN new ELSE mem[u][j]
    <3>1. /\ [mem EXCEPT ![Here][idx] = new] \in Memory
          /\ \A u \in Table, j \in Index :
                [mem EXCEPT ![Here][idx] = new][u][j] = IF u = Here /\ j = idx THEN new ELSE mem[u][j]
      BY <1>0, <2>3, <2>5, OneEntry
    <3> QED BY <2>1, <3>1
  <2>7. CASE Trail(mem, q)[Levels - lev[Here]] = Here /\ Virt2Index(q, lev[Here]) = idx
    <3>1. Trail(mem, q)[Levels] = Absent
      BY <1>0, <2>3, <2>7, StoreHere, Entries
    <3>2. Virt2Index(q, lev[Here] - 1) \in Index
      <4>1. lev[Here] - 1 \in 1 .. Levels
        BY <2>3, Constants
      <4> QED BY <1>0, <4>1, Digit
    <3>3. mem'[new][Virt2Index(q, lev[Here] - 1)] = Absent
      BY <2>2, <2>4, <2>5, <2>6, <3>2 DEF Cleared
    <3>4. mem'[Here][idx] = new /\ \A u \in Table, j \in Index : ~(u = Here /\ j = idx) => mem'[u][j] = mem[u][j]
      BY <2>3, <2>6
    <3>5. lev[Here] > 1
      BY <2>3, Constants
    <3>6. Trail(mem', q)[Levels] = Absent
      BY <2>3, <2>5, <2>6, <2>7, <3>3, <3>4, <3>5, StoreHere
    <3> QED BY <3>1, <3>6
  <2>8. CASE ~(Trail(mem, q)[Levels - lev[Here]] = Here /\ Virt2Index(q, lev[Here]) = idx)
    BY <2>3, <2>6, <2>8, StoreElsewhere
  <2> QED BY <2>7, <2>8
<1>4. CASE UnlinkTable
  <2>1. PICK parent, idx :
           /\ parent = path[Len(path) - 1] /\ idx = Virt2Index(Current, Level + 1)
           /\ mem' = [mem EXCEPT ![parent][idx] = Absent]
    BY <1>4 DEF UnlinkTable, PutPage
  <2>2. stage = "prune" /\ Len(path) > 1 /\ Empty(Here)
    BY <1>4 DEF UnlinkTable
  <2>3. /\ parent \in Table /\ parent # Here /\ lev[parent] = Level + 1 /\ Level + 1 \in 2 .. Levels
        /\ Here \in Table /\ idx \in Index /\ mem[parent][idx] = Here
    BY <1>0, <2>1, <2>2, ParentFacts, PathFacts
  <2>4. /\ mem' \in Memory
        /\ \A u \in Table, j \in Index : mem'[u][j] = IF u = parent /\ j = idx THEN Absent ELSE mem[u][j]
    <3>1. /\ [mem EXCEPT ![parent][idx] = Absent] \in Memory
          /\ \A u \in Table, j \in Index :
                [mem EXCEPT ![parent][idx] = Absent][u][j] = IF u = parent /\ j = idx THEN Absent ELSE mem[u][j]
      BY <1>0, <2>3, OneEntry, Entries
    <3> QED BY <2>1, <3>1
  <2>5. CASE Trail(mem, q)[Levels - lev[parent]] = parent /\ Virt2Index(q, lev[parent]) = idx
    <3>1. Virt2Index(q, lev[parent] - 1) \in Index
      <4>1. lev[parent] - 1 \in 1 .. Levels
        BY <2>3, Constants
      <4> QED BY <1>0, <4>1, Digit
    <3>2. mem[Here][Virt2Index(q, lev[parent] - 1)] = Absent /\ lev[parent] > 1
      BY <2>2, <2>3, <3>1, Constants DEF Empty
    <3>3. Trail(mem, q)[Levels] = Absent
      BY <1>0, <2>3, <2>5, <3>2, StoreHere
    <3>4. mem'[parent][idx] = Absent /\ \A u \in Table, j \in Index : ~(u = parent /\ j = idx) => mem'[u][j] = mem[u][j]
      BY <2>3, <2>4
    <3>5. Trail(mem', q)[Levels] = Absent
      BY <2>3, <2>4, <2>5, <3>4, StoreHere, Entries
    <3> QED BY <3>3, <3>5
  <2>6. CASE ~(Trail(mem, q)[Levels - lev[parent]] = parent /\ Virt2Index(q, lev[parent]) = idx)
    BY <2>3, <2>4, <2>6, StoreElsewhere
  <2> QED BY <2>5, <2>6
<1> QED BY <1>1, <1>2, <1>3, <1>4

(* A store into the lowest table changes the page at hand and no other.     *)
LEMMA LeafStored ==
    ASSUME NEW lev \in Places, NEW pre \in TableKeys, PInv(lev, pre), NEW q \in Page,
           call # NoCall, call.done < call.size, stage = "walk", Level = 1,
           NEW e \in PhysPage \cup {Absent}, PutPage(Here, Current, 1, e)
    PROVE  Trail(mem', q)[Levels] = IF q = Current THEN e ELSE Trail(mem, q)[Levels]
<1>1. /\ mem \in Memory /\ q \in Nat /\ Current \in Page /\ Current \in Nat
      /\ e \in Stored /\ e \notin Table /\ 1 \in 1 .. Levels
  BY Machine, AtPage, Constants, Entries DEF PInv, Stored
<1>2. PICK idx : idx = Virt2Index(Current, 1) /\ mem' = [mem EXCEPT ![Here][idx] = e]
  BY DEF PutPage
<1>3. Here \in Table /\ lev[Here] = 1 /\ idx \in Index /\ pre[Here] = Current \div Span[1]
  BY <1>1, <1>2, Machine, PathFacts
<1>4. /\ mem' \in Memory
      /\ \A u \in Table, j \in Index : mem'[u][j] = IF u = Here /\ j = idx THEN e ELSE mem[u][j]
  <2>1. /\ [mem EXCEPT ![Here][idx] = e] \in Memory
        /\ \A u \in Table, j \in Index :
              [mem EXCEPT ![Here][idx] = e][u][j] = IF u = Here /\ j = idx THEN e ELSE mem[u][j]
    BY <1>1, <1>3, OneEntry
  <2> QED BY <1>2, <2>1
<1>5. mem'[Here][idx] = e /\ \A u \in Table, j \in Index : ~(u = Here /\ j = idx) => mem'[u][j] = mem[u][j]
  BY <1>3, <1>4
<1>6. CASE q = Current
  <2>1. Len(path) = Levels /\ Len(path) \in 1 .. Len(path) /\ Len(path) - 1 = Levels - 1
    BY PathFacts, Constants DEF Level
  <2>2. Trail(mem, q)[Levels - 1] = Here
    BY <1>1, <1>6, <2>1, PathIsTrail DEF Here
  <2>3. Trail(mem, q)[Levels - lev[Here]] = Here /\ Virt2Index(q, lev[Here]) = idx
    BY <1>2, <1>3, <1>6, <2>2
  <2> QED BY <1>1, <1>3, <1>4, <1>5, <1>6, <2>3, StoreHere
<1>7. CASE q # Current
  <2>1. ASSUME Trail(mem, q)[Levels - lev[Here]] = Here, Virt2Index(q, lev[Here]) = idx PROVE FALSE
    <3>1. Levels - 1 \in 0 .. Levels /\ Levels - (Levels - 1) = 1 /\ Trail(mem, q)[Levels - 1] = Here
      BY <1>3, <2>1, Constants
    <3>2. pre[Here] = q \div Span[1]
      BY <1>3, <3>1, TrailPlaced
    <3>3. q \div Span[0] = Current \div Span[0]
      <4>1. q \div Span[0] = (Radix * (q \div Span[1])) + Virt2Index(q, 1)
        BY <1>1, Digit
      <4>2. Current \div Span[0] = (Radix * (Current \div Span[1])) + Virt2Index(Current, 1)
        BY <1>1, Digit
      <4> QED BY <1>2, <1>3, <2>1, <3>2, <4>1, <4>2
    <3> QED BY <1>1, <1>7, <3>3, SpanIs
  <2> QED BY <1>3, <1>4, <1>5, <1>7, <2>1, StoreElsewhere
<1> QED BY <1>6, <1>7

(* The walk of the current page ends at an absent entry where freePage      *)
(* finds one.                                                               *)
LEMMA AbsentHere ==
    ASSUME NEW lev \in Places, NEW pre \in TableKeys, PInv(lev, pre), Current \in Page,
           stage # "release", Entry = Absent
    PROVE  Trail(mem, Current)[Levels] = Absent
<1>1. Len(path) \in 1 .. Len(path) /\ Len(path) - 1 = Levels - Level
  BY PathFacts, Constants DEF Level
<1>2. Here \in Table /\ lev[Here] = Level /\ mem \in Memory
  BY Machine, PathFacts
<1>3. Trail(mem, Current)[Levels - lev[Here]] = Here
  BY <1>1, <1>2, PathIsTrail DEF Here
<1>4. PICK idx : idx \in Index /\ idx = Virt2Index(Current, Level) /\ mem[Here][idx] = Absent
  BY PathFacts
<1> QED BY <1>2, <1>3, <1>4, StoreHere, Entries

LEMMA EmptyTables == ASSUME Init, NEW q \in Page PROVE Walk(q) = Absent
<1>1. mem \in Memory /\ mem[Root] = Cleared
  <2>1. mem = [t \in Table |-> IF t = Root THEN Cleared ELSE Dirty]
    BY DEF Init
  <2> QED BY <2>1, Entries DEF Memory, Cleared, Dirty
<1>2. q \in Nat /\ 1 \in 0 .. Levels /\ Levels \in 1 .. Levels /\ Levels - 1 + 1 = Levels
  BY Constants
<1>3. Virt2Index(q, Levels) \in Index
  BY <1>2, Digit
<1>4. PICK g : g = [d \in 0 .. 1 |-> IF d = 0 THEN Root ELSE Absent]
  OBVIOUS
<1>5. g[0] = Root /\ g[1] = Absent /\ g[1] \notin Table
  BY <1>4, Entries
<1>6. \A d \in 1 .. 1 : g[d] = IF g[d - 1] \in Table
                               THEN mem[g[d - 1]][Virt2Index(q, Levels - d + 1)] ELSE g[d - 1]
  BY <1>1, <1>2, <1>3, <1>5, Entries DEF Cleared
<1> QED BY <1>1, <1>2, <1>5, <1>6, TrailEnds DEF Walk

(* Every step of the tables is a step of the address space they stand for,  *)
(* or none.                                                                 *)
LEMMA StepIsSpaceStep ==
    ASSUME NEW lev \in Places, NEW pre \in TableKeys, PInv(lev, pre), [Next]_vars
    PROVE  [Space!Next]_(Space!spaceVars)
<1> DEFINE map == [p \in Page |-> Walk(p)]
<1>0. /\ map = [p \in Page |-> Trail(mem, p)[Levels]]
      /\ map' = [p \in Page |-> Trail(mem', p)[Levels]]
  BY DEF Walk
<1>1. CASE UNCHANGED vars
  BY <1>0, <1>1 DEF vars, Space!spaceVars
<1>2. CASE \E first \in Page, size, physSize \in Sizes, phys \in PhysPage :
              MapRange(first, size, phys, physSize)
  <2>1. PICK first \in Page, size \in Sizes, physSize \in Sizes, phys \in PhysPage :
            MapRange(first, size, phys, physSize)
    BY <1>2
  <2>2. map' = map
    BY <1>0, <2>1 DEF MapRange
  <2> HIDE DEF map
  <2>3. Space!MapRange(first, size, phys, physSize)
    BY <2>1, <2>2 DEF MapRange, Space!MapRange, Space!NoCall, NoCall, Space!Within, Within,
                      Space!Call, Call, map
  <2> QED BY <2>3 DEF Space!Next
<1>3. CASE \E first \in Page, size \in Sizes : Free(first, size)
  <2>1. PICK first \in Page, size \in Sizes : Free(first, size)
    BY <1>3
  <2>2. map' = map
    BY <1>0, <2>1 DEF Free
  <2> HIDE DEF map
  <2>3. Space!Free(first, size)
    BY <2>1, <2>2 DEF Free, Space!Free, Space!NoCall, NoCall, Space!Within, Within,
                      Space!Call, Call, map
  <2> QED BY <2>3 DEF Space!Next
<1>4. CASE Step
  <2>1. CASE Descend \/ KeepTable \/ \E frame \in free : AllocTable(frame)
    <3>1. UNCHANGED <<mem, call, result>>
      BY <2>1 DEF Descend, KeepTable, AllocTable
    <3> QED BY <1>0, <3>1 DEF Space!spaceVars
  <2>2. CASE ZeroTable \/ ReleaseTable \/ LinkTable \/ UnlinkTable
    <3>1. UNCHANGED <<call, result>>
      BY <2>2 DEF ZeroTable, ReleaseTable, LinkTable, UnlinkTable
    <3>2. map' = map
      <4>1. \A p \in Page : Trail(mem', p)[Levels] = Trail(mem, p)[Levels]
        BY <2>2, TableStores
      <4> QED BY <1>0, <4>1
    <3> QED BY <3>1, <3>2 DEF Space!spaceVars
  <2>3. CASE PutLeaf
    <3>1. /\ call.op = "map" /\ call # NoCall /\ call.done < call.size /\ stage = "walk" /\ Level = 1
          /\ PutPage(Here, Current, 1, call.phys + call.done)
          /\ call' = [call EXCEPT !.done = @ + 1] /\ result' = result
      BY <2>3 DEF PutLeaf, Walking, NoCall
    <3>2. call.phys + call.done \in PhysPage
      <4>1. /\ call.phys .. call.phys + call.size - 1 \subseteq PhysPage
            /\ call.phys \in Nat /\ call.size \in Nat /\ call.done \in Nat
        BY <3>1 DEF PInv, CallInv, Within
      <4> QED BY <3>1, <4>1
    <3>3. \A p \in Page : Trail(mem', p)[Levels] = IF p = Current THEN call.phys + call.done
                                                   ELSE Trail(mem, p)[Levels]
      BY <3>1, <3>2, LeafStored
    <3>4. Current = Space!Current
      BY <3>1 DEF Current, Space!Current, PInv, CallInv
    <3>5. map' = [map EXCEPT ![Space!Current] = call.phys + call.done]
      BY <1>0, <3>3, <3>4
    <3> HIDE DEF map
    <3>6. Space!MapPage
      BY <3>1, <3>5 DEF Space!MapPage, map
    <3> QED BY <3>6 DEF Space!Next
  <2>4. CASE ClearLeaf
    <3>1. /\ call.op = "free" /\ call # NoCall /\ call.done < call.size /\ stage = "walk" /\ Level = 1
          /\ PutPage(Here, Current, 1, Absent)
          /\ call' = [call EXCEPT !.done = @ + 1] /\ result' = result
      BY <2>4 DEF ClearLeaf, Walking, NoCall
    <3>2. \A p \in Page : Trail(mem', p)[Levels] = IF p = Current THEN Absent ELSE Trail(mem, p)[Levels]
      BY <3>1, LeafStored
    <3>3. Current = Space!Current
      BY <3>1 DEF Current, Space!Current, PInv, CallInv
    <3>4. map' = [map EXCEPT ![Space!Current] = Absent]
      BY <1>0, <3>2, <3>3
    <3> HIDE DEF map
    <3>5. Space!FreePage
      BY <3>1, <3>4 DEF Space!FreePage, map
    <3> QED BY <3>5 DEF Space!Next
  <2>5. CASE Return
    <3>1. call # NoCall /\ call.done = call.size /\ call' = NoCall /\ result' = "ok" /\ mem' = mem
      BY <2>5 DEF Return, Finish
    <3>2. map' = map
      BY <1>0, <3>1
    <3> HIDE DEF map
    <3>3. Space!Return
      BY <3>1, <3>2 DEF Space!Return, Space!Finish, Space!NoCall, NoCall, map
    <3> QED BY <3>3 DEF Space!Next
  <2>6. CASE AllocFails \/ NotPresent \/ ReleaseFails
    <3>1. call' = NoCall /\ result' = "error" /\ mem' = mem
      BY <2>6 DEF AllocFails, NotPresent, ReleaseFails, Finish
    <3>2. /\ call # NoCall
          /\ \/ call.op = "map" /\ call.done < call.size
             \/ call.op = "free" /\ call.done < call.size /\ map[Space!Current] = Absent
             \/ call.op = "free" /\ call.done > 0
      <4>1. CASE AllocFails
        BY <4>1 DEF AllocFails, Missing, Walking, NoCall
      <4>2. CASE NotPresent
        <5>1. call.op = "free" /\ call # NoCall /\ call.done < call.size /\ stage = "walk" /\ Entry = Absent
          BY <4>2 DEF NotPresent, Walking, NoCall
        <5>2. Current \in Page /\ Current = Space!Current
          BY <5>1, AtPage DEF Current, Space!Current, PInv, CallInv
        <5>3. Trail(mem, Current)[Levels] = Absent
          BY <5>1, <5>2, AbsentHere
        <5> QED BY <1>0, <5>1, <5>2, <5>3
      <4>3. CASE ReleaseFails
        BY <4>3 DEF ReleaseFails, PInv, StageInv, NoCall
      <4> QED BY <2>6, <4>1, <4>2, <4>3
    <3>3. map' = map
      BY <1>0, <3>1
    <3> HIDE DEF map
    <3>4. Space!Fail
      BY <3>1, <3>2, <3>3 DEF Space!Fail, Space!Finish, Space!NoCall, NoCall, map
    <3> QED BY <3>4 DEF Space!Next
  <2> QED BY <1>4, <2>1, <2>2, <2>3, <2>4, <2>5, <2>6 DEF Step
<1> QED BY <1>1, <1>2, <1>3, <1>4 DEF Next

(* The tables implement the address space: linking and unlinking tables     *)
(* changes no translation, storing a page changes the one at hand, and a    *)
(* walk the hardware makes in between ends as before or as asked.           *)
THEOREM TablesImplementTheSpace == Spec => ImplementsSpace
<1>1. ASSUME Init PROVE Space!Init
  <2>1. [p \in Page |-> Walk(p)] = [p \in Page |-> Absent]
    BY <1>1, EmptyTables
  <2>2. call = NoCall /\ result = "none"
    BY <1>1 DEF Init
  <2> QED BY <2>1, <2>2 DEF Space!Init, Space!NoCall, NoCall
<1>2. ASSUME IInv, [Next]_vars PROVE [Space!Next]_(Space!spaceVars)
  BY <1>2, StepIsSpaceStep DEF IInv
<1> QED BY <1>1, <1>2, IInvAlways, PTL DEF Spec, ImplementsSpace, Space!Spec

-----------------------------------------------------------------------------
(* Between calls, the tables in use are those the mapped pages need. *)

(* A table is on the trail of every page whose prefix it has.               *)
LEMMA Reached ==
    ASSUME NEW lev \in Places, NEW pre \in TableKeys, PInv(lev, pre), NEW q \in Page,
           NEW table \in Live, pre[table] = q \div Span[lev[table]]
    PROVE  Trail(mem, q)[Levels - lev[table]] = table
<1> DEFINE g == Trail(mem, q)
           AtDepth(n) == \A t \in Live : Levels - lev[t] = n /\ pre[t] = q \div Span[lev[t]] => g[n] = t
           S == {n \in Nat : AtDepth(n)}
<1>1. /\ q \in Nat /\ mem \in Memory /\ Live \subseteq Table
      /\ \A t \in Table : lev[t] \in 1 .. Levels /\ pre[t] \in Nat
  BY Machine, Constants DEF Places, TableKeys
<1>2. Follows(g, mem, q)
  BY <1>1, TrailIs
<1> HIDE DEF g
<1>3. AtDepth(0)
  <2> SUFFICES ASSUME NEW t \in Live, Levels - lev[t] = 0, pre[t] = q \div Span[lev[t]] PROVE t = Root
    BY <1>2 DEF Follows
  <2>1. lev[t] = Levels
    BY <1>1, Constants
  <2>2. q \div Span[Levels] = 0
    <3>1. ASSUME NEW n \in Nat \ {0}, NEW p \in 0 .. n - 1 PROVE p \div n = 0
      BY <3>1
    <3>2. Span[Levels] \in Nat \ {0} /\ q \in 0 .. Span[Levels] - 1
      BY SpanIs, Constants, PagesFit
    <3> QED BY <3>1, <3>2
  <2>3. lev[Root] = Levels /\ pre[Root] = 0 /\ Root \in Live
    BY DEF PInv, Placed, Live
  <2> QED BY <2>1, <2>2, <2>3 DEF PInv, Placed
<1>4. ASSUME NEW n \in Nat, AtDepth(n) PROVE AtDepth(n + 1)
  <2> SUFFICES ASSUME NEW t \in Live, Levels - lev[t] = n + 1, pre[t] = q \div Span[lev[t]]
               PROVE  g[n + 1] = t
    OBVIOUS
  <2>1. t # Root
    BY <1>1, Constants DEF PInv, Placed
  <2>2. PICK u \in Used, i \in Index : mem[u][i] = t /\ t \in Frame
    BY <2>1, IsLinked DEF Live
  <2>3. u \in Live /\ lev[t] = lev[u] - 1 /\ pre[t] = (Radix * pre[u]) + i
    BY <2>2, OneLink DEF PInv, Placed
  <2>4. /\ lev[u] = Levels - n /\ lev[u] \in 1 .. Levels /\ pre[u] \in Nat /\ u \in Table
        /\ n + 1 \in 1 .. Levels /\ (n + 1) - 1 = n /\ Levels - (n + 1) + 1 = lev[u]
    BY <1>1, <2>3, Constants
  <2>5. /\ Virt2Index(q, lev[u]) \in Index /\ q \div Span[lev[u]] \in Nat
        /\ q \div Span[lev[u] - 1] = (Radix * (q \div Span[lev[u]])) + Virt2Index(q, lev[u])
    BY <1>1, <2>4, Digit
  <2>6. (Radix * pre[u]) + i = (Radix * (q \div Span[lev[u]])) + Virt2Index(q, lev[u])
    BY <2>3, <2>5
  <2>7. pre[u] = q \div Span[lev[u]] /\ i = Virt2Index(q, lev[u])
    BY <2>4, <2>5, <2>6, OneDigit
  <2>8. Levels - lev[u] = n
    BY <1>1, <2>3, Constants
  <2>9. g[n] = u
    BY <1>4, <2>3, <2>7, <2>8
  <2> QED BY <1>2, <2>2, <2>4, <2>7, <2>9 DEF Follows
<1>5. Inductive(S)
  <2>1. 0 \in S
    BY <1>3
  <2>2. ASSUME NEW n \in Nat, n \in S PROVE n + 1 \in S
    <3> HIDE DEF AtDepth
    <3> QED BY <1>4, <2>2
  <2> HIDE DEF S
  <2> QED BY <2>1, <2>2, Zenon DEF Inductive
<1>6. Levels - lev[table] \in S
  <2>1. Levels - lev[table] \in Nat
    BY <1>1, Constants
  <2> HIDE DEF S
  <2> QED BY <1>5, <2>1, LevelInduction
<1> QED BY <1>6 DEF g

(* The trail of a mapped page goes down to the last level.                  *)
LEMMA MappedTrail ==
    ASSUME NEW lev \in Places, NEW pre \in TableKeys, PInv(lev, pre), NEW q \in Page,
           Trail(mem, q)[Levels] # Absent, NEW depth \in 0 .. Levels - 1
    PROVE  Trail(mem, q)[depth] \in Table
<1> DEFINE g == Trail(mem, q)
           S == {n \in Nat : n \in 0 .. Levels - 1 => g[n] \in Table}
<1>1. q \in Nat /\ mem \in Memory /\ Live \subseteq Table /\ Live \subseteq Used
  BY Machine, Constants
<1>2. Follows(g, mem, q)
  BY <1>1, TrailIs
<1>3. ASSUME NEW n \in Nat, n + 1 \in 0 .. Levels - 1, g[n] \in Table PROVE g[n + 1] \in Table
  <2>1. /\ n \in 0 .. Levels /\ n + 1 \in 1 .. Levels /\ (n + 1) - 1 = n
        /\ Levels - (n + 1) + 1 = Levels - n /\ Levels - n \in 1 .. Levels /\ Levels - n > 1
        /\ Levels - (Levels - n) = n
    BY <1>3, Constants
  <2>2. PICK t, i : t = g[n] /\ i = Virt2Index(q, Levels - n)
    OBVIOUS
  <2>3. t \in Live /\ lev[t] = Levels - n
    BY <1>3, <2>1, <2>2, TrailPlaced
  <2>4. i \in Index
    BY <1>1, <2>1, <2>2, Digit
  <2>5. g[n + 1] = mem[t][i]
    BY <1>2, <1>3, <2>1, <2>2 DEF Follows
  <2>6. mem[t][i] \in Stored /\ t \in Table /\ t \in Used
    BY <1>1, <2>3, <2>4 DEF Memory
  <2>7. mem[t][i] # Garbage
    BY <2>3, <2>4, <2>6, Entries DEF PInv, TablesInv, StageInv, TypeOK
  <2>8. mem[t][i] \notin PhysPage
    BY <2>1, <2>3, <2>4, <2>6 DEF PInv, Placed
  <2>9. mem[t][i] # Absent
    <3> SUFFICES ASSUME mem[t][i] = Absent PROVE FALSE
      OBVIOUS
    <3>1. Trail(mem, q)[Levels - lev[t]] = t /\ Virt2Index(q, lev[t]) = i
      BY <2>1, <2>2, <2>3
    <3> HIDE DEF g
    <3>2. Trail(mem, q)[Levels] = Absent
      BY <1>1, <2>4, <2>6, <3>1, StoreHere, Entries
    <3> QED BY <3>2
  <2> QED BY <2>5, <2>6, <2>7, <2>8, <2>9, Entries DEF Stored
<1> HIDE DEF g
<1>4. Inductive(S)
  <2>1. 0 \in S
    BY <1>2, Entries DEF Follows
  <2>2. ASSUME NEW n \in Nat, n \in S PROVE n + 1 \in S
    <3> SUFFICES ASSUME n + 1 \in 0 .. Levels - 1 PROVE g[n + 1] \in Table
      OBVIOUS
    <3>1. n \in 0 .. Levels - 1
      BY Constants
    <3> QED BY <1>3, <2>2, <3>1
  <2> HIDE DEF S
  <2> QED BY <2>1, <2>2, Zenon DEF Inductive
<1>5. Nat \subseteq S
  <2> HIDE DEF S
  <2> QED BY <1>4, LevelInduction
<1> QED BY <1>5, Constants DEF g

LEMMA Idle ==
    ASSUME NEW lev \in Places, NEW pre \in TableKeys, PInv(lev, pre), call = NoCall
    PROVE  stage = "walk" /\ path = <<Root>> /\ new = NoFrame /\ Here = Root
<1>1. stage = "walk"
  BY DEF PInv, StageInv
<1>2. call.done = call.size
  BY DEF NoCall
<1>3. path = <<Root>> /\ new = NoFrame
  BY <1>1, <1>2 DEF PInv, StageInv
<1> QED BY <1>1, <1>3 DEF Here

(* A page is mapped through every table.                                    *)
LEMMA HasPage ==
    ASSUME NEW lev \in Places, NEW pre \in TableKeys, PInv(lev, pre), call = NoCall, ~spoiled,
           NEW table \in Linked
    PROVE  \E p \in Page : Trail(mem, p)[Levels] # Absent /\ p \div Span[lev[table]] = pre[table]
<1> DEFINE Needs(t) == \E p \in Page : Trail(mem, p)[Levels] # Absent /\ p \div Span[lev[t]] = pre[t]
           AtLevel(n) == \A t \in Linked : lev[t] = n => Needs(t)
           S == {n \in Nat : AtLevel(n)}
<1>1. /\ mem \in Memory /\ \A t \in Linked : t \in Live /\ t \in Table /\ t \in Used /\ t # Root
      /\ \A t \in Table : lev[t] \in 1 .. Levels /\ pre[t] \in Nat
  BY Machine, Entries DEF Places, TableKeys, Linked, Live
<1>2. AtLevel(0)
  BY <1>1, Constants
<1>3. ASSUME NEW n \in Nat, AtLevel(n) PROVE AtLevel(n + 1)
  <2> SUFFICES ASSUME NEW t \in Linked, lev[t] = n + 1 PROVE Needs(t)
    OBVIOUS
  <2> HIDE DEF Needs
  <2>1. t \in Live /\ t \in Table /\ t \in Used /\ lev[t] \in 1 .. Levels /\ pre[t] \in Nat
    BY <1>1
  <2>2. ~Empty(t)
    BY <1>1, Idle DEF PInv, NoneIdle
  <2>3. PICK i \in Index : mem[t][i] # Absent
    BY <2>2 DEF Empty
  <2>4. mem[t][i] \in Stored
    BY <1>1, <2>1 DEF Memory
  <2>5. mem[t][i] # Garbage
    BY <2>1, Idle, Entries DEF PInv, TablesInv
  <2>6. CASE mem[t][i] \in PhysPage
    <3>1. lev[t] = 1 /\ (Radix * pre[t]) + i \in Page
      BY <2>1, <2>6 DEF PInv, Placed
    <3>2. PICK p \in Page : p = (Radix * pre[t]) + i
      BY <3>1
    <3>3. /\ p \in Nat /\ Virt2Index(p, 1) \in Index /\ p \div Span[1] \in Nat
          /\ p \div Span[0] = (Radix * (p \div Span[1])) + Virt2Index(p, 1)
      <4>1. p \in Nat /\ 1 \in 1 .. Levels /\ 1 - 1 = 0
        BY Constants
      <4> QED BY <4>1, Digit
    <3>4. (Radix * pre[t]) + i = (Radix * (p \div Span[1])) + Virt2Index(p, 1)
      <4>1. p \div Span[0] = p
        BY <3>3, SpanIs
      <4> QED BY <3>2, <3>3, <4>1
    <3>5. pre[t] = p \div Span[1] /\ i = Virt2Index(p, 1)
      BY <2>1, <3>3, <3>4, OneDigit
    <3>6. Trail(mem, p)[Levels - lev[t]] = t
      BY <2>1, <3>1, <3>5, Reached
    <3>7. mem[t][i] \notin Table
      BY <2>6, Entries
    <3>8. Trail(mem, p)[Levels] = mem[t][i]
      BY <1>1, <2>1, <3>1, <3>5, <3>6, <3>7, StoreHere
    <3> QED BY <2>3, <3>1, <3>5, <3>8 DEF Needs
  <2>7. CASE mem[t][i] \in Frame
    <3>1. PICK u : u = mem[t][i]
      OBVIOUS
    <3>2. u \in Linked /\ lev[t] > 1 /\ lev[u] = lev[t] - 1 /\ pre[u] = (Radix * pre[t]) + i
      BY <2>1, <2>7, <3>1, IsLinked DEF PInv, Placed
    <3>3. lev[u] = n
      BY <3>2
    <3>4. PICK p \in Page : Trail(mem, p)[Levels] # Absent /\ p \div Span[lev[u]] = pre[u]
      BY <1>3, <3>2, <3>3 DEF Needs
    <3>5. /\ p \in Nat /\ Virt2Index(p, lev[t]) \in Index /\ p \div Span[lev[t]] \in Nat
          /\ p \div Span[lev[t] - 1] = (Radix * (p \div Span[lev[t]])) + Virt2Index(p, lev[t])
      BY <2>1, Constants, Digit
    <3>6. (Radix * pre[t]) + i = (Radix * (p \div Span[lev[t]])) + Virt2Index(p, lev[t])
      BY <3>2, <3>4, <3>5
    <3>7. pre[t] = p \div Span[lev[t]]
      BY <2>1, <3>5, <3>6, OneDigit
    <3> QED BY <3>4, <3>7 DEF Needs
  <2> QED BY <2>3, <2>4, <2>5, <2>6, <2>7 DEF Stored
<1>4. Inductive(S)
  <2>1. 0 \in S
    BY <1>2
  <2>2. ASSUME NEW n \in Nat, n \in S PROVE n + 1 \in S
    <3> HIDE DEF AtLevel
    <3> QED BY <1>3, <2>2
  <2> HIDE DEF S
  <2> QED BY <2>1, <2>2, Zenon DEF Inductive
<1>5. lev[table] \in S
  <2>1. lev[table] \in Nat
    BY <1>1, Constants
  <2> HIDE DEF S
  <2> QED BY <1>4, <2>1, LevelInduction
<1> QED BY <1>5

(* The tables that are needed, one per level and per prefix of a mapped     *)
(* page, are those in use: each is at its place, and every place is taken.  *)
LEMMA UsedIsNeeded ==
    ASSUME NEW lev \in Places, NEW pre \in TableKeys, PInv(lev, pre), call = NoCall, ~spoiled,
           NEW needed,
           \A n : n \in needed <=> \E l \in 1 .. Levels - 1, p \in Page :
                                     Walk(p) # Absent /\ n = <<l, p \div Span[l]>>
    PROVE  Cardinality(Frame \ free) = Cardinality(needed)
<1>1. Frame \ free = Linked
  <2>1. \A t \in Used : t \in Live
    BY Idle, Machine, Entries DEF PInv, NoneLost
  <2> QED BY <2>1, Entries DEF Used, Live, Linked, Table, PInv, TablesInv
<1>2. \A t \in Linked : t \in Live /\ t \in Table /\ t # Root
  BY Entries DEF Live, Linked
<1> DEFINE f == [t \in Linked |-> <<lev[t], pre[t]>>]
<1>3. ASSUME NEW t \in Linked PROVE f[t] \in needed
  <2>1. lev[t] \in 1 .. Levels - 1
    <3>1. PICK u \in Used, i \in Index : mem[u][i] = t /\ t \in Frame
      BY IsLinked
    <3>2. lev[t] = lev[u] - 1 /\ lev[t] \in 1 .. Levels /\ lev[u] \in 1 .. Levels
      BY <1>2, <3>1, Machine DEF PInv, Placed, Places
    <3> QED BY <3>2, Constants
  <2>2. PICK p \in Page : Trail(mem, p)[Levels] # Absent /\ p \div Span[lev[t]] = pre[t]
    BY HasPage
  <2>3. Walk(p) # Absent
    BY <2>2 DEF Walk
  <2>4. f[t] = <<lev[t], p \div Span[lev[t]]>>
    BY <2>2
  <2> HIDE DEF f
  <2> QED BY <2>1, <2>3, <2>4
<1>4. ASSUME NEW t \in Linked, NEW u \in Linked, f[t] = f[u] PROVE t = u
  <2>1. lev[t] = lev[u] /\ pre[t] = pre[u]
    BY <1>4
  <2> QED BY <1>2, <2>1 DEF PInv, Placed
<1>5. ASSUME NEW n \in needed PROVE \E t \in Linked : f[t] = n
  <2>1. PICK l \in 1 .. Levels - 1, p \in Page : Walk(p) # Absent /\ n = <<l, p \div Span[l]>>
    OBVIOUS
  <2>2. Levels - l \in 0 .. Levels - 1 /\ Levels - l \in 0 .. Levels /\ Levels - (Levels - l) = l /\ l # Levels
    BY Constants
  <2>3. PICK t : t = Trail(mem, p)[Levels - l]
    OBVIOUS
  <2>4. t \in Table
    BY <2>1, <2>2, <2>3, MappedTrail DEF Walk
  <2>5. t \in Live /\ lev[t] = l /\ pre[t] = p \div Span[l]
    BY <2>2, <2>3, <2>4, TrailPlaced
  <2>6. t \in Linked
    BY <2>2, <2>5 DEF Live, PInv, Placed
  <2> QED BY <2>1, <2>5, <2>6
<1>6. f \in Bijection(Linked, needed)
  <2>1. f \in [Linked -> needed] /\ DOMAIN f = Linked
    BY <1>3
  <2> HIDE DEF f
  <2>2. f \in Injection(Linked, needed)
    BY <1>4, <2>1 DEF Injection, IsInjective
  <2>3. f \in Surjection(Linked, needed)
    BY <1>5, <2>1 DEF Surjection
  <2> QED BY <2>2, <2>3 DEF Bijection
<1>7. IsFiniteSet(Linked)
  <2>1. Linked \in SUBSET Frame
    BY DEF Linked
  <2> QED BY <2>1, FS_Subset, TablesAssumption
<1>8. ExistsBijection(Linked, needed)
  BY <1>6 DEF ExistsBijection
<1> HIDE DEF f
<1>9. Cardinality(needed) = Cardinality(Linked)
  BY <1>7, <1>8, FS_Bijection
<1> QED BY <1>1, <1>9

(* Between calls the Pmm lacks exactly the tables the mapped pages need, as *)
(* long as no call failed halfway, and no frame is lost but one it refused. *)
THEOREM NoTableLeaks == Spec => []NothingLeaks
<1>1. ASSUME IInv PROVE NothingLeaks
  <2>1. PICK lev \in Places, pre \in TableKeys : PInv(lev, pre)
    BY <1>1 DEF IInv
  <2> DEFINE needed == {<<l, p \div Span[l]>> : l \in 1 .. Levels - 1, p \in {q \in Page : Walk(q) # Absent}}
  <2>2. ASSUME call = NoCall, ~spoiled PROVE Cardinality(Frame \ free) = Cardinality(needed)
    <3>1. \A n : n \in needed <=> \E l \in 1 .. Levels - 1, p \in Page :
                                     Walk(p) # Absent /\ n = <<l, p \div Span[l]>>
      OBVIOUS
    <3> HIDE DEF needed
    <3> QED BY <2>1, <2>2, <3>1, UsedIsNeeded
  <2>3. ASSUME call = NoCall, ~FreeMayFail PROVE Frame \ free = Linked
    <3>1. \A t \in Used : t \in Live
      BY <2>1, <2>3, Idle, Machine, Entries DEF PInv, NoneLost
    <3> QED BY <2>1, <3>1, Entries DEF Used, Live, Linked, Table, PInv, TablesInv
  <2> QED BY <2>2, <2>3 DEF NothingLeaks
<1> QED BY <1>1, IInvAlways, PTL

-----------------------------------------------------------------------------
(* The dump: a log tells of the pages below a bound, and every entry the    *)
(* dump visits moves the bound past the pages it spans.                     *)

IsMapped(p) == p \in Page /\ Walk(p) # Absent
Logs(log, k, p) == p \in log[k].vstart .. log[k].vstart + log[k].size - 1
Follow(range, next) ==
    /\ range.vstart + range.size <= next.vstart
    /\ ~(range.vstart + range.size = next.vstart /\ range.pstart + range.size = next.pstart)

LogRange == [vstart : Nat, pstart : Nat, size : Nat]

Told(log, n) ==
    /\ log \in Seq(LogRange)
    /\ \A k \in 1 .. Len(log) : /\ log[k].size > 0 /\ log[k].vstart + log[k].size <= n
                                /\ Mapped(log[k].vstart, log[k].size, log[k].pstart)
    /\ \A k \in 1 .. Len(log) - 1 : Follow(log[k], log[k + 1])
    /\ \A p \in 0 .. n - 1 : IsMapped(p) <=> \E k \in 1 .. Len(log) : Logs(log, k, p)

LEMMA NoneTold == Told(<<>>, 0)
BY DEF Told

LEMMA ToldPast ==
    ASSUME NEW log, NEW n \in Nat, NEW m \in Nat, n <= m, Told(log, n),
           \A p \in n .. m - 1 : ~IsMapped(p)
    PROVE  Told(log, m)
<1>1. log \in Seq(LogRange) /\ Len(log) \in Nat
      /\ \A k \in 1 .. Len(log) : log[k].vstart \in Nat /\ log[k].size \in Nat
  <2>1. log \in Seq(LogRange) /\ Len(log) \in Nat /\ \A k \in 1 .. Len(log) : log[k] \in LogRange
    BY DEF Told
  <2> QED BY <2>1 DEF LogRange
<1>2. ASSUME NEW p \in 0 .. m - 1
      PROVE  IsMapped(p) <=> \E k \in 1 .. Len(log) : Logs(log, k, p)
  <2>1. CASE p \in 0 .. n - 1
    BY <2>1 DEF Told
  <2>2. CASE p \in n .. m - 1
    <3>1. ~IsMapped(p)
      BY <2>2
    <3>2. \A k \in 1 .. Len(log) : ~Logs(log, k, p)
      BY <1>1, <2>2 DEF Told, Logs
    <3> QED BY <3>1, <3>2
  <2> QED BY <2>1, <2>2
<1>3. \A k \in 1 .. Len(log) : /\ log[k].size > 0 /\ log[k].vstart + log[k].size <= m
                                /\ Mapped(log[k].vstart, log[k].size, log[k].pstart)
  <2> SUFFICES ASSUME NEW k \in 1 .. Len(log)
               PROVE /\ log[k].size > 0 /\ log[k].vstart + log[k].size <= m
                     /\ Mapped(log[k].vstart, log[k].size, log[k].pstart)
    OBVIOUS
  <2>1. /\ log[k].size > 0 /\ log[k].vstart + log[k].size <= n
        /\ Mapped(log[k].vstart, log[k].size, log[k].pstart)
    BY DEF Told
  <2> QED BY <1>1, <2>1
<1>4. \A k \in 1 .. Len(log) - 1 : Follow(log[k], log[k + 1])
  BY DEF Told
<1> QED BY <1>1, <1>2, <1>3, <1>4 DEF Told

(* A page that starts a range.                                              *)
LEMMA ToldApart ==
    ASSUME NEW log, NEW n \in Nat, NEW e \in Nat, Told(log, n), IsMapped(n), Walk(n) = e,
           NEW range, range = [vstart |-> n, pstart |-> e, size |-> 1],
           Len(log) > 0 => Follow(log[Len(log)], range)
    PROVE  Told(Append(log, range), n + 1)
<1>1. PICK more : more = Append(log, range)
  OBVIOUS
<1>2. range \in LogRange /\ range.vstart = n /\ range.pstart = e /\ range.size = 1
  BY DEF LogRange
<1>3. log \in Seq(LogRange) /\ Len(log) \in Nat
  BY DEF Told
<1>4. /\ more \in Seq(LogRange) /\ Len(more) = Len(log) + 1 /\ more[Len(log) + 1] = range
      /\ \A k \in 1 .. Len(log) : more[k] = log[k]
  BY <1>1, <1>2, <1>3
<1>5. \A k \in 1 .. Len(log) : log[k].vstart \in Nat /\ log[k].size \in Nat
  <2>1. \A k \in 1 .. Len(log) : log[k] \in LogRange
    BY <1>3
  <2> QED BY <2>1 DEF LogRange
<1>6. ASSUME NEW k \in 1 .. Len(more)
      PROVE  /\ more[k].size > 0 /\ more[k].vstart + more[k].size <= n + 1
             /\ Mapped(more[k].vstart, more[k].size, more[k].pstart)
  <2>1. CASE k \in 1 .. Len(log)
    <3>1. /\ log[k].size > 0 /\ log[k].vstart + log[k].size <= n
          /\ Mapped(log[k].vstart, log[k].size, log[k].pstart)
      BY <2>1 DEF Told
    <3> QED BY <1>4, <1>5, <2>1, <3>1
  <2>2. CASE k = Len(log) + 1
    <3>1. more[k] = range
      BY <1>4, <2>2
    <3>2. Mapped(n, 1, e)
      <4>1. \A x \in 0 .. 1 - 1 : n + x = n /\ e + x = e
        OBVIOUS
      <4> QED BY <4>1 DEF Mapped
    <3> QED BY <1>2, <3>1, <3>2
  <2> QED BY <1>3, <1>4, <2>1, <2>2
<1>7. ASSUME NEW k \in 1 .. Len(more) - 1 PROVE Follow(more[k], more[k + 1])
  <2>1. CASE k = Len(log)
    <3>1. more[k] = log[Len(log)] /\ more[k + 1] = range /\ Len(log) > 0
      BY <1>3, <1>4, <2>1
    <3> QED BY <3>1
  <2>2. CASE k \in 1 .. Len(log) - 1
    <3>1. more[k] = log[k] /\ more[k + 1] = log[k + 1]
      BY <1>3, <1>4, <2>2
    <3> QED BY <2>2, <3>1 DEF Told
  <2> QED BY <1>3, <1>4, <2>1, <2>2
<1>8. ASSUME NEW p \in 0 .. (n + 1) - 1
      PROVE  IsMapped(p) <=> \E k \in 1 .. Len(more) : Logs(more, k, p)
  <2>1. CASE p = n
    <3>1. Logs(more, Len(log) + 1, p) /\ Len(log) + 1 \in 1 .. Len(more)
      BY <1>2, <1>3, <1>4, <2>1 DEF Logs
    <3> QED BY <2>1, <3>1
  <2>2. CASE p \in 0 .. n - 1
    <3>1. IsMapped(p) <=> \E k \in 1 .. Len(log) : Logs(log, k, p)
      BY <2>2 DEF Told
    <3>2. ~Logs(more, Len(log) + 1, p)
      BY <1>2, <1>4, <2>2 DEF Logs
    <3>3. \A k \in 1 .. Len(log) : Logs(more, k, p) <=> Logs(log, k, p)
      BY <1>4 DEF Logs
    <3>4. \A k : k \in 1 .. Len(more) <=> (k \in 1 .. Len(log) \/ k = Len(log) + 1)
      BY <1>3, <1>4
    <3> QED BY <3>1, <3>2, <3>3, <3>4
  <2> QED BY <2>1, <2>2
<1> QED BY <1>1, <1>4, <1>6, <1>7, <1>8 DEF Told

(* A page that is joined to the last range.                                 *)
LEMMA ToldJoined ==
    ASSUME NEW log, NEW n \in Nat, NEW e \in Nat, Told(log, n), IsMapped(n), Walk(n) = e,
           Len(log) > 0, NEW last \in LogRange, last = log[Len(log)],
           last.vstart + last.size = n, last.pstart + last.size = e,
           NEW more, more \in Seq(LogRange), Len(more) = Len(log),
           \A k \in 1 .. Len(log) - 1 : more[k] = log[k],
           more[Len(log)] = [vstart |-> last.vstart, pstart |-> last.pstart, size |-> last.size + 1]
    PROVE  Told(more, n + 1)
<1>1. log \in Seq(LogRange) /\ Len(log) \in Nat
  BY DEF Told
<1>2. PICK grown : grown = more[Len(log)]
  OBVIOUS
<1>3. /\ last.vstart \in Nat /\ last.pstart \in Nat /\ last.size \in Nat
      /\ grown.vstart = last.vstart /\ grown.pstart = last.pstart /\ grown.size = last.size + 1
  BY <1>2 DEF LogRange
<1>4. \A k \in 1 .. Len(log) : log[k].vstart \in Nat /\ log[k].size \in Nat
  <2>1. \A k \in 1 .. Len(log) : log[k] \in LogRange
    BY <1>1
  <2> QED BY <2>1 DEF LogRange
<1>5. /\ last.size > 0 /\ Mapped(last.vstart, last.size, last.pstart)
  <2>1. Len(log) \in 1 .. Len(log)
    BY <1>1
  <2> QED BY <2>1 DEF Told
<1>6. ASSUME NEW k \in 1 .. Len(more)
      PROVE  /\ more[k].size > 0 /\ more[k].vstart + more[k].size <= n + 1
             /\ Mapped(more[k].vstart, more[k].size, more[k].pstart)
  <2>1. CASE k \in 1 .. Len(log) - 1
    <3>1. /\ log[k].size > 0 /\ log[k].vstart + log[k].size <= n
          /\ Mapped(log[k].vstart, log[k].size, log[k].pstart)
      BY <1>1, <2>1 DEF Told
    <3>2. more[k] = log[k] /\ log[k].vstart \in Nat /\ log[k].size \in Nat
      BY <1>1, <1>4, <2>1
    <3> QED BY <3>1, <3>2
  <2>2. CASE k = Len(log)
    <3>1. more[k] = grown
      BY <1>2, <2>2
    <3>2. Mapped(last.vstart, last.size + 1, last.pstart)
      <4> SUFFICES ASSUME NEW x \in 0 .. (last.size + 1) - 1
                   PROVE  Walk(last.vstart + x) = last.pstart + x
        BY DEF Mapped
      <4>1. CASE x = last.size
        BY <4>1
      <4>2. CASE x \in 0 .. last.size - 1
        BY <1>5, <4>2 DEF Mapped
      <4> QED BY <1>3, <4>1, <4>2
    <3>3. grown.size > 0 /\ grown.vstart + grown.size <= n + 1
      BY <1>3
    <3> QED BY <1>3, <3>1, <3>2, <3>3
  <2> QED BY <1>1, <2>1, <2>2
<1>7. ASSUME NEW k \in 1 .. Len(more) - 1 PROVE Follow(more[k], more[k + 1])
  <2>1. Follow(log[k], log[k + 1]) /\ more[k] = log[k]
    BY DEF Told
  <2>2. CASE k = Len(log) - 1
    <3>1. log[k + 1] = last /\ more[k + 1] = grown
      BY <1>1, <1>2, <2>2
    <3> QED BY <1>3, <2>1, <3>1 DEF Follow
  <2>3. CASE k \in 1 .. Len(log) - 2
    <3>1. more[k + 1] = log[k + 1]
      BY <1>1, <2>3
    <3> QED BY <2>1, <3>1
  <2> QED BY <1>1, <2>2, <2>3
<1>8. ASSUME NEW p \in 0 .. (n + 1) - 1
      PROVE  IsMapped(p) <=> \E k \in 1 .. Len(more) : Logs(more, k, p)
  <2>0. \A k : k \in 1 .. Len(more) <=> (k \in 1 .. Len(log) - 1 \/ k = Len(log))
    BY <1>1
  <2>1. CASE p = n
    <3>1. Logs(more, Len(log), p)
      BY <1>2, <1>3, <2>1 DEF Logs
    <3> QED BY <2>0, <2>1, <3>1
  <2>2. CASE p \in 0 .. n - 1
    <3>1. IsMapped(p) <=> \E k \in 1 .. Len(log) : Logs(log, k, p)
      BY <2>2 DEF Told
    <3>2. Logs(more, Len(log), p) <=> Logs(log, Len(log), p)
      <4>1. Logs(more, Len(log), p) <=> p \in last.vstart .. last.vstart + (last.size + 1) - 1
        BY <1>2, <1>3 DEF Logs
      <4>2. Logs(log, Len(log), p) <=> p \in last.vstart .. last.vstart + last.size - 1
        BY DEF Logs
      <4>3. ASSUME NEW a \in Nat, NEW size \in Nat, NEW q \in 0 .. (a + size) - 1
            PROVE  q \in a .. a + (size + 1) - 1 <=> q \in a .. a + size - 1
        OBVIOUS
      <4>4. p \in 0 .. (last.vstart + last.size) - 1
        BY <2>2
      <4> QED BY <1>3, <4>1, <4>2, <4>3, <4>4
    <3>3. \A k \in 1 .. Len(log) - 1 : Logs(more, k, p) <=> Logs(log, k, p)
      BY DEF Logs
    <3> QED BY <2>0, <3>1, <3>2, <3>3
  <2> QED BY <2>1, <2>2
<1> QED BY <1>6, <1>7, <1>8 DEF Told

(* What a context logs once it is told of no page that it can join.         *)
Whole(ctx) == IF ctx.started THEN Logged(ctx).log ELSE ctx.log

Tells(ctx, n) ==
    /\ ctx \in Context
    /\ IF ctx.started THEN ctx.vstart <= ctx.vend ELSE ctx.log = <<>>
    /\ Told(Whole(ctx), n)

LEMMA ContextHas ==
    ASSUME NEW ctx \in Context
    PROVE  /\ ctx.started \in BOOLEAN /\ ctx.vstart \in Nat /\ ctx.vend \in Nat /\ ctx.pstart \in Nat
           /\ ctx.log \in Seq(LogRange) /\ Len(ctx.log) \in Nat
<1>1. ctx.log \in Seq(LogRange)
  BY DEF Context, LogRange
<1> QED BY <1>1 DEF Context

LEMMA WholeIs ==
    ASSUME NEW ctx \in Context, ctx.started, ctx.vstart <= ctx.vend
    PROVE  \E range \in LogRange :
              /\ range.vstart = ctx.vstart /\ range.pstart = ctx.pstart
              /\ range.vstart + range.size = ctx.vend + 1
              /\ range.pstart + range.size = PhysEnd(ctx) + 1
              /\ range = [vstart |-> ctx.vstart, pstart |-> ctx.pstart, size |-> ctx.vend + 1 - ctx.vstart]
              /\ Whole(ctx) = Append(ctx.log, range)
              /\ Whole(ctx) \in Seq(LogRange) /\ Len(Whole(ctx)) = Len(ctx.log) + 1
              /\ Whole(ctx)[Len(Whole(ctx))] = range
              /\ \A k \in 1 .. Len(ctx.log) : Whole(ctx)[k] = ctx.log[k]
<1>1. PICK range : range = [vstart |-> ctx.vstart, pstart |-> ctx.pstart, size |-> ctx.vend + 1 - ctx.vstart]
  OBVIOUS
<1>2. /\ range \in LogRange /\ range.vstart = ctx.vstart /\ range.pstart = ctx.pstart
      /\ range.size = ctx.vend + 1 - ctx.vstart
  BY <1>1, ContextHas DEF LogRange
<1>3. range.vstart + range.size = ctx.vend + 1 /\ range.pstart + range.size = PhysEnd(ctx) + 1
  BY <1>2, ContextHas DEF PhysEnd
<1>4. Whole(ctx) = Append(ctx.log, range)
  <2>1. Logged(ctx).log = Append(ctx.log, range)
    BY <1>1 DEF Logged, Context
  <2> QED BY <2>1 DEF Whole
<1>5. PICK log : log = Append(ctx.log, range)
  OBVIOUS
<1>6. /\ log \in Seq(LogRange) /\ Len(log) = Len(ctx.log) + 1 /\ log[Len(ctx.log) + 1] = range
      /\ \A k \in 1 .. Len(ctx.log) : log[k] = ctx.log[k]
  BY <1>2, <1>5, ContextHas
<1> QED BY <1>1, <1>2, <1>3, <1>4, <1>5, <1>6

LEMMA FreshTells == Tells(Fresh, 0)
<1>1. Fresh \in Context /\ ~Fresh.started /\ Fresh.log = <<>>
  BY DEF Fresh, Context
<1> QED BY <1>1, NoneTold DEF Tells, Whole

LEMMA TellsPast ==
    ASSUME NEW ctx, NEW n \in Nat, NEW m \in Nat, n <= m, Tells(ctx, n),
           \A p \in n .. m - 1 : ~IsMapped(p)
    PROVE  Tells(ctx, m)
<1>1. Told(Whole(ctx), n)
  BY DEF Tells
<1>2. Told(Whole(ctx), m)
  BY <1>1, ToldPast
<1> QED BY <1>2 DEF Tells

(* Context::next of the page at the bound.                                  *)
LEMMA StartedTells ==
    ASSUME NEW ctx \in Context, NEW n \in Nat, NEW e \in Nat, IsMapped(n), Walk(n) = e,
           Told(ctx.log, n), NEW page, page = [vaddr |-> n, paddr |-> e],
           NEW range, range = [vstart |-> n, pstart |-> e, size |-> 1],
           Len(ctx.log) > 0 => Follow(ctx.log[Len(ctx.log)], range)
    PROVE  Tells(Started(ctx, page), n + 1)
<1>1. PICK next : next = Started(ctx, page)
  OBVIOUS
<1>2. /\ next.started /\ next.vstart = n /\ next.vend = n /\ next.pstart = e /\ next.log = ctx.log
      /\ next = [started |-> TRUE, vstart |-> n, vend |-> n, pstart |-> e, log |-> ctx.log]
  BY <1>1 DEF Started
<1>3. next \in Context
  BY <1>2, ContextHas DEF Context, LogRange
<1>4. PICK r \in LogRange :
          /\ r = [vstart |-> next.vstart, pstart |-> next.pstart, size |-> next.vend + 1 - next.vstart]
          /\ Whole(next) = Append(next.log, r)
  <2>1. next.vstart <= next.vend
    BY <1>2
  <2> QED BY <1>2, <1>3, <2>1, WholeIs
<1>5. r = range
  <2>1. next.vend + 1 - next.vstart = 1
    BY <1>2
  <2> QED BY <1>2, <1>4, <2>1
<1>6. Told(Whole(next), n + 1)
  <2>1. Told(Append(ctx.log, range), n + 1)
    BY <1>2, ToldApart
  <2> QED BY <1>2, <1>4, <1>5, <2>1
<1>7. next.vstart <= next.vend
  BY <1>2
<1> QED BY <1>1, <1>2, <1>3, <1>6, <1>7 DEF Tells

LEMMA NextTells ==
    ASSUME NEW ctx, NEW n \in Nat, NEW e \in Nat, Tells(ctx, n), IsMapped(n), Walk(n) = e,
           NEW page, page = [vaddr |-> n, paddr |-> e]
    PROVE  Tells(NextPage(ctx, page), n + 1)
<1>0. page.vaddr = n /\ page.paddr = e
  OBVIOUS
<1>1. ctx \in Context /\ Told(Whole(ctx), n) /\ ctx.started \in BOOLEAN
  BY ContextHas DEF Tells
<1>2. PICK range : range = [vstart |-> n, pstart |-> e, size |-> 1]
  OBVIOUS
<1>3. CASE ~ctx.started
  <2>1. NextPage(ctx, page) = Started(ctx, page)
    BY <1>3 DEF NextPage
  <2>2. ctx.log = <<>> /\ Whole(ctx) = ctx.log
    BY <1>3 DEF Tells, Whole
  <2> QED BY <1>1, <1>2, <2>1, <2>2, StartedTells
<1>4. CASE ctx.started
  <2>1. ctx.vstart <= ctx.vend
    BY <1>4 DEF Tells
  <2>2. PICK last \in LogRange :
              /\ last.vstart = ctx.vstart /\ last.pstart = ctx.pstart
              /\ last.vstart + last.size = ctx.vend + 1
              /\ last.pstart + last.size = PhysEnd(ctx) + 1
              /\ last = [vstart |-> ctx.vstart, pstart |-> ctx.pstart, size |-> ctx.vend + 1 - ctx.vstart]
              /\ Whole(ctx) = Append(ctx.log, last)
              /\ Whole(ctx) \in Seq(LogRange) /\ Len(Whole(ctx)) = Len(ctx.log) + 1
              /\ Whole(ctx)[Len(Whole(ctx))] = last
              /\ \A k \in 1 .. Len(ctx.log) : Whole(ctx)[k] = ctx.log[k]
    BY <1>1, <1>4, <2>1, WholeIs
  <2>3. PICK log : log = Whole(ctx)
    OBVIOUS
  <2>4. /\ ctx.vend + 1 <= n /\ Len(log) > 0
        /\ log = Append(ctx.log, last) /\ log[Len(log)] = last /\ Len(log) = Len(ctx.log) + 1
    <3>1. Len(log) \in 1 .. Len(log) /\ Len(log) > 0
      BY <1>1, <2>2, <2>3, ContextHas
    <3>2. log[Len(log)].vstart + log[Len(log)].size <= n
      BY <1>1, <2>3, <3>1 DEF Told
    <3> QED BY <2>2, <2>3, <3>1, <3>2
  <2>5. CASE ctx.vend + 1 # n \/ PhysEnd(ctx) + 1 # e
    <3>1. PICK logged : logged = Logged(ctx)
      OBVIOUS
    <3>2. logged \in Context /\ logged.log = log
      <4>1. logged.log = log
        BY <1>4, <2>3, <3>1 DEF Whole
      <4>2. logged = [ctx EXCEPT !.log = log]
        BY <3>1, <4>1, <1>1 DEF Logged, Context
      <4>3. log \in Seq(LogRange)
        BY <2>2, <2>3
      <4> QED BY <1>1, <4>1, <4>2, <4>3 DEF Context, LogRange
    <3>3. NextPage(ctx, page) = Started(logged, page)
      BY <1>0, <1>4, <2>5, <3>1 DEF NextPage
    <3>4. Follow(last, range)
      <4>1. range.vstart = n /\ range.pstart = e
        BY <1>2
      <4>2. last.vstart + last.size <= n
        BY <2>2, <2>4
      <4>3. ~(last.vstart + last.size = n /\ last.pstart + last.size = e)
        BY <2>2, <2>5
      <4> QED BY <4>1, <4>2, <4>3 DEF Follow
    <3> QED BY <1>1, <1>2, <2>3, <2>4, <3>2, <3>3, <3>4, StartedTells
  <2>6. CASE ctx.vend + 1 = n /\ PhysEnd(ctx) + 1 = e
    <3>1. PICK next : next = [ctx EXCEPT !.vend = @ + 1]
      OBVIOUS
    <3>2. NextPage(ctx, page) = next
      BY <1>0, <1>4, <2>6, <3>1 DEF NextPage
    <3>3. /\ next \in Context /\ next.started /\ next.vstart = ctx.vstart /\ next.vend = ctx.vend + 1
          /\ next.pstart = ctx.pstart /\ next.log = ctx.log /\ next.vstart <= next.vend
      <4>1. ctx.vend + 1 \in Nat /\ ctx.vstart <= ctx.vend + 1
        BY <1>1, <2>1, ContextHas
      <4>2. PICK vend \in Nat : vend = ctx.vend + 1
        BY <4>1
      <4>3. next = [ctx EXCEPT !.vend = vend]
        BY <3>1, <4>2
      <4>4. /\ next \in Context /\ next.started = ctx.started /\ next.vstart = ctx.vstart /\ next.vend = vend
            /\ next.pstart = ctx.pstart /\ next.log = ctx.log
        BY <1>1, <4>3 DEF Context
      <4> QED BY <1>4, <4>1, <4>2, <4>4
    <3>4. PICK grown \in LogRange :
              /\ grown = [vstart |-> next.vstart, pstart |-> next.pstart, size |-> next.vend + 1 - next.vstart]
              /\ Whole(next) \in Seq(LogRange) /\ Len(Whole(next)) = Len(next.log) + 1
              /\ Whole(next)[Len(Whole(next))] = grown
              /\ \A k \in 1 .. Len(next.log) : Whole(next)[k] = next.log[k]
      BY <3>3, WholeIs
    <3>5. PICK more : more = Whole(next)
      OBVIOUS
    <3>6. grown = [vstart |-> last.vstart, pstart |-> last.pstart, size |-> last.size + 1]
      <4>1. next.vend + 1 - next.vstart = last.size + 1
        BY <1>1, <2>2, <3>3, ContextHas DEF LogRange
      <4> QED BY <2>2, <3>3, <3>4, <4>1
    <3>7. /\ more \in Seq(LogRange) /\ Len(more) = Len(log) /\ more[Len(log)] = grown
          /\ \A k \in 1 .. Len(log) - 1 : more[k] = log[k]
      <4>1. Len(log) - 1 = Len(ctx.log) /\ Len(ctx.log) \in Nat
        BY <1>1, <2>4, ContextHas
      <4> QED BY <2>2, <2>3, <2>4, <3>3, <3>4, <3>5, <4>1
    <3>8. last.vstart + last.size = n /\ last.pstart + last.size = e
      BY <2>2, <2>6
    <3>9. Told(more, n + 1)
      <4>1. Told(log, n)
        BY <1>1, <2>3
      <4> QED BY <2>2, <2>4, <3>6, <3>7, <3>8, <4>1, ToldJoined
    <3> QED BY <3>2, <3>3, <3>5, <3>9 DEF Tells
  <2> QED BY <2>5, <2>6
<1> QED BY <1>1, <1>3, <1>4

(* The call of next for page 0 logs what is left.                           *)
LEMMA LastNext ==
    ASSUME NEW ctx, NEW n, Tells(ctx, n)
    PROVE  NextPage(ctx, [vaddr |-> 0, paddr |-> 0]).log = Whole(ctx)
<1>1. PICK page : page = [vaddr |-> 0, paddr |-> 0]
  OBVIOUS
<1>2. ctx \in Context /\ ctx.vend \in Nat /\ page.vaddr = 0
  BY <1>1, ContextHas DEF Tells
<1>3. CASE ~ctx.started
  <2>1. NextPage(ctx, page).log = ctx.log
    BY <1>3 DEF NextPage, Started
  <2> QED BY <1>1, <1>3, <2>1 DEF Whole
<1>4. CASE ctx.started
  <2>1. ctx.vend + 1 # page.vaddr
    BY <1>2
  <2>2. NextPage(ctx, page).log = Logged(ctx).log
    BY <1>4, <2>1 DEF NextPage, Started
  <2> QED BY <1>1, <1>4, <2>2 DEF Whole
<1> QED BY <1>3, <1>4

(* What the loop over the entries of a table and the recursion over the     *)
(* levels compute.                                                          *)
LEMMA LoopIs ==
    ASSUME NEW lower, NEW level, NEW table, NEW vaddr, NEW ctx
    PROVE  \E f : /\ f[0] = ctx
                  /\ \A i \in 1 .. Radix : f[i] = DumpEntry(lower, level, table, vaddr, i - 1, f[i - 1])
                  /\ DumpTable(lower, level, table, vaddr, ctx) = f[Radix]
<1> DEFINE Turn(i, c) == DumpEntry(lower, level, table, vaddr, i - 1, c)
           Loops(f, n) == f = [i \in 0 .. n |-> IF i = 0 THEN ctx ELSE Turn(i, f[i - 1])]
           S == {n \in Nat : \E f : Loops(f, n)}
<1> HIDE DEF Turn
<1>1. 0 \in S
  <2>1. Loops([i \in 0 .. 0 |-> ctx], 0)
    OBVIOUS
  <2> QED BY <2>1
<1>2. ASSUME NEW n \in Nat, n \in S PROVE n + 1 \in S
  <2>1. PICK f : Loops(f, n)
    BY <1>2
  <2> DEFINE g == [i \in 0 .. n + 1 |-> IF i = n + 1 THEN Turn(n + 1, f[n]) ELSE f[i]]
  <2>2. \A i \in 0 .. n + 1 : g[i] = IF i = 0 THEN ctx ELSE Turn(i, g[i - 1])
    <3>1. ASSUME NEW i \in 0 .. n + 1 PROVE g[i] = IF i = 0 THEN ctx ELSE Turn(i, g[i - 1])
      <4>1. CASE i = 0
        BY <2>1, <4>1
      <4>2. CASE i \in 1 .. n
        <5>1. g[i] = f[i] /\ g[i - 1] = f[i - 1] /\ i \in 0 .. n /\ i # 0
          BY <4>2
        <5>2. f[i] = Turn(i, f[i - 1])
          BY <2>1, <5>1
        <5> QED BY <5>1, <5>2
      <4>3. CASE i = n + 1
        BY <4>3
      <4> QED BY <4>1, <4>2, <4>3
    <3> HIDE DEF g
    <3> QED BY <3>1
  <2>3. Loops(g, n + 1)
    <3>1. g = [i \in 0 .. n + 1 |-> g[i]]
      OBVIOUS
    <3> HIDE DEF g
    <3> QED BY <2>2, <3>1
  <2>4. Loops(g, n + 1) /\ n + 1 \in Nat
    BY <2>3
  <2> QED BY <2>4, Zenon
<1>3. Radix \in S
  <2>1. Inductive(S)
    <3> HIDE DEF S
    <3> QED BY <1>1, <1>2, Zenon DEF Inductive
  <2> HIDE DEF S
  <2> QED BY <2>1, LevelInduction, Constants
<1>4. PICK f : Loops(f, Radix)
  BY <1>3
<1> DEFINE at == CHOOSE g : Loops(g, Radix)
<1>5. Loops(at, Radix)
  BY <1>4
<1>6. DumpTable(lower, level, table, vaddr, ctx) = at[Radix]
  BY DEF DumpTable, Turn
<1> HIDE DEF at
<1>7. at[0] = ctx /\ \A i \in 1 .. Radix : at[i] = Turn(i, at[i - 1])
  <2>1. \A i \in 0 .. Radix : at[i] = IF i = 0 THEN ctx ELSE Turn(i, at[i - 1])
    BY <1>5
  <2> QED BY <2>1, Constants
<1> QED BY <1>6, <1>7 DEF Turn

PmlOf(lower, level) ==
    [table \in Table |-> [vaddr \in Nat |-> [ctx \in Context |->
        IF level = 0 THEN ctx ELSE DumpTable(lower, level, table, vaddr, ctx)]]]

LEMMA PmlIs == \A level \in 0 .. Levels : DumpPml[level] = PmlOf(DumpPml[level - 1], level)
<1> DEFINE Loops(f, n) == f = [l \in 0 .. n |-> PmlOf(f[l - 1], l)]
           S == {n \in Nat : \E f : Loops(f, n)}
<1>0. \A lower, other : PmlOf(lower, 0) = PmlOf(other, 0)
  BY DEF PmlOf
<1>1. 0 \in S
  <2> DEFINE f == [l \in 0 .. 0 |-> PmlOf(0, 0)]
  <2>1. Loops(f, 0)
    <3>1. \A l \in 0 .. 0 : PmlOf(f[l - 1], l) = PmlOf(0, 0)
      <4>1. PmlOf(f[0 - 1], 0) = PmlOf(0, 0)
        BY <1>0, Zenon
      <4> HIDE DEF f
      <4> QED BY <4>1
    <3> QED BY <3>1
  <2> QED BY <2>1
<1>2. ASSUME NEW n \in Nat, n \in S PROVE n + 1 \in S
  <2>1. PICK f : Loops(f, n)
    BY <1>2
  <2> DEFINE g == [l \in 0 .. n + 1 |-> IF l = n + 1 THEN PmlOf(f[n], n + 1) ELSE f[l]]
  <2>2. \A l \in 0 .. n + 1 : g[l] = PmlOf(g[l - 1], l)
    <3>1. ASSUME NEW l \in 0 .. n + 1 PROVE g[l] = PmlOf(g[l - 1], l)
      <4>1. CASE l = 0
        <5>1. g[0] = f[0] /\ f[0] = PmlOf(f[0 - 1], 0)
          BY <2>1
        <5> HIDE DEF g
        <5>2. PmlOf(f[0 - 1], 0) = PmlOf(g[0 - 1], 0)
          BY <1>0, Zenon
        <5> QED BY <4>1, <5>1, <5>2
      <4>2. CASE l \in 1 .. n
        <5>1. g[l] = f[l] /\ g[l - 1] = f[l - 1] /\ l \in 0 .. n
          BY <4>2
        <5>2. f[l] = PmlOf(f[l - 1], l)
          BY <2>1, <5>1
        <5> QED BY <5>1, <5>2
      <4>3. CASE l = n + 1
        BY <4>3
      <4> QED BY <4>1, <4>2, <4>3
    <3> HIDE DEF g
    <3> QED BY <3>1
  <2>3. Loops(g, n + 1)
    <3>1. g = [l \in 0 .. n + 1 |-> g[l]]
      OBVIOUS
    <3> HIDE DEF g
    <3> QED BY <2>2, <3>1
  <2>4. Loops(g, n + 1) /\ n + 1 \in Nat
    BY <2>3
  <2> QED BY <2>4, Zenon
<1>3. Levels \in S
  <2>1. Inductive(S)
    <3> HIDE DEF S
    <3> QED BY <1>1, <1>2, Zenon DEF Inductive
  <2> HIDE DEF S
  <2> QED BY <2>1, LevelInduction, Constants
<1>4. PICK f : Loops(f, Levels)
  BY <1>3
<1> DEFINE at == CHOOSE g : Loops(g, Levels)
<1>5. Loops(at, Levels)
  BY <1>4
<1>6. DumpPml = at
  BY DEF DumpPml, PmlOf
<1> HIDE DEF at
<1> QED BY <1>5, <1>6

(* An entry that leads to no table is what the pages it spans are mapped to. *)
LEMMA EntryIs ==
    ASSUME NEW lev \in Places, NEW pre \in TableKeys, PInv(lev, pre), NEW table \in Live,
           NEW i \in Index, NEW p \in Page, p \div Span[lev[table] - 1] = (Radix * pre[table]) + i,
           mem[table][i] \notin Table
    PROVE  Walk(p) = mem[table][i]
<1>1. mem \in Memory /\ p \in Nat /\ table \in Table /\ lev[table] \in 1 .. Levels /\ pre[table] \in Nat
  BY Machine, Constants DEF Places, TableKeys
<1>2. /\ Virt2Index(p, lev[table]) \in Index /\ p \div Span[lev[table]] \in Nat
      /\ p \div Span[lev[table] - 1] = (Radix * (p \div Span[lev[table]])) + Virt2Index(p, lev[table])
  BY <1>1, Digit
<1>3. pre[table] = p \div Span[lev[table]] /\ i = Virt2Index(p, lev[table])
  BY <1>1, <1>2, OneDigit
<1>4. Trail(mem, p)[Levels - lev[table]] = table
  BY <1>3, Reached
<1>5. Trail(mem, p)[Levels] = mem[table][i]
  BY <1>1, <1>3, <1>4, StoreHere
<1> QED BY <1>5 DEF Walk

(* Where the pages of table begin.                                          *)
First(pre, table, level) == pre[table] * Span[level]
FirstOf(pre, table, level, i) == ((Radix * pre[table]) + i) * Span[level - 1]

LowerTells(lev, pre, level) ==
    \A table \in Live : \A ctx :
        lev[table] = level /\ Tells(ctx, First(pre, table, level))
            => Tells(DumpPml[level][table][First(pre, table, level)][ctx], First(pre, table, level) + Span[level])

LEMMA EntryTells ==
    ASSUME NEW lev \in Places, NEW pre \in TableKeys, PInv(lev, pre), NEW level \in 1 .. Levels,
           level > 1 => LowerTells(lev, pre, level - 1),
           NEW table \in Live, lev[table] = level, NEW i \in Index,
           NEW ctx, Tells(ctx, FirstOf(pre, table, level, i))
    PROVE  Tells(DumpEntry(DumpPml[level - 1], level, table, First(pre, table, level), i, ctx),
                 FirstOf(pre, table, level, i + 1))
<1>1. PICK s, k, b, e : /\ s = Span[level - 1] /\ k = pre[table] /\ b = (Radix * pre[table]) + i
                        /\ e = mem[table][i]
  OBVIOUS
<1>2. /\ s \in Nat \ {0} /\ Span[level] = Radix * s /\ k \in Nat /\ b \in Nat /\ i \in Nat
      /\ table \in Table /\ table \in Used /\ mem \in Memory
  <2>1. s \in Nat \ {0} /\ Span[level] = Radix * s
    BY <1>1, SpanIs, Constants
  <2>2. k \in Nat /\ i \in Nat /\ table \in Table /\ table \in Used /\ mem \in Memory
    <3>1. table \in Table /\ table \in Used /\ mem \in Memory
      BY Machine
    <3> QED BY <1>1, <3>1, Constants DEF TableKeys, Index
  <2>3. ASSUME NEW r \in Nat PROVE (r * k) + i \in Nat
    BY <2>2
  <2> QED BY <1>1, <2>1, <2>2, <2>3, Constants
<1>3. PICK n, m : n = FirstOf(pre, table, level, i) /\ m = FirstOf(pre, table, level, i + 1)
  OBVIOUS
<1>4. n \in Nat /\ m = n + s /\ n = b * s /\ n = Index2Virt(i, level) + First(pre, table, level)
  <2>1. n = b * s
    BY <1>1, <1>3 DEF FirstOf
  <2>2. m = (b + 1) * s
    <3>1. (Radix * pre[table]) + (i + 1) = b + 1
      BY <1>1, <1>2, Constants
    <3> QED BY <1>1, <1>3, <3>1 DEF FirstOf
  <2>3. (b + 1) * s = (b * s) + s /\ b * s \in Nat
    BY <1>2
  <2>4. Index2Virt(i, level) + First(pre, table, level) = (i * s) + (k * (Radix * s))
    BY <1>1, <1>2 DEF Index2Virt, First
  <2>5. ASSUME NEW r \in Nat PROVE (i * s) + (k * (r * s)) = ((r * k) + i) * s
    <3>1. k * (r * s) = (r * k) * s /\ r * k \in Nat
      BY <1>2
    <3>2. PICK q \in Nat : q = r * k
      BY <3>1
    <3>3. (i * s) + (q * s) = (q + i) * s
      BY <1>2
    <3> QED BY <3>1, <3>2, <3>3
  <2>6. (i * s) + (k * (Radix * s)) = b * s
    BY <1>1, <2>5, Constants
  <2> QED BY <2>1, <2>2, <2>3, <2>4, <2>6
<1>5. PICK seen : seen = DumpEntry(DumpPml[level - 1], level, table, First(pre, table, level), i, ctx)
  OBVIOUS
<1>6. seen = IF e = Absent THEN ctx
             ELSE IF level = 1 THEN NextPage(ctx, [vaddr |-> n, paddr |-> e])
             ELSE DumpPml[level - 1][e][n][ctx]
  BY <1>1, <1>4, <1>5 DEF DumpEntry
<1>7. Tells(ctx, n)
  BY <1>3
<1>8. \A p \in Page : p \div s = b /\ e \notin Table => Walk(p) = e
  BY <1>1, EntryIs
<1>9. e \in Frame \cup PhysPage \cup {Absent}
  <2>1. e \in Stored
    BY <1>1, <1>2 DEF Memory
  <2>2. table # new
    <3>1. new # NoFrame => new \notin Live
      BY DEF PInv, StageInv
    <3>2. new = NoFrame => new \notin Table
      BY Entries
    <3> QED BY <1>2, <3>1, <3>2
  <2>3. e # Garbage
    BY <1>1, <1>2, <2>2 DEF PInv, TablesInv
  <2> QED BY <2>1, <2>3 DEF Stored
<1>10. CASE e = Absent
  <2>1. \A p \in n .. m - 1 : ~IsMapped(p)
    <3> SUFFICES ASSUME NEW p \in n .. m - 1, p \in Page PROVE Walk(p) = Absent
      BY DEF IsMapped
    <3>1. p \div s = b
      <4>1. p \in Nat /\ b * s <= p /\ p < (b * s) + s
        BY <1>2, <1>4
      <4>2. PICK q : q = p - (b * s)
        OBVIOUS
      <4>3. q \in 0 .. s - 1 /\ p = (b * s) + q
        BY <1>2, <1>4, <4>1, <4>2
      <4>4. ((b * s) + q) \div s = b
        BY <1>2, <4>3
      <4> QED BY <4>3, <4>4
    <3> QED BY <1>8, <1>10, <3>1, Entries
  <2>2. n <= m /\ m \in Nat
    BY <1>2, <1>4
  <2>3. Tells(ctx, m)
    BY <1>4, <1>7, <2>1, <2>2, TellsPast
  <2> QED BY <1>3, <1>5, <1>6, <1>10, <2>3
<1>11. CASE e # Absent /\ level = 1
  <2>1. e \in PhysPage /\ b \in Page
    <3>1. e \notin Frame
      BY <1>1, <1>2, <1>11 DEF PInv, Placed
    <3>2. e \in PhysPage
      BY <1>9, <1>11, <3>1
    <3> QED BY <1>1, <1>2, <3>2 DEF PInv, Placed
  <2>2. s = 1 /\ n = b /\ m = n + 1
    BY <1>1, <1>2, <1>4, <1>11, SpanIs
  <2>3. Walk(b) = e /\ e # Absent /\ e \in Nat
    <3>1. e \notin Table
      BY <2>1, Entries
    <3>2. b \div s = b
      BY <1>2, <2>2
    <3> QED BY <1>8, <1>11, <2>1, <3>1, <3>2, Constants
  <2>4. IsMapped(n) /\ Walk(n) = e
    BY <2>1, <2>2, <2>3 DEF IsMapped
  <2>5. Tells(NextPage(ctx, [vaddr |-> n, paddr |-> e]), n + 1)
    BY <1>4, <1>7, <2>3, <2>4, NextTells
  <2>6. seen = NextPage(ctx, [vaddr |-> n, paddr |-> e])
    BY <1>6, <1>11
  <2> QED BY <1>3, <1>5, <2>2, <2>5, <2>6
<1>12. CASE e # Absent /\ level > 1
  <2>1. e \notin PhysPage
    BY <1>1, <1>2, <1>12 DEF PInv, Placed
  <2>2. e \in Frame
    BY <1>9, <1>12, <2>1
  <2>3. e \in Live /\ lev[e] = level - 1 /\ pre[e] = b
    BY <1>1, <1>2, <2>2, IsLinked DEF Live, PInv, Placed
  <2>4. First(pre, e, level - 1) = n
    BY <1>1, <1>4, <2>3 DEF First
  <2>5. Tells(DumpPml[level - 1][e][n][ctx], n + s)
    BY <1>1, <1>7, <1>12, <2>3, <2>4 DEF LowerTells
  <2>6. seen = DumpPml[level - 1][e][n][ctx]
    BY <1>6, <1>12
  <2> QED BY <1>3, <1>4, <1>5, <2>5, <2>6
<1> QED BY <1>10, <1>11, <1>12

LEMMA TableTells ==
    ASSUME NEW lev \in Places, NEW pre \in TableKeys, PInv(lev, pre), NEW level \in 1 .. Levels,
           level > 1 => LowerTells(lev, pre, level - 1)
    PROVE  LowerTells(lev, pre, level)
<1> SUFFICES ASSUME NEW table \in Live, NEW ctx, lev[table] = level, Tells(ctx, First(pre, table, level))
             PROVE  Tells(DumpPml[level][table][First(pre, table, level)][ctx],
                          First(pre, table, level) + Span[level])
  BY DEF LowerTells
<1>1. PICK vaddr, lower : vaddr = First(pre, table, level) /\ lower = DumpPml[level - 1]
  OBVIOUS
<1>2. PICK f : /\ f[0] = ctx
               /\ \A i \in 1 .. Radix : f[i] = DumpEntry(lower, level, table, vaddr, i - 1, f[i - 1])
               /\ DumpTable(lower, level, table, vaddr, ctx) = f[Radix]
  BY LoopIs
<1>3. /\ Span[level] \in Nat /\ Span[level] = Radix * Span[level - 1] /\ Span[level - 1] \in Nat
      /\ pre[table] \in Nat /\ table \in Table
  <2>1. table \in Table /\ pre[table] \in Nat
    BY Machine DEF TableKeys
  <2> QED BY <2>1, SpanIs, Constants
<1>4. /\ FirstOf(pre, table, level, 0) = vaddr /\ vaddr \in Nat
      /\ FirstOf(pre, table, level, Radix) = vaddr + Span[level]
  <2>1. ASSUME NEW r \in Nat, NEW k \in Nat, NEW s \in Nat
        PROVE  /\ ((r * k) + 0) * s = k * (r * s) /\ k * (r * s) \in Nat
               /\ ((r * k) + r) * s = (k * (r * s)) + (r * s)
    BY <2>1
  <2> QED BY <1>1, <1>3, <2>1, Constants DEF First, FirstOf
<1> DEFINE S == {i \in Nat : i \in 0 .. Radix => Tells(f[i], FirstOf(pre, table, level, i))}
<1>5. 0 \in S
  BY <1>1, <1>2, <1>4
<1>6. ASSUME NEW i \in Nat, i \in S PROVE i + 1 \in S
  <2> SUFFICES ASSUME i + 1 \in 0 .. Radix PROVE Tells(f[i + 1], FirstOf(pre, table, level, i + 1))
    OBVIOUS
  <2>1. i + 1 \in 1 .. Radix /\ (i + 1) - 1 = i /\ i \in Index /\ i \in 0 .. Radix
    BY Constants DEF Index
  <2>2. f[i + 1] = DumpEntry(lower, level, table, vaddr, i, f[i])
    BY <1>2, <2>1
  <2>3. Tells(f[i], FirstOf(pre, table, level, i))
    BY <1>6, <2>1
  <2>4. Tells(DumpEntry(DumpPml[level - 1], level, table, First(pre, table, level), i, f[i]),
              FirstOf(pre, table, level, i + 1))
    BY <2>1, <2>3, EntryTells
  <2> QED BY <1>1, <2>2, <2>4
<1>7. Tells(f[Radix], vaddr + Span[level])
  <2>1. Inductive(S)
    <3> HIDE DEF S
    <3> QED BY <1>5, <1>6, Zenon DEF Inductive
  <2>2. Radix \in S
    <3> HIDE DEF S
    <3> QED BY <2>1, LevelInduction, Constants
  <2> QED BY <1>4, <2>2, Constants
<1>8. DumpPml[level][table][vaddr][ctx] = f[Radix]
  <2>1. DumpPml[level] = PmlOf(lower, level) /\ level # 0
    BY <1>1, PmlIs, Constants
  <2>2. ctx \in Context
    BY DEF Tells
  <2> QED BY <1>2, <1>3, <1>4, <2>1, <2>2 DEF PmlOf
<1> QED BY <1>1, <1>7, <1>8

LEMMA AllTold ==
    ASSUME NEW lev \in Places, NEW pre \in TableKeys, PInv(lev, pre)
    PROVE  Told(Dump, Span[Levels])
<1> DEFINE S == {n \in Nat : n \in 1 .. Levels => LowerTells(lev, pre, n)}
<1>1. 0 \in S
  OBVIOUS
<1>2. ASSUME NEW n \in Nat, n \in S PROVE n + 1 \in S
  <2> SUFFICES ASSUME n + 1 \in 1 .. Levels PROVE LowerTells(lev, pre, n + 1)
    OBVIOUS
  <2>1. n + 1 > 1 => LowerTells(lev, pre, (n + 1) - 1)
    <3>1. (n + 1) - 1 = n /\ (n + 1 > 1 => n \in 1 .. Levels)
      BY Constants
    <3> QED BY <1>2, <3>1
  <2> QED BY <2>1, TableTells
<1>3. LowerTells(lev, pre, Levels)
  <2>1. Inductive(S)
    <3> HIDE DEF S
    <3> QED BY <1>1, <1>2, Zenon DEF Inductive
  <2>2. Levels \in S
    <3> HIDE DEF S
    <3> QED BY <2>1, LevelInduction, Constants
  <2> QED BY <2>2, Constants
<1>4. PICK ctx : ctx = DumpPml[Levels][Root][0][Fresh]
  OBVIOUS
<1>5. Tells(ctx, Span[Levels])
  <2>1. Root \in Live /\ lev[Root] = Levels /\ First(pre, Root, Levels) = 0 /\ Span[Levels] \in Nat
    BY SpanIs, Constants DEF PInv, Placed, Live, First
  <2>2. 0 + Span[Levels] = Span[Levels]
    BY <2>1
  <2> QED BY <1>3, <1>4, <2>1, <2>2, FreshTells DEF LowerTells
<1>6. Dump = Whole(ctx)
  BY <1>4, <1>5, LastNext DEF Dump
<1> QED BY <1>5, <1>6 DEF Tells

(* A log that tells of all pages the root spans is what dump should log.    *)
LEMMA ToldIsAll == ASSUME NEW log, Told(log, Span[Levels]) PROVE TellsTheMapping(log)
<1>1. /\ log \in Seq(LogRange) /\ DOMAIN log = 1 .. Len(log) /\ Span[Levels] \in Nat /\ Page \subseteq Nat
      /\ \A k \in 1 .. Len(log) : log[k].vstart \in Nat /\ log[k].size \in Nat
  <2>1. log \in Seq(LogRange) /\ DOMAIN log = 1 .. Len(log) /\ \A k \in 1 .. Len(log) : log[k] \in LogRange
    BY DEF Told
  <2> QED BY <2>1, SpanIs, Constants DEF LogRange
<1> DEFINE mapped == {p \in Page : Walk(p) # Absent}
           Pages(k) == log[k].vstart .. log[k].vstart + log[k].size - 1
           logged == UNION {Pages(k) : k \in DOMAIN log}
<1>2. mapped = logged
  <2>1. ASSUME NEW p \in mapped PROVE p \in logged
    <3>1. p \in 0 .. Span[Levels] - 1 /\ IsMapped(p)
      BY PagesFit DEF IsMapped
    <3>2. PICK k \in 1 .. Len(log) : Logs(log, k, p)
      BY <3>1 DEF Told
    <3> QED BY <1>1, <3>2 DEF Logs
  <2>2. ASSUME NEW k \in DOMAIN log, NEW p \in Pages(k) PROVE p \in mapped
    <3>1. k \in 1 .. Len(log)
      BY <1>1
    <3>2. log[k].vstart + log[k].size <= Span[Levels]
      BY <3>1 DEF Told
    <3>3. p \in 0 .. Span[Levels] - 1
      BY <1>1, <3>1, <3>2
    <3>4. IsMapped(p)
      BY <3>1, <3>3 DEF Told, Logs
    <3> QED BY <3>4 DEF IsMapped
  <2> QED BY <2>1, <2>2
<1>3. \A k \in DOMAIN log : Mapped(log[k].vstart, log[k].size, log[k].pstart)
  BY <1>1 DEF Told
<1>4. \A k \in 1 .. Len(log) - 1 :
         LET vend == log[k].vstart + log[k].size
         IN  /\ vend <= log[k + 1].vstart
             /\ ~(vend = log[k + 1].vstart /\ log[k].pstart + log[k].size = log[k + 1].pstart)
  BY DEF Told, Follow
<1> QED BY <1>2, <1>3, <1>4, Zenon DEF TellsTheMapping

(* The dump logs every mapped page once, with where it is mapped, in ranges *)
(* that cannot be joined, after every store of every call, whatever failed  *)
(* before.                                                                  *)
THEOREM DumpAlwaysTells == Spec => []DumpTellsTheMapping
<1>1. IInv => DumpTellsTheMapping
  <2>1. ASSUME NEW lev \in Places, NEW pre \in TableKeys, PInv(lev, pre) PROVE TellsTheMapping(Dump)
    BY <2>1, AllTold, ToldIsAll
  <2> QED BY <2>1 DEF IInv, DumpTellsTheMapping
<1> QED BY <1>1, IInvAlways, PTL

-----------------------------------------------------------------------------
(* Riscv::Vmm: its functions, which name the tables of three levels, take   *)
(* the steps of the loops of PageTables over a path, and no other, so what  *)
(* is proved of the tables holds of the class.                              *)

(* A shift by nine bits a level is a division by what an entry spans.       *)
LEMMA ShiftIsSpan == ASSUME Levels = 3 PROVE \A L \in 1 .. 3 : Shift[L] = Span[L - 1]
<1>1. Span[0] = 1 /\ Span[1] = Radix * Span[0] /\ Span[2] = Radix * Span[1] /\ Radix \in Nat
  BY SpanIs, Constants
<1>2. Span[1] = Radix /\ Span[2] = Radix * Radix
  BY <1>1
<1> QED BY <1>1, <1>2 DEF Shift

LEMMA SameStores ==
    ASSUME Levels = 3, NEW L \in 1 .. 3
    PROVE  /\ \A pml, vaddr : Sv39PageAt(L, pml, vaddr) = PageAt(pml, vaddr, L)
           /\ \A pml, vaddr, page : Sv39PutPage(L, pml, vaddr, page) <=> PutPage(pml, vaddr, L, page)
           /\ \A vaddr : Sv39Index(L, vaddr) = Virt2Index(vaddr, L)
<1>1. \A vaddr : Sv39Index(L, vaddr) = Virt2Index(vaddr, L)
  BY ShiftIsSpan, Zenon DEF Sv39Index, Virt2Index
<1> QED BY <1>1, Zenon DEF Sv39PageAt, PageAt, Sv39PutPage, PutPage

(* Where a call is.                                                         *)
Placing ==
    /\ Len(path) \in 1 .. 3 /\ Level = 4 - Len(path) /\ Here = path[Len(path)] /\ path[1] = Root
    /\ call.op \in {"none", "map", "free"} /\ (call.op = "none" => call = NoCall)
    /\ call.first \in Nat /\ call.done \in Nat /\ call.size \in Nat
    /\ stage \in {"walk", "link", "prune", "release"}
    /\ new # NoFrame => call.op = "map" /\ stage \in {"walk", "link"} /\ call.done < call.size /\ Level > 1
    /\ stage = "link" => new # NoFrame
    /\ stage \in {"prune", "release"} => call.op = "free" /\ call.done > 0
    /\ stage = "release" => Len(path) > 1
    /\ call.op # "none" /\ call.done = call.size => stage \in {"walk", "prune", "release"}

LEMMA IsPlaced == ASSUME Levels = 3, IInv PROVE Placing
<1>1. PICK lev \in Places, pre \in TableKeys : PInv(lev, pre)
  BY DEF IInv
<1>2. Len(path) \in 1 .. 3 /\ path[1] = Root
  BY <1>1, PathFacts
<1>3. Level = 4 - Len(path) /\ Here = path[Len(path)]
  BY <1>2 DEF Level, Here
<1>4. /\ call.op \in {"none", "map", "free"} /\ (call.op = "none" => call = NoCall)
      /\ call.first \in Nat /\ call.done \in Nat /\ call.size \in Nat
  BY <1>1 DEF PInv, CallInv
<1>5. stage \in {"walk", "link", "prune", "release"}
  BY <1>1 DEF PInv, TypeOK
<1>6. StageInv
  BY <1>1 DEF PInv
<1>7. /\ new # NoFrame => call.op = "map" /\ stage \in {"walk", "link"} /\ call.done < call.size /\ Level > 1
      /\ stage = "link" => new # NoFrame
      /\ stage \in {"prune", "release"} => call.op = "free" /\ call.done > 0
      /\ stage = "release" => Len(path) > 1
  BY <1>6 DEF StageInv
<1>8. call.op # "none" /\ call.done = call.size => stage \in {"walk", "prune", "release"}
  BY <1>4, <1>5, <1>7
<1> QED BY <1>2, <1>3, <1>4, <1>5, <1>7, <1>8 DEF Placing

(* The page of the code is that of PageTables, before an entry is cleared   *)
(* and after.                                                               *)
LEMMA SamePage ==
    ASSUME Placing
    PROVE  /\ stage \in {"walk", "link"} => Current = Vaddr
           /\ stage \in {"prune", "release"} => Current = Freed
<1>1. stage \in {"walk", "link"} => Current = Vaddr
  BY DEF Placing, Current, Vaddr
<1>2. stage \in {"prune", "release"} => Current = Freed
  BY DEF Placing, Current, Vaddr, Freed
<1> QED BY <1>1, <1>2

(* pmlOrAlloc and pml of the last table reached.                            *)
LEMMA DownIs ==
    ASSUME Levels = 3, Placing, Len(path) \in 1 .. 2, call.done < call.size
    PROVE  /\ call.op = "map" => (PmlOrAlloc(Level, Here) <=>
                 Descend \/ (\E frame \in free : AllocTable(frame)) \/ AllocFails \/ ZeroTable \/ LinkTable)
           /\ call.op = "free" => (stage = "walk" /\ Pml(Level, Here) <=> Descend \/ NotPresent)
<1>1. Level \in 1 .. 3 /\ Level > 1
  BY DEF Placing
<1>2. stage \in {"walk", "link"} => Sv39PageAt(Level, Here, Vaddr) = Entry
  BY <1>1, SameStores, SamePage, Zenon DEF Entry
<1>3. \A page : stage \in {"walk", "link"} =>
                   (Sv39PutPage(Level, Here, Vaddr, page) <=> PutPage(Here, Current, Level, page))
  BY <1>1, SameStores, SamePage, Zenon
<1>4. CASE call.op = "map"
  <2>1. LowerThere(Level, Here) <=> Descend
    BY <1>1, <1>2, <1>4 DEF LowerThere, Descend, Walking
  <2>2. stage = "walk" => (LowerMissing(Level, Here) <=> Missing)
    BY <1>1, <1>2, <1>4 DEF LowerMissing, Missing, Walking
  <2>3. LowerMissing(Level, Here) <=> Missing
    BY <2>2, Zenon DEF LowerMissing, Missing, Walking
  <2>4. \A lower : AllocLower(Level, Here, lower) <=> AllocTable(lower)
    BY <2>3, Zenon DEF AllocLower, AllocTable
  <2>5. AllocLowerFails(Level, Here) <=> AllocFails
    BY <2>3, Zenon DEF AllocLowerFails, AllocFails
  <2>6. ClearLower <=> ZeroTable
    BY Zenon DEF ClearLower, ZeroTable
  <2>7. PutLower(Level, Here) <=> LinkTable
    <3>1. Sv39Index(Level, Vaddr) = Virt2Index(Vaddr, Level)
      BY <1>1, SameStores
    <3>2. CASE stage = "link"
      <4>1. Vaddr = Current
        BY <3>2, SamePage
      <4> QED BY <3>1, <4>1, Zenon DEF PutLower, LinkTable, Sv39PutPage, PutPage
    <3>3. CASE stage # "link"
      BY <3>3, Zenon DEF PutLower, LinkTable
    <3> QED BY <3>2, <3>3
  <2> QED BY <1>4, <2>1, <2>4, <2>5, <2>6, <2>7, Zenon DEF PmlOrAlloc
<1>5. CASE call.op = "free"
  <2>1. new = NoFrame
    BY <1>5 DEF Placing
  <2>2. LowerThere(Level, Here) <=> Descend
    BY <1>1, <1>2, <1>5 DEF LowerThere, Descend, Walking
  <2>3. LowerMissing(Level, Here) /\ Finish("error") /\ UNCHANGED <<mem, free>> <=> NotPresent
    <3>1. CASE stage = "walk"
      BY <1>1, <1>2, <1>5, <2>1, <3>1 DEF LowerMissing, NotPresent, Walking
    <3>2. CASE stage # "walk"
      BY <3>2, Zenon DEF LowerMissing, NotPresent, Walking
    <3> QED BY <3>1, <3>2
  <2>4. Descend \/ NotPresent => stage = "walk"
    BY Zenon DEF Descend, NotPresent, Walking
  <2> QED BY <1>5, <2>2, <2>3, <2>4, Zenon DEF Pml
<1> QED BY <1>4, <1>5

(* The two tests for an empty table.                                        *)
LEMMA UpIs ==
    ASSUME Levels = 3, Placing, Len(path) \in 2 .. 3
    PROVE  PruneEmpty(Here, Level + 1, path[Len(path) - 1]) <=>
              KeepTable \/ UnlinkTable \/ ReleaseTable
<1>1. Level + 1 \in 1 .. 3 /\ Len(path) > 1
  <2>1. Len(path) = 2 \/ Len(path) = 3
    OBVIOUS
  <2>2. Level = 4 - Len(path)
    BY DEF Placing
  <2>3. CASE Len(path) = 2
    BY <2>2, <2>3
  <2>4. CASE Len(path) = 3
    BY <2>2, <2>4
  <2> QED BY <2>1, <2>3, <2>4
<1>2. stage = "prune" => (Sv39PutPage(Level + 1, path[Len(path) - 1], Freed, Absent)
                             <=> PutPage(path[Len(path) - 1], Current, Level + 1, Absent))
  BY <1>1, SameStores, SamePage, Zenon
<1>3. KeepPml(Here) <=> KeepTable
  BY <1>1 DEF KeepPml, KeepTable
<1>4. UnlinkPml(Here, Level + 1, path[Len(path) - 1]) <=> UnlinkTable
  BY <1>1, <1>2, Zenon DEF UnlinkPml, UnlinkTable
<1>5. ReleasePml(Here) <=> ReleaseTable
  BY Zenon DEF ReleasePml, ReleaseTable
<1> QED BY <1>3, <1>4, <1>5, Zenon DEF PruneEmpty

AllocSteps ==
    \/ call.op = "map" /\ Descend
    \/ \E frame \in free : AllocTable(frame)
    \/ AllocFails \/ ZeroTable \/ LinkTable \/ PutLeaf

FreeSteps ==
    \/ call.op = "free" /\ Descend
    \/ NotPresent \/ ClearLeaf \/ KeepTable \/ UnlinkTable \/ ReleaseTable \/ ReleaseFails

(* allocPage, with its three tables by name.                                *)
LEMMA AllocPageIs == ASSUME Levels = 3, Placing PROVE AllocPage <=> AllocSteps
<1>1. AllocSteps => call.op = "map" /\ call.done < call.size
  BY DEF AllocSteps, Placing, Descend, AllocTable, AllocFails, Missing, ZeroTable, LinkTable, PutLeaf, Walking
<1>2. CASE call.op = "map" /\ call.done < call.size /\ Len(path) \in 1 .. 2
  <2>1. AllocPage <=> PmlOrAlloc(Level, Here)
    <3>1. CASE Len(path) = 1
      <4>1. Level = 3 /\ Here = Root
        BY <3>1 DEF Placing
      <4> QED BY <1>2, <3>1, <4>1 DEF AllocPage
    <3>2. CASE Len(path) = 2
      <4>1. Level = 2 /\ Here = Pml2
        BY <3>2 DEF Placing, Pml2
      <4> QED BY <1>2, <3>2, <4>1 DEF AllocPage
    <3> QED BY <1>2, <3>1, <3>2
  <2>2. ~PutLeaf
    BY <1>2 DEF Placing, PutLeaf
  <2> QED BY <1>2, <2>1, <2>2, DownIs, Zenon DEF AllocSteps
<1>3. CASE call.op = "map" /\ call.done < call.size /\ Len(path) = 3
  <2>1. Level = 1 /\ Here = Pml1 /\ 1 \in 1 .. 3 /\ new = NoFrame /\ stage = "walk"
    BY <1>3 DEF Placing, Pml1
  <2>2. Sv39PutPage(1, Pml1, Vaddr, call.phys + call.done) <=> PutPage(Here, Current, 1, call.phys + call.done)
    BY <2>1, SameStores, SamePage, Zenon
  <2>3. PutMappedPage <=> PutLeaf
    BY <1>3, <2>1, <2>2, Zenon DEF PutMappedPage, PutLeaf, Walking
  <2>4. AllocPage <=> PutMappedPage
    BY <1>3 DEF AllocPage
  <2>5. AllocSteps <=> PutLeaf
    BY <2>1 DEF AllocSteps, Descend, AllocTable, AllocFails, Missing, ZeroTable, LinkTable
  <2> QED BY <2>3, <2>4, <2>5, Zenon
<1> QED BY <1>1, <1>2, <1>3 DEF AllocPage, Placing

(* freePage, with its three tables by name.                                 *)
LEMMA FreePageIs == ASSUME Levels = 3, Placing PROVE FreePage <=> FreeSteps
<1>1. (FreeSteps => call.op = "free") /\ (FreePage => call.op = "free")
  <2>1. FreeSteps => call.op = "free"
    BY DEF FreeSteps, Placing, NotPresent, ClearLeaf, KeepTable, UnlinkTable, ReleaseTable, ReleaseFails, Walking
  <2>2. FreePage => call.op = "free"
    BY DEF FreePage, Placing, PruneEmpty, KeepPml, UnlinkPml, ReleasePml, PageFreed, ReleaseFails
  <2> QED BY <2>1, <2>2
<1>2. ASSUME call.op = "free", stage = "walk" PROVE FreePage <=> FreeSteps
  <2>1. FreeSteps <=> Descend \/ NotPresent \/ ClearLeaf
    BY <1>2 DEF FreeSteps, KeepTable, UnlinkTable, ReleaseTable, ReleaseFails
  <2>2. \A pml, L, upper : ~PruneEmpty(pml, L, upper)
    BY <1>2 DEF PruneEmpty, KeepPml, UnlinkPml, ReleasePml
  <2>3. ~PageFreed /\ ~ReleaseFails
    BY <1>2 DEF PageFreed, ReleaseFails
  <2>4. CASE call.done < call.size /\ Len(path) \in 1 .. 2
    <3>1. FreePage <=> Pml(Level, Here)
      <4>1. CASE Len(path) = 1
        <5>1. Level = 3 /\ Here = Root
          BY <4>1 DEF Placing
        <5> QED BY <1>2, <2>2, <2>3, <2>4, <4>1, <5>1 DEF FreePage
      <4>2. CASE Len(path) = 2
        <5>1. Level = 2 /\ Here = Pml2
          BY <4>2 DEF Placing, Pml2
        <5> QED BY <1>2, <2>2, <2>3, <2>4, <4>2, <5>1 DEF FreePage
      <4> QED BY <2>4, <4>1, <4>2
    <3>2. ~ClearLeaf
      BY <2>4 DEF Placing, ClearLeaf
    <3> QED BY <1>2, <2>1, <2>4, <3>1, <3>2, DownIs, Zenon
  <2>5. CASE call.done < call.size /\ Len(path) = 3
    <3>1. Level = 1 /\ Here = Pml1 /\ 1 \in 1 .. 3
      BY <2>5 DEF Placing, Pml1
    <3>2. Sv39PutPage(1, Pml1, Vaddr, Absent) <=> PutPage(Here, Current, 1, Absent)
      BY <1>2, <3>1, SameStores, SamePage, Zenon
    <3>3. ClearPage <=> ClearLeaf
      BY <1>2, <2>5, <3>1, <3>2, Zenon DEF ClearPage, ClearLeaf, Walking
    <3>4. FreePage <=> ClearPage
      BY <1>2, <2>2, <2>3, <2>5 DEF FreePage
    <3>5. ~Descend /\ ~NotPresent
      BY <3>1 DEF Descend, NotPresent
    <3> QED BY <2>1, <3>3, <3>4, <3>5, Zenon
  <2>6. CASE ~(call.done < call.size)
    <3>1. ~FreePage
      BY <2>2, <2>3, <2>6 DEF FreePage
    <3>2. ~FreeSteps
      BY <2>1, <2>6 DEF Descend, NotPresent, ClearLeaf, Walking
    <3> QED BY <3>1, <3>2
  <2> QED BY <2>4, <2>5, <2>6 DEF Placing
<1>3. ASSUME call.op = "free", stage \in {"prune", "release"} PROVE FreePage <=> FreeSteps
  <2>1. FreeSteps <=> KeepTable \/ UnlinkTable \/ ReleaseTable \/ ReleaseFails
    BY <1>3 DEF FreeSteps, Descend, NotPresent, ClearLeaf, Walking
  <2>2. CASE Len(path) = 3
    <3>1. Here = Pml1 /\ Level + 1 = 2 /\ path[Len(path) - 1] = Pml2
      BY <2>2 DEF Placing, Pml1, Pml2
    <3>2. FreePage <=> PruneEmpty(Pml1, 2, Pml2) \/ ReleaseFails
      BY <1>3, <2>2 DEF FreePage
    <3> QED BY <2>1, <2>2, <3>1, <3>2, UpIs
  <2>3. CASE Len(path) = 2
    <3>1. Here = Pml2 /\ Level + 1 = 3 /\ path[Len(path) - 1] = Root
      BY <2>3 DEF Placing, Pml2
    <3>2. FreePage <=> PruneEmpty(Pml2, 3, Root) \/ ReleaseFails
      BY <1>3, <2>3 DEF FreePage
    <3> QED BY <2>1, <2>3, <3>1, <3>2, UpIs
  <2>4. CASE Len(path) = 1
    <3>1. stage = "prune"
      BY <1>3, <2>4 DEF Placing
    <3>2. FreePage <=> PageFreed
      BY <1>3, <2>4, <3>1 DEF FreePage, ReleaseFails
    <3>3. PageFreed <=> KeepTable
      BY <2>4, <3>1 DEF PageFreed, KeepTable
    <3>4. ~UnlinkTable /\ ~ReleaseTable /\ ~ReleaseFails
      BY <2>4, <3>1 DEF UnlinkTable, ReleaseTable, ReleaseFails
    <3> QED BY <2>1, <3>2, <3>3, <3>4
  <2> QED BY <2>2, <2>3, <2>4 DEF Placing
<1>4. ASSUME call.op = "free" PROVE stage \in {"walk", "prune", "release"}
  BY <1>4 DEF Placing
<1> QED BY <1>1, <1>2, <1>3, <1>4

LEMMA SameNext == ASSUME Levels = 3, IInv PROVE [Sv39Next]_vars <=> [Next]_vars
<1>1. (AllocPage <=> AllocSteps) /\ (FreePage <=> FreeSteps)
  BY IsPlaced, AllocPageIs, FreePageIs
<1>2. Descend \/ Return => call.op = "map" \/ call.op = "free"
  BY IsPlaced DEF Placing, Descend, Walking, Return
<1>3. Step <=> AllocSteps \/ FreeSteps \/ Return
  BY <1>2, Zenon DEF Step, AllocSteps, FreeSteps
<1> QED BY <1>1, <1>2, <1>3, Zenon DEF Sv39Next, MapRangeLoop, FreeLoop, Next

(* pmlOrAlloc, allocPage, pml and freePage of Riscv::Vmm, each with its     *)
(* tables named, indexed by its own shifts and tested in its own order, are *)
(* the loops over three levels: the two have the same behaviours.           *)
THEOREM SameSteps == ASSUME Levels = 3 PROVE Init /\ [][Sv39Next]_vars <=> Spec
<1>1. IInv => ([Sv39Next]_vars <=> [Next]_vars)
  BY SameNext
<1>2. IInv /\ [Sv39Next]_vars => IInv'
  BY <1>1, IInvStep
<1> QED BY <1>1, <1>2, IInvInit, IInvAlways, PTL DEF Spec

(* The three-level tables are a tree after every store, ...                 *)
THEOREM Sv39TablesAreATree == ASSUME Levels = 3 PROVE Sv39Spec => []TablesAreATree
BY SameSteps, TablesAlwaysATree, PTL DEF Sv39Spec

(* ... leak no frame the Pmm has not refused, ...                           *)
THEOREM Sv39NoTableLeaks == ASSUME Levels = 3 PROVE Sv39Spec => []NothingLeaks
BY SameSteps, NoTableLeaks, PTL DEF Sv39Spec

(* ... and translate as AddressSpace says.                                  *)
THEOREM Sv39ImplementsTheSpace == ASSUME Levels = 3 PROVE Sv39Spec => ImplementsSpace
BY SameSteps, TablesImplementTheSpace, PTL DEF Sv39Spec

(* dump logs what they translate, in spite of tables that calls which       *)
(* failed left empty.                                                       *)
THEOREM Sv39DumpAlwaysTells == ASSUME Levels = 3 PROVE Sv39Spec => []Sv39DumpTellsTheMapping
<1>1. Sv39DumpTellsTheMapping <=> DumpTellsTheMapping
  BY DEF Sv39DumpTellsTheMapping, Sv39Dump, DumpTellsTheMapping, Dump
<1> QED BY <1>1, SameSteps, DumpAlwaysTells, PTL DEF Sv39Spec
=============================================================================
