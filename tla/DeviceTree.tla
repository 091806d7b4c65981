----------------------------- MODULE DeviceTree -----------------------------
(***************************************************************************)
(* Reading a flattened device tree (vaerk-dtb/mod.cpp).  The structure    *)
(* block is a tape of tokens.  A Node is a place on the tape; iterProp    *)
(* and iterChildren walk the tape from there on their own, so that        *)
(* Node::dump re-reads every subtree once for each level above it.        *)
(*                                                                         *)
(* First a flattener writes a tape, token by token; then dump is called   *)
(* on the root, and each step is one call of next on one iterator.        *)
(* Names and values are left out, a node or property is its place on the  *)
(* tape, except for the value of #address-cells, which stands for the     *)
(* three properties a node hands to its children.                         *)
(***************************************************************************)
EXTENDS Integers, FiniteSets, Sequences, SequencesExt

CONSTANTS
    MaxTokens,   \* bound: tokens on a tape
    CellCounts   \* values of #address-cells properties, none of them the default

DefaultCells == 1
NoCells == 0     \* a property that is not #address-cells

ASSUME DeviceTreeAssumption ==
    MaxTokens \in Nat /\ CellCounts \subseteq Nat \ {NoCells, DefaultCells}

Token(type, cells) == [type |-> type, cells |-> cells]

VARIABLES
    tape,     \* the structure block, without its END token
    open,     \* nodes begun and not ended while the tape is written
    phase,    \* "write", "dump" or "done"
    stack,    \* the calls of Node::dump in flight, the innermost last
    seen      \* what has been dumped: [at, cells], cells as the property sees them

vars == <<tape, open, phase, stack, seen>>

Init ==
    /\ tape = <<>> /\ open = 0
    /\ phase = "write"
    /\ stack = <<>> /\ seen = <<>>

-----------------------------------------------------------------------------
(* The flattener: properties come before the children of their node, and    *)
(* NOP may stand anywhere.                                                  *)

OnlyNops == \A k \in DOMAIN tape : tape[k].type = "nop"

(* The last token but for NOPs is the begin of a node or a property.        *)
AmongProps ==
    \E k \in DOMAIN tape : /\ tape[k].type \in {"begin", "prop"}
                            /\ \A m \in k + 1 .. Len(tape) : tape[m].type = "nop"

Write(token) ==
    /\ phase = "write"
    /\ Len(tape) + open + 1 <= MaxTokens
    /\ tape' = Append(tape, token)
    /\ UNCHANGED <<phase, stack, seen>>

WriteBegin ==
    /\ open > 0 \/ OnlyNops
    /\ Len(tape) + open + 2 <= MaxTokens
    /\ Write(Token("begin", NoCells)) /\ open' = open + 1

WriteProp(cells) ==
    /\ open > 0 /\ AmongProps
    /\ Write(Token("prop", cells)) /\ UNCHANGED open

WriteNop == Write(Token("nop", NoCells)) /\ UNCHANGED open

WriteEnd ==
    /\ phase = "write" /\ open > 0
    /\ tape' = Append(tape, Token("end", NoCells))
    /\ open' = open - 1
    /\ UNCHANGED <<phase, stack, seen>>

-----------------------------------------------------------------------------
(* Nodes begun and not ended after k tokens of a tape.                      *)
Height(t, k) ==
    LET of(type) == {j \in 1 .. k : t[j].type = type}
    IN  Cardinality(of("begin")) - Cardinality(of("end"))

(* Iterators.  An answer is [found, at, iter]: the place of what next       *)
(* returned, and where the iterator is left.                                *)

TypeAt(at) == IF at <= Len(tape) THEN tape[at].type ELSE "none"

PropNext(iter) ==
    [found |-> TypeAt(iter.at) = "prop", at |-> iter.at,
     iter |-> [iter EXCEPT !.at = @ + 1]]

(* Mutant: the end of a child is not counted. *)
ChildNextFlat(start) ==
    LET stops(at) == TypeAt(at) \in {"begin", "end", "none"}
        stop  == CHOOSE at \in start.at .. Len(tape) + 1 :
                     stops(at) /\ \A k \in start.at .. at - 1 : ~stops(k)
    IN  [found |-> TypeAt(stop) = "begin", at |-> stop, iter |-> [at |-> stop + 1, depth |-> 0]]

(* ChildrenIter::next: on to the first begin or end at depth 0, counting    *)
(* those passed over.                                                       *)
ChildNext(start) ==
    LET depth(at) == start.depth + Height(tape, at - 1) - Height(tape, start.at - 1)
        stops(at) == \/ TypeAt(at) = "none"
                     \/ TypeAt(at) \in {"begin", "end"} /\ depth(at) = 0
        stop  == CHOOSE at \in start.at .. Len(tape) + 1 :
                     stops(at) /\ \A k \in start.at .. at - 1 : ~stops(k)
        found == TypeAt(stop) = "begin"
    IN  [found |-> found, at |-> stop,
         iter |-> [at |-> stop + 1, depth |-> IF found THEN 1 ELSE depth(stop)]]

(* iterProp and iterChildren skip the token of the node itself. *)
Inside(node) == [at |-> node + 1, depth |-> 0]

(* getProperty("#address-cells"): the first one iterProp comes to. *)
OwnCells(node) ==
    LET first[at \in Nat] ==
        IF TypeAt(at) # "prop" THEN NoCells
        ELSE IF tape[at].cells # NoCells THEN tape[at].cells ELSE first[at + 1]
    IN  first[node + 1]

(* Mutant: a node does not look at its own properties. *)
NodeInherits(at, inherited) ==
    [node |-> at, cells |-> inherited, of |-> "props", iter |-> Inside(at)]

(* The constructor of Node, and the call of dump on it. *)
Node(at, inherited) ==
    [node |-> at, of |-> "props", iter |-> Inside(at),
     cells |-> IF OwnCells(at) = NoCells THEN inherited ELSE OwnCells(at)]

-----------------------------------------------------------------------------
(* Node::dump: the properties, then the children. *)

Top == Last(stack)

Replace(frame) == Append(Front(stack), frame)

StartDump ==
    /\ phase = "write" /\ open = 0 /\ ~OnlyNops
    /\ phase' = "dump"
    /\ stack' = <<Node(1, DefaultCells)>>
    /\ seen' = <<>>
    /\ UNCHANGED <<tape, open>>

DumpProp ==
    LET answer == PropNext(Top.iter)
    IN  /\ phase = "dump" /\ Top.of = "props"
        /\ IF answer.found
           THEN /\ seen' = Append(seen, [at |-> answer.at, cells |-> Top.cells])
                /\ stack' = Replace([Top EXCEPT !.iter = answer.iter])
           ELSE /\ stack' = Replace([Top EXCEPT !.of = "children", !.iter = Inside(Top.node)])
                /\ UNCHANGED seen
        /\ UNCHANGED <<tape, open, phase>>

(* Mutant: the iterator starts again after every child. *)
DumpChildAgain ==
    LET answer == ChildNext(Top.iter)
    IN  /\ phase = "dump" /\ Top.of = "children"
        /\ IF answer.found
           THEN /\ stack' = Append(stack, Node(answer.at, Top.cells))
                /\ UNCHANGED <<phase, seen>>
           ELSE /\ stack' = Front(stack)
                /\ phase' = IF Len(stack) = 1 THEN "done" ELSE phase
                /\ UNCHANGED seen
        /\ UNCHANGED <<tape, open>>

DumpChild ==
    LET answer == ChildNext(Top.iter)
    IN  /\ phase = "dump" /\ Top.of = "children"
        /\ IF answer.found
           THEN /\ stack' = Append(Replace([Top EXCEPT !.iter = answer.iter]),
                                   Node(answer.at, Top.cells))
                /\ seen' = Append(seen, [at |-> answer.at, cells |-> Top.cells])
                /\ UNCHANGED phase
           ELSE /\ stack' = Front(stack)
                /\ phase' = IF Len(stack) = 1 THEN "done" ELSE phase
                /\ UNCHANGED seen
        /\ UNCHANGED <<tape, open>>

DumpStep == DumpProp \/ DumpChild

Next ==
    \/ WriteBegin \/ WriteNop \/ WriteEnd
    \/ \E cells \in CellCounts \cup {NoCells} : WriteProp(cells)
    \/ StartDump
    \/ DumpStep

Spec == Init /\ [][Next]_vars /\ WF_vars(DumpStep)

-----------------------------------------------------------------------------
(* Properties. *)

(* Nodes that a place on the tape is in, itself included if it is one.      *)
Enclosing(at) ==
    {n \in 1 .. at : tape[n].type = "begin" /\ \A k \in n .. at : Height(tape, k) > Height(tape, n - 1)}

(* A NOP before the root or before a property of its node: iterProp stops   *)
(* there, and a Node at a NOP has the root for its child.                   *)
Misplaced(at) ==
    /\ tape[at].type = "nop"
    /\ \/ \A k \in 1 .. at : tape[k].type = "nop"
       \/ \E k \in at + 1 .. Len(tape) :
             tape[k].type = "prop" /\ \A m \in at .. k : tape[m].type \in {"nop", "prop"}

Tidy == \A at \in DOMAIN tape : ~Misplaced(at)

(* What a dump of the first tokens should have come to, after the root:     *)
(* every node and property, in the order of the tape.                       *)
Places[k \in 0 .. Len(tape)] ==
    IF k <= 1 THEN <<>>
    ELSE IF tape[k].type \in {"begin", "prop"} THEN Append(Places[k - 1], k)
    ELSE Places[k - 1]

Visited == [k \in DOMAIN seen |-> seen[k].at]

(* At every call the nested iterators together have read exactly a first    *)
(* part of the tape, and all of it when dump returns: none skips a token    *)
(* that another one left, or reads one twice.                               *)
DumpReadsTheTape ==
    phase # "write" /\ Tidy =>
        /\ IsPrefix(Visited, Places[Len(tape)])
        /\ phase = "done" => Visited = Places[Len(tape)]

(* A property is parsed with the cells of the innermost node around it that *)
(* has an #address-cells, its own node before all others.                   *)
CellsComeFromTheInnermost ==
    phase # "write" /\ Tidy =>
        \A k \in DOMAIN seen : tape[seen[k].at].type = "prop" =>
            LET givers == {n \in Enclosing(seen[k].at) : OwnCells(n) # NoCells}
                inner  == CHOOSE n \in givers : \A m \in givers : m <= n
            IN  seen[k].cells = IF givers = {} THEN DefaultCells ELSE OwnCells(inner)

(* dump returns, on every tape, NOPs wherever they are.                     *)
DumpReturns == (phase = "dump") ~> (phase = "done")
=============================================================================
