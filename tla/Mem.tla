-------------------------------- MODULE Mem --------------------------------
(***************************************************************************)
(* Vaerk::Mem<Owner, Range> (vaerk-base/mem.cpp), the handle that gives a *)
(* range back to its Pmm, Vmm or Kmm when it dies, and the owners'        *)
(* allocOwned and mapOwned that make it.  Handles are variables of client *)
(* code: constructed, moved from, assigned over and destroyed.            *)
(***************************************************************************)
EXTENDS Integers, FiniteSets

CONSTANTS
    Handle,    \* places a handle can live in
    Ranges,    \* ranges the owner can give out
    Null       \* _owner is null

ASSUME MemAssumption == Null \notin Ranges

VARIABLES
    alive,      \* handles constructed and not destroyed
    holds,      \* the range of a handle, Null when it has no owner
    given,      \* ranges the owner has given out and not got back
    refused,    \* free(range).expect failed: the owner did not know the range
    lost        \* history: ranges whose handle was assigned over

memVars == <<alive, holds, given, refused, lost>>

MemInit ==
    /\ alive = {}
    /\ holds = [h \in Handle |-> Null]
    /\ given = {}
    /\ refused = FALSE
    /\ lost = {}

(* allocOwned and mapOwned: allocRange or mapRange, then the handle; there  *)
(* is no handle when they fail.                                             *)
AllocOwned(h, range) ==
    /\ h \notin alive /\ range \notin given
    /\ given' = given \cup {range}
    /\ alive' = alive \cup {h}
    /\ holds' = [holds EXCEPT ![h] = range]
    /\ UNCHANGED <<refused, lost>>

(* Mutant: the handle moved from keeps its owner. *)
CopyConstruct(h, other) ==
    /\ h \notin alive /\ other \in alive
    /\ alive' = alive \cup {h}
    /\ holds' = [holds EXCEPT ![h] = holds[other]]
    /\ UNCHANGED <<given, refused, lost>>

MoveConstruct(h, other) ==
    /\ h \notin alive /\ other \in alive
    /\ alive' = alive \cup {h}
    /\ holds' = [holds EXCEPT ![h] = holds[other], ![other] = Null]
    /\ UNCHANGED <<given, refused, lost>>

MoveAssign(h, other) ==
    /\ {h, other} \subseteq alive
    /\ holds' = [[holds EXCEPT ![other] = Null] EXCEPT ![h] = holds[other]]
    /\ lost' = IF h = other THEN lost ELSE (lost \cup {holds[h]}) \ {Null}
    /\ UNCHANGED <<alive, given, refused>>

Destroy(h) ==
    /\ h \in alive
    /\ alive' = alive \ {h}
    /\ holds' = [holds EXCEPT ![h] = Null]
    /\ given' = given \ {holds[h]}
    /\ refused' = (refused \/ holds[h] \notin given \cup {Null})
    /\ UNCHANGED lost

MemNext ==
    \/ \E h \in Handle, range \in Ranges : AllocOwned(h, range)
    \/ \E h, other \in Handle : MoveConstruct(h, other) \/ MoveAssign(h, other)
    \/ \E h \in Handle : Destroy(h)

MemSpec == MemInit /\ [][MemNext]_memVars

-----------------------------------------------------------------------------

(* A range is freed at most once: no destructor is ever refused, however    *)
(* the handles were moved about before.                                     *)
NeverFreedTwice == ~refused

(* Every range given out has exactly one handle that will free it, except   *)
(* those whose handle was overwritten by a move assignment.                 *)
OneHandleEach ==
    \A range \in given :
        Cardinality({h \in alive : holds[h] = range}) = (IF range \in lost THEN 0 ELSE 1)
=============================================================================
