--------------------------- MODULE ExecutorLeaseProofs ---------------------------
(***************************************************************************)
(* The abstract lease keeps its two promises.                              *)
(***************************************************************************)
EXTENDS ExecutorLease, TLAPS

\* The invariant that is inductive: admissions name past generations or the
\* current one, and the current one only while its holder is active.
GrantsTrace ==
    \A g \in grants :
        /\ g.generation <= generation
        /\ g.generation = generation => g.node = holder /\ active

IInv == TypeOK /\ GrantsTrace /\ SingleWriter

LEMMA InitIInv == Init => IInv
  <1> SUFFICES ASSUME Init PROVE IInv
    OBVIOUS
  <1>1. TypeOK
    BY DEF Init, TypeOK, Nodes
  <1>2. GrantsTrace /\ SingleWriter
    BY DEF Init, GrantsTrace, SingleWriter
  <1> QED
    BY <1>1, <1>2 DEF IInv

LEMMA NextIInv == IInv /\ [Next]_vars => IInv'
  <1> SUFFICES ASSUME IInv, [Next]_vars
               PROVE  IInv'
    OBVIOUS
  <1> USE DEF IInv, TypeOK, GrantsTrace, SingleWriter, Nodes
  <1>1. CASE Start
    BY <1>1 DEF Start
  <1>2. CASE HandOver
    <2>1. TypeOK'
      <3>1. generation' \in Nat /\ grants' = grants
        BY <1>2 DEF HandOver
      <3>2. holder' \in Nodes
        BY <1>2 DEF HandOver, Other
      <3>3. active' \in BOOLEAN
        BY <1>2 DEF HandOver
      <3> QED
        BY <3>1, <3>2, <3>3
    <2>2. GrantsTrace' /\ SingleWriter'
      BY <1>2 DEF HandOver
    <2> QED
      BY <2>1, <2>2
  <1>3. CASE TakeUp
    BY <1>3 DEF TakeUp
  <1>4. CASE Grant
    BY <1>4 DEF Grant
  <1>5. CASE UNCHANGED vars
    BY <1>5 DEF vars
  <1> QED
    BY <1>1, <1>2, <1>3, <1>4, <1>5 DEF Next

\* Two nodes are never admitted for one generation, and none for a generation
\* that is not taken up.
THEOREM LeaseSafety == Spec => [](SingleWriter /\ PendingUngranted)
  <1>1. IInv => SingleWriter /\ PendingUngranted
    BY DEF IInv, GrantsTrace, PendingUngranted, TypeOK, Nodes
  <1> QED
    BY <1>1, InitIInv, NextIInv, PTL DEF Spec
================================================================================
