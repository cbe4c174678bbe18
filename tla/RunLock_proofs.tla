--------------------------- MODULE RunLock_proofs ---------------------------
(* The lock excludes: proved for any set of operations.                    *)
EXTENDS RunLock, TLAPS

Inv == TypeOK /\ Exclusive

\* At most one operation relies on the run lease, and the lease names it.
THEOREM LockExcludes == Spec => []Inv
<1>1. Init => Inv
  BY DEF Init, Inv, TypeOK, Exclusive
<1>2. Inv /\ [Next]_vars => Inv'
  <2> SUFFICES ASSUME Inv, [Next]_vars PROVE Inv'
    OBVIOUS
  <2>1. ASSUME NEW o \in Ops, Acquire(o) PROVE Inv'
    BY <2>1 DEF Acquire, Inv, TypeOK, Exclusive
  <2>2. ASSUME NEW S \in SUBSET Ops, Stop(S) PROVE Inv'
    BY <2>2 DEF Stop, Inv, TypeOK, Exclusive
  <2>3. CASE Clear
    BY <2>3 DEF Clear, Inv, TypeOK, Exclusive
  <2>4. CASE UNCHANGED vars
    BY <2>4 DEF vars, Inv, TypeOK, Exclusive
  <2> QED
    BY <2>1, <2>2, <2>3, <2>4 DEF Next
<1> QED
  BY <1>1, <1>2, PTL DEF Spec
=============================================================================
