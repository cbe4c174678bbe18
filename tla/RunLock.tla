------------------------------ MODULE RunLock ------------------------------
(***************************************************************************)
(* What the cleanup run lease promises: a lock with crash recovery.  Only  *)
(* its holder may rely on it, and it is taken from an operation only when  *)
(* that operation no longer relies on it, because it ended, died, or was   *)
(* told that its lease is lost.                                            *)
(***************************************************************************)
CONSTANTS Ops, NoOp

VARIABLES
  holder,   \* the operation named in the lease, or NoOp
  relying   \* the operations that count on being alone

vars == <<holder, relying>>

Init == holder = NoOp /\ relying = {}

\* An operation that takes the lock need not learn of it.
Acquire(o) ==
  /\ holder \notin relying
  /\ o \notin relying
  /\ holder' = o
  /\ relying' = relying \/ relying' = relying \cup {o}

\* Operations end, die or lose the lease; the lease may be left behind.
Stop(S) ==
  /\ S \subseteq relying
  /\ S # {}
  /\ relying' = relying \ S
  /\ holder' = holder \/ (holder \in S /\ holder' = NoOp)

\* A lease nobody relies on is cleared.
Clear ==
  /\ holder \notin relying
  /\ holder' = NoOp
  /\ UNCHANGED relying

Next ==
  \/ \E o \in Ops : Acquire(o)
  \/ \E S \in SUBSET Ops : Stop(S)
  \/ Clear

Spec == Init /\ [][Next]_vars

-----------------------------------------------------------------------------
TypeOK == holder \in Ops \cup {NoOp} /\ relying \subseteq Ops

\* At most one operation relies on the lease, and it is the one named in it.
Exclusive == \A o \in relying : holder = o
=============================================================================
