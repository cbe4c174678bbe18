----------------------- MODULE CleanupMaintenanceGate -----------------------
(***************************************************************************)
(* The gate between cleanup-sensitive work, the deletion of a service and  *)
(* database maintenance (lib/library-cleanup/cleanup-maintenance-gate.ts)  *)
(* with the operations that pass it.  The gate is three variables in the   *)
(* memory of a process; an operation that may not pass is refused, it      *)
(* never waits.  What the operations touch, the database, is shared by all *)
(* processes that are configured with it.                                  *)
(***************************************************************************)
EXTENDS Integers, FiniteSets

CONSTANTS
  Processes,   \* API processes on one database
  Runs,        \* scheduler ticks: a guard, and the executor's guard inside it
  Writes,      \* mutating TRaSH requests, topology and policy writes
  Deletions,   \* exclusive deletions of an ARR service
  Backups,     \* creations of a backup
  Restores,    \* restores of a backup
  Home,        \* Home[o] is the process that serves o
  MaxRestarts  \* how many times processes restart

Shared == Runs \cup Writes
Maintenance == Backups \cup Restores
Ops == Shared \cup Deletions \cup Maintenance

\* Each kind of operation has an entry point of its own.
ASSUME KindsAreDisjoint ==
  /\ Runs \cap Writes = {} /\ Backups \cap Restores = {}
  /\ Shared \cap Deletions = {} /\ Shared \cap Maintenance = {} /\ Deletions \cap Maintenance = {}

ASSUME OperationsHaveAHome == Home \in [Ops -> Processes]
ASSUME RestartsAreBounded == MaxRestarts \in Nat

VARIABLES
  activeCleanupOperations, maintenanceActive, exclusiveCleanupOperationActive,
  pc,        \* "idle", "entered", "working", "leaving", "restored", "done"
  depth,     \* guards an operation has acquired and not released
  restarts

gateVars == <<activeCleanupOperations, maintenanceActive, exclusiveCleanupOperationActive>>
vars == <<gateVars, pc, depth, restarts>>

Steps == {"idle", "entered", "working", "leaving", "restored", "done"}

Init ==
  /\ activeCleanupOperations = [p \in Processes |-> 0]
  /\ maintenanceActive = [p \in Processes |-> FALSE]
  /\ exclusiveCleanupOperationActive = [p \in Processes |-> FALSE]
  /\ pc = [o \in Ops |-> "idle"]
  /\ depth = [o \in Ops |-> 0]
  /\ restarts = 0

-----------------------------------------------------------------------------
\* Mistakes this code could have made, for the operators named beside them.

\* AllClear: exclusive work does not look at the shared guards.
AllClearOfFlags(p) == ~maintenanceActive[p] /\ ~exclusiveCleanupOperationActive[p]

\* KeepsHold: a restore lets go of the gate before the restart.
KeepsHoldNever(o) == o \notin Ops

\* SharedClear: shared work looks only for maintenance.
SharedClearOfMaintenance(p) == ~maintenanceActive[p]

\* AcquireGuard: the shared guard is a flag.
AcquireGuardFlag(o) ==
  /\ activeCleanupOperations' = [activeCleanupOperations EXCEPT ![Home[o]] = 1]
  /\ depth' = [depth EXCEPT ![o] = @ + 1]
  /\ UNCHANGED <<maintenanceActive, exclusiveCleanupOperationActive, restarts>>

-----------------------------------------------------------------------------
SharedClear(p) == ~maintenanceActive[p] /\ ~exclusiveCleanupOperationActive[p]

AllClear(p) == SharedClear(p) /\ activeCleanupOperations[p] = 0

Goto(o, step) == pc' = [pc EXCEPT ![o] = step]

Refused(o) == Goto(o, "done") /\ UNCHANGED <<gateVars, depth, restarts>>

AcquireGuard(o) ==
  /\ activeCleanupOperations' = [activeCleanupOperations EXCEPT ![Home[o]] = @ + 1]
  /\ depth' = [depth EXCEPT ![o] = @ + 1]
  /\ UNCHANGED <<maintenanceActive, exclusiveCleanupOperationActive, restarts>>

\* withCleanupOperationGuard, acquireCleanupOperationGuard
EnterShared(o) ==
  /\ o \in Shared
  /\ pc[o] = "idle"
  /\ \/ /\ SharedClear(Home[o])
        /\ AcquireGuard(o)
        /\ Goto(o, IF o \in Runs THEN "entered" ELSE "working")
     \/ ~SharedClear(Home[o]) /\ Refused(o)

\* The tick calls the executor, which takes a guard of its own.  An error
\* unwinds to the outer guard.
EnterNested(o) ==
  /\ pc[o] = "entered"
  /\ \/ /\ SharedClear(Home[o])
        /\ AcquireGuard(o)
        /\ Goto(o, "working")
     \/ /\ ~SharedClear(Home[o])
        /\ Goto(o, "leaving")
        /\ UNCHANGED <<gateVars, depth, restarts>>

\* The work ends, well or with an error.
FinishShared(o) ==
  /\ o \in Shared
  /\ pc[o] \in {"entered", "working"}
  /\ Goto(o, "leaving")
  /\ UNCHANGED <<gateVars, depth, restarts>>

\* A release, innermost first; a second call of the same release does nothing.
LeaveShared(o) ==
  /\ o \in Shared
  /\ pc[o] = "leaving"
  /\ activeCleanupOperations' = [activeCleanupOperations EXCEPT ![Home[o]] = @ - 1]
  /\ depth' = [depth EXCEPT ![o] = @ - 1]
  /\ Goto(o, IF depth[o] = 1 THEN "done" ELSE "leaving")
  /\ UNCHANGED <<maintenanceActive, exclusiveCleanupOperationActive, restarts>>

\* withExclusiveCleanupOperationGuard
EnterExclusive(o) ==
  /\ o \in Deletions
  /\ pc[o] = "idle"
  /\ \/ /\ AllClear(Home[o])
        /\ exclusiveCleanupOperationActive' =
             [exclusiveCleanupOperationActive EXCEPT ![Home[o]] = TRUE]
        /\ Goto(o, "working")
        /\ UNCHANGED <<activeCleanupOperations, maintenanceActive, depth, restarts>>
     \/ ~AllClear(Home[o]) /\ Refused(o)

LeaveExclusive(o) ==
  /\ o \in Deletions
  /\ pc[o] = "working"
  /\ exclusiveCleanupOperationActive' =
       [exclusiveCleanupOperationActive EXCEPT ![Home[o]] = FALSE]
  /\ Goto(o, "done")
  /\ UNCHANGED <<activeCleanupOperations, maintenanceActive, depth, restarts>>

\* withCleanupMaintenanceGuard
EnterMaintenance(o) ==
  /\ o \in Maintenance
  /\ pc[o] = "idle"
  /\ \/ /\ AllClear(Home[o])
        /\ maintenanceActive' = [maintenanceActive EXCEPT ![Home[o]] = TRUE]
        /\ Goto(o, "working")
        /\ UNCHANGED <<activeCleanupOperations, exclusiveCleanupOperationActive,
                       depth, restarts>>
     \/ ~AllClear(Home[o]) /\ Refused(o)

\* holdAfterSuccess, which only a restore asks for.
KeepsHold(o) == o \in Restores

\* The maintenance ends, well or with an error.  A restored database waits for
\* the restart of the process.
LeaveMaintenance(o) ==
  /\ o \in Maintenance
  /\ pc[o] = "working"
  /\ \E succeeded \in BOOLEAN :
       /\ maintenanceActive' =
            [maintenanceActive EXCEPT ![Home[o]] = succeeded /\ KeepsHold(o)]
       /\ Goto(o, IF succeeded /\ o \in Restores THEN "restored" ELSE "done")
  /\ UNCHANGED <<activeCleanupOperations, exclusiveCleanupOperationActive, depth, restarts>>

\* A process exits and a new one takes its place: after a restore, on request,
\* or because it crashed.
Restart(p) ==
  LET here == {o \in Ops : Home[o] = p} IN
  /\ restarts < MaxRestarts
  /\ restarts' = restarts + 1
  /\ activeCleanupOperations' = [activeCleanupOperations EXCEPT ![p] = 0]
  /\ maintenanceActive' = [maintenanceActive EXCEPT ![p] = FALSE]
  /\ exclusiveCleanupOperationActive' = [exclusiveCleanupOperationActive EXCEPT ![p] = FALSE]
  /\ pc' = [o \in Ops |-> IF o \in here /\ pc[o] # "idle" THEN "done" ELSE pc[o]]
  /\ depth' = [o \in Ops |-> IF o \in here THEN 0 ELSE depth[o]]

Next ==
  \/ \E o \in Ops : \/ EnterShared(o) \/ EnterNested(o) \/ FinishShared(o) \/ LeaveShared(o)
                    \/ EnterExclusive(o) \/ LeaveExclusive(o)
                    \/ EnterMaintenance(o) \/ LeaveMaintenance(o)
  \/ \E p \in Processes : Restart(p)

Spec == Init /\ [][Next]_vars

-----------------------------------------------------------------------------
TypeOK ==
  /\ activeCleanupOperations \in [Processes -> Int]
  /\ maintenanceActive \in [Processes -> BOOLEAN]
  /\ exclusiveCleanupOperationActive \in [Processes -> BOOLEAN]
  /\ pc \in [Ops -> Steps]
  /\ depth \in [Ops -> 0 .. 2]
  /\ restarts \in 0 .. MaxRestarts

\* The guards that operations of process p hold, one pair for each.
HeldGuards(p) == {g \in Ops \X (1 .. 2) : Home[g[1]] = p /\ g[2] <= depth[g[1]]}

Occupied(p, S) == \E o \in S : Home[o] = p /\ pc[o] \in {"working", "restored"}

\* What the gate remembers is what the operations of its process do, however
\* they nest, fail and die: no guard leaks, which would refuse maintenance for
\* ever, and none is given back twice, which would let it in too early.
GateMatchesOperations ==
  \A p \in Processes :
    /\ activeCleanupOperations[p] = Cardinality(HeldGuards(p))
    /\ maintenanceActive[p] <=> Occupied(p, Maintenance)
    /\ exclusiveCleanupOperationActive[p] <=> Occupied(p, Deletions)

\* A tick that passed the gate is not refused when its executor asks again.
NestedGuardIsGranted ==
  \A o \in Ops : pc[o] = "entered" => SharedClear(Home[o])

\* A database restore is the exclusive writer of its database, and stays alone
\* until the restart that reloads what it replaced: the claim of the gate's
\* header comment.  Holds if one process serves the database.
RestoreIsAlone ==
  \A r \in Restores, o \in Ops \ Restores :
    pc[r] \in {"working", "restored"} => pc[o] \notin {"entered", "working"}

\* The deletion of a service overlaps no other cleanup-sensitive work.
DeletionIsAlone ==
  \A d \in Deletions : \A o \in Ops \ {d} :
    pc[d] = "working" => pc[o] \notin {"entered", "working"}
=============================================================================
