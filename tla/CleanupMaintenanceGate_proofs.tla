-------------------- MODULE CleanupMaintenanceGate_proofs --------------------
(***************************************************************************)
(* What the gate keeps for any processes, operations and restarts: it      *)
(* remembers exactly what the operations of its process do, and exclusive  *)
(* work is alone in its process.                                           *)
(***************************************************************************)
EXTENDS CleanupMaintenanceGate, FiniteSetTheorems, TLAPS

Exclusive == Deletions \cup Maintenance

Away(o) == pc[o] \in {"idle", "done"}

\* What an operation of each kind may be doing, and the guards it holds then.
DepthOfStep ==
  \A o \in Ops :
    /\ o \in Exclusive => depth[o] = 0 /\ pc[o] \in {"idle", "working", "restored", "done"}
    /\ o \in Deletions => pc[o] # "restored"
    /\ o \in Shared => pc[o] # "restored"
    /\ o \in Shared /\ Away(o) => depth[o] = 0
    /\ pc[o] = "entered" => depth[o] = 1
    /\ o \in Shared /\ pc[o] = "working" => depth[o] \in {1, 2}
    /\ pc[o] = "leaving" => depth[o] \in {1, 2}

\* The gate counts the guards that are held.
Counted ==
  \A p \in Processes :
    /\ IsFiniteSet(HeldGuards(p))
    /\ activeCleanupOperations[p] = Cardinality(HeldGuards(p))

\* The flags are up while exclusive work is under way.
Flagged ==
  \A p \in Processes :
    /\ maintenanceActive[p] <=> Occupied(p, Maintenance)
    /\ exclusiveCleanupOperationActive[p] <=> Occupied(p, Deletions)

\* Exclusive work is alone in its process.
Alone ==
  \A o \in Exclusive, x \in Ops :
    ~Away(o) /\ x # o /\ Home[x] = Home[o] => Away(x)

GateInv == TypeOK /\ DepthOfStep /\ Counted /\ Flagged /\ Alone

\* Every operation is of one kind, and has a home.
LEMMA Kinds ==
  /\ Ops = Shared \cup Exclusive /\ Shared \cap Exclusive = {}
  /\ Exclusive = Deletions \cup Maintenance /\ Deletions \cap Maintenance = {}
  /\ Runs \subseteq Shared /\ Restores \subseteq Maintenance
  /\ Shared \subseteq Ops /\ Deletions \subseteq Ops /\ Maintenance \subseteq Ops
  /\ \A o \in Ops : Home[o] \in Processes
BY KindsAreDisjoint, OperationsHaveAHome DEF Ops, Shared, Exclusive, Maintenance

-----------------------------------------------------------------------------
(***************************************************************************)
(* Guards                                                                  *)
(***************************************************************************)

\* An acquired guard is one more, a released one is one less, and nothing else
\* changes which guards are held.
LEMMA GuardAcquired ==
  ASSUME TypeOK, Counted, NEW o \in Ops, depth[o] \in {0, 1}, AcquireGuard(o)
  PROVE  Counted' /\ depth' \in [Ops -> 0 .. 2]
<1>1. /\ depth \in [Ops -> 0 .. 2] /\ activeCleanupOperations \in [Processes -> Int]
      /\ depth' = [depth EXCEPT ![o] = @ + 1]
      /\ activeCleanupOperations' = [activeCleanupOperations EXCEPT ![Home[o]] = @ + 1]
  BY DEF TypeOK, AcquireGuard
<1>2. depth' \in [Ops -> 0 .. 2] /\ depth[o] + 1 \in 1 .. 2
  BY <1>1
<1>3. ASSUME NEW p \in Processes
      PROVE  /\ IsFiniteSet(HeldGuards(p)')
             /\ activeCleanupOperations'[p] = Cardinality(HeldGuards(p)')
  <2>1. IsFiniteSet(HeldGuards(p)) /\ activeCleanupOperations[p] = Cardinality(HeldGuards(p))
    BY DEF Counted
  <2>2. CASE p = Home[o]
    <3> DEFINE g == <<o, depth[o] + 1>>
    <3>1. HeldGuards(p)' = HeldGuards(p) \cup {g}
      BY <1>1, <1>2, <2>2 DEF HeldGuards
    <3>2. g \notin HeldGuards(p)
      BY <1>1 DEF HeldGuards
    <3> HIDE DEF g
    <3>3. IsFiniteSet(HeldGuards(p)') /\ Cardinality(HeldGuards(p)') = Cardinality(HeldGuards(p)) + 1
      BY <2>1, <3>1, <3>2, FS_AddElement
    <3>4. activeCleanupOperations'[p] = activeCleanupOperations[p] + 1
      BY <1>1, <2>2
    <3> QED BY <2>1, <3>3, <3>4
  <2>3. CASE p # Home[o]
    <3>1. HeldGuards(p)' = HeldGuards(p)
      BY <1>1, <2>3 DEF HeldGuards
    <3>2. activeCleanupOperations'[p] = activeCleanupOperations[p]
      BY <1>1, <2>3
    <3> QED BY <2>1, <3>1, <3>2
  <2> QED BY <2>2, <2>3
<1> QED BY <1>2, <1>3 DEF Counted

LEMMA GuardReleased ==
  ASSUME TypeOK, Counted, NEW o \in Ops, depth[o] \in {1, 2},
         activeCleanupOperations' = [activeCleanupOperations EXCEPT ![Home[o]] = @ - 1],
         depth' = [depth EXCEPT ![o] = @ - 1]
  PROVE  Counted' /\ depth' \in [Ops -> 0 .. 2]
<1>1. depth \in [Ops -> 0 .. 2] /\ activeCleanupOperations \in [Processes -> Int]
  BY DEF TypeOK
<1>2. depth' \in [Ops -> 0 .. 2] /\ depth[o] \in 1 .. 2
  BY <1>1
<1>3. ASSUME NEW p \in Processes
      PROVE  /\ IsFiniteSet(HeldGuards(p)')
             /\ activeCleanupOperations'[p] = Cardinality(HeldGuards(p)')
  <2>1. IsFiniteSet(HeldGuards(p)) /\ activeCleanupOperations[p] = Cardinality(HeldGuards(p))
    BY DEF Counted
  <2>2. CASE p = Home[o]
    <3> DEFINE g == <<o, depth[o]>>
    <3>1. HeldGuards(p)' = HeldGuards(p) \ {g}
      BY <1>1, <1>2, <2>2 DEF HeldGuards
    <3>2. g \in HeldGuards(p)
      BY <1>1, <1>2, <2>2 DEF HeldGuards
    <3> HIDE DEF g
    <3>3. IsFiniteSet(HeldGuards(p)') /\ Cardinality(HeldGuards(p)') = Cardinality(HeldGuards(p)) - 1
      BY <2>1, <3>1, <3>2, FS_RemoveElement
    <3>4. activeCleanupOperations'[p] = activeCleanupOperations[p] - 1
      BY <1>1, <2>2
    <3> QED BY <2>1, <3>3, <3>4
  <2>3. CASE p # Home[o]
    <3>1. HeldGuards(p)' = HeldGuards(p)
      BY <1>1, <2>3 DEF HeldGuards
    <3>2. activeCleanupOperations'[p] = activeCleanupOperations[p]
      BY <1>1, <2>3
    <3> QED BY <2>1, <3>1, <3>2
  <2> QED BY <2>2, <2>3
<1> QED BY <1>2, <1>3 DEF Counted

LEMMA GuardsKept ==
  ASSUME Counted, UNCHANGED <<depth, activeCleanupOperations>>
  PROVE  Counted'
BY DEF Counted, HeldGuards

\* Where the count is zero, nobody holds a guard.
LEMMA NoGuard ==
  ASSUME TypeOK, Counted, NEW p \in Processes, activeCleanupOperations[p] = 0,
         NEW o \in Ops, Home[o] = p
  PROVE  depth[o] = 0
<1>1. HeldGuards(p) = {}
  BY FS_EmptySet DEF Counted
<1>2. depth[o] \in 0 .. 2 /\ (depth[o] # 0 => <<o, 1>> \in HeldGuards(p))
  BY DEF HeldGuards, TypeOK
<1> QED BY <1>1, <1>2

\* Where the gate is clear for exclusive work, everybody is away.
LEMMA ClearIsEmpty ==
  ASSUME GateInv, NEW p \in Processes, AllClear(p), NEW o \in Ops, Home[o] = p
  PROVE  Away(o)
<1> USE DEF GateInv, TypeOK
<1>1. depth[o] = 0 /\ ~Occupied(p, Maintenance) /\ ~Occupied(p, Deletions)
  BY NoGuard DEF AllClear, SharedClear, Flagged
<1>2. CASE o \in Exclusive
  BY <1>1, <1>2, Kinds DEF Occupied, DepthOfStep, Away
<1>3. CASE o \in Shared
  BY <1>1, <1>3, Kinds DEF DepthOfStep, Away, Steps
<1> QED BY <1>2, <1>3, Kinds

\* Where it is clear for shared work, no exclusive work is under way.
LEMMA SharedClearIsShared ==
  ASSUME GateInv, NEW p \in Processes, SharedClear(p), NEW o \in Exclusive, Home[o] = p
  PROVE  Away(o)
<1>1. ~Occupied(p, Maintenance) /\ ~Occupied(p, Deletions)
  BY DEF GateInv, Flagged, SharedClear
<1> QED BY <1>1, Kinds DEF GateInv, DepthOfStep, Occupied, Away

-----------------------------------------------------------------------------
LEMMA InitGate == Init => GateInv
<1> SUFFICES ASSUME Init PROVE GateInv
  OBVIOUS
<1>1. TypeOK
  BY RestartsAreBounded DEF Init, TypeOK, Steps
<1>2. DepthOfStep /\ Flagged /\ Alone
  BY Kinds DEF Init, DepthOfStep, Flagged, Occupied, Alone, Away
<1>3. Counted
  <2>1. \A p \in Processes : HeldGuards(p) = {}
    BY DEF Init, HeldGuards
  <2> QED BY <2>1, FS_EmptySet DEF Init, Counted
<1> QED BY <1>1, <1>2, <1>3 DEF GateInv

\* One operation goes on; what the flags of its process say is told below.
LEMMA StepFrame ==
  ASSUME TypeOK, NEW o \in Ops, NEW s \in Steps, Goto(o, s)
  PROVE  pc' \in [Ops -> Steps] /\ pc'[o] = s /\ \A x \in Ops \ {o} : pc'[x] = pc[x]
BY DEF TypeOK, Goto

\* Shared work that goes on leaves exclusive work as it is, if it was there
\* before or found the gate clear.
LEMMA SharedKeeps ==
  ASSUME GateInv, NEW o \in Shared, NEW s \in Steps \ {"restored"}, Goto(o, s),
         ~Away(o) \/ SharedClear(Home[o]) \/ s = "done",
         UNCHANGED <<maintenanceActive, exclusiveCleanupOperationActive>>
  PROVE  Flagged' /\ Alone'
<1> USE DEF GateInv
<1>1. o \in Ops /\ o \notin Exclusive /\ o \notin Maintenance /\ o \notin Deletions /\ Home[o] \in Processes
  BY Kinds
<1>2. pc'[o] = s /\ \A x \in Ops \ {o} : pc'[x] = pc[x]
  BY <1>1, StepFrame
<1>3. Flagged'
  <2>1. ASSUME NEW p \in Processes
        PROVE  /\ Occupied(p, Maintenance)' <=> Occupied(p, Maintenance)
               /\ Occupied(p, Deletions)' <=> Occupied(p, Deletions)
    BY <1>1, <1>2, Kinds DEF Occupied
  <2> QED BY <2>1 DEF Flagged
<1>4. Alone'
  <2> SUFFICES ASSUME NEW e \in Exclusive, NEW x \in Ops, ~Away(e)', x # e, Home[x] = Home[e]
               PROVE  Away(x)'
    BY DEF Alone, Away
  <2>1. e \in Ops /\ e # o /\ ~Away(e)
    BY <1>1, <1>2, Kinds DEF Away
  <2>2. CASE x = o
    <3>1. ~(~Away(o)) \/ FALSE
      BY <2>1, <2>2 DEF Alone
    <3>2. ~SharedClear(Home[o])
      BY <1>1, <2>1, <2>2, SharedClearIsShared
    <3> QED BY <1>2, <2>2, <3>1, <3>2 DEF Away
  <2>3. CASE x # o
    BY <1>2, <2>1, <2>3 DEF Alone, Away
  <2> QED BY <2>2, <2>3
<1> QED BY <1>3, <1>4

LEMMA SharedStepKeeps ==
  ASSUME GateInv, NEW o \in Ops,
         EnterShared(o) \/ EnterNested(o) \/ FinishShared(o) \/ LeaveShared(o)
  PROVE  GateInv'
<1> USE DEF GateInv, gateVars
<1>1. o \in Shared /\ o \notin Exclusive /\ o \notin Deletions
  BY Kinds DEF EnterShared, EnterNested, FinishShared, LeaveShared, DepthOfStep
<1>2. PICK s \in {"entered", "working", "leaving", "done"} : Goto(o, s)
  BY DEF EnterShared, EnterNested, FinishShared, LeaveShared, Refused
<1>3. s \in Steps \ {"restored"}
  BY <1>2 DEF Steps
<1>4. pc' \in [Ops -> Steps] /\ pc'[o] = s /\ \A x \in Ops \ {o} : pc'[x] = pc[x]
  BY <1>2, <1>3, StepFrame
<1>5. UNCHANGED <<maintenanceActive, exclusiveCleanupOperationActive, restarts>>
  BY DEF EnterShared, EnterNested, FinishShared, LeaveShared, Refused, AcquireGuard
<1>6. ~Away(o) \/ SharedClear(Home[o]) \/ s = "done"
  BY <1>2, <1>4 DEF EnterShared, EnterNested, FinishShared, LeaveShared, Refused, Goto, TypeOK, Away
<1>7. Flagged' /\ Alone'
  BY <1>1, <1>2, <1>3, <1>5, <1>6, SharedKeeps
<1>8. /\ Counted' /\ depth' \in [Ops -> 0 .. 2]
      /\ \A x \in Ops \ {o} : depth'[x] = depth[x]
      /\ s = "entered" => depth'[o] = 1
      /\ s \in {"working", "leaving"} => depth'[o] \in {1, 2}
      /\ s = "done" => depth'[o] = 0
      /\ activeCleanupOperations' \in [Processes -> Int]
  <2>a. /\ depth \in [Ops -> 0 .. 2] /\ Home[o] \in Processes
        /\ activeCleanupOperations \in [Processes -> Int]
    BY Kinds DEF TypeOK
  <2>1. CASE EnterShared(o) /\ AcquireGuard(o) /\ Goto(o, IF o \in Runs THEN "entered" ELSE "working")
    <3>1. depth[o] = 0
      BY <1>1, <2>1 DEF EnterShared, DepthOfStep, Away
    <3>2. s \in {"entered", "working"}
      BY <1>4, <2>1 DEF Goto, TypeOK
    <3>3. Counted' /\ depth' \in [Ops -> 0 .. 2]
      BY <2>1, <3>1, GuardAcquired
    <3>4. /\ depth'[o] = 1 /\ \A x \in Ops \ {o} : depth'[x] = depth[x]
          /\ activeCleanupOperations' \in [Processes -> Int]
      BY <2>1, <2>a, <3>1 DEF AcquireGuard
    <3> QED BY <3>2, <3>3, <3>4
  <2>2. CASE EnterShared(o) /\ Refused(o)
    <3>1. depth[o] = 0 /\ s = "done" /\ UNCHANGED <<depth, activeCleanupOperations>>
      BY <1>1, <1>4, <2>2 DEF EnterShared, Refused, Goto, TypeOK, DepthOfStep, Away
    <3> QED BY <2>a, <3>1, GuardsKept
  <2>3. CASE EnterNested(o) /\ AcquireGuard(o)
    <3>1. depth[o] = 1 /\ s \in {"working", "leaving"}
      BY <1>2, <1>4, <2>3 DEF EnterNested, Goto, TypeOK, DepthOfStep
    <3>2. Counted' /\ depth' \in [Ops -> 0 .. 2]
      BY <2>3, <3>1, GuardAcquired
    <3>3. /\ depth'[o] = 2 /\ \A x \in Ops \ {o} : depth'[x] = depth[x]
          /\ activeCleanupOperations' \in [Processes -> Int]
      BY <2>3, <2>a, <3>1 DEF AcquireGuard
    <3> QED BY <3>1, <3>2, <3>3
  <2>4. CASE EnterNested(o) /\ UNCHANGED <<gateVars, depth, restarts>>
    <3>1. depth[o] = 1 /\ s \in {"working", "leaving"}
      BY <1>2, <1>4, <2>4 DEF EnterNested, Goto, TypeOK, DepthOfStep
    <3> QED BY <2>4, <2>a, <3>1, GuardsKept
  <2>5. CASE FinishShared(o)
    <3>1. depth[o] \in {1, 2} /\ s = "leaving" /\ UNCHANGED <<depth, activeCleanupOperations>>
      BY <1>1, <1>4, <2>5 DEF FinishShared, Goto, TypeOK, DepthOfStep
    <3> QED BY <2>a, <3>1, GuardsKept
  <2>6. CASE LeaveShared(o)
    <3>1. /\ depth[o] \in {1, 2}
          /\ activeCleanupOperations' = [activeCleanupOperations EXCEPT ![Home[o]] = @ - 1]
          /\ depth' = [depth EXCEPT ![o] = @ - 1]
          /\ s = IF depth[o] = 1 THEN "done" ELSE "leaving"
      BY <1>4, <2>6 DEF LeaveShared, Goto, TypeOK, DepthOfStep
    <3>2. Counted' /\ depth' \in [Ops -> 0 .. 2]
      BY <3>1, GuardReleased
    <3>3. /\ depth'[o] = depth[o] - 1 /\ \A x \in Ops \ {o} : depth'[x] = depth[x]
          /\ activeCleanupOperations' \in [Processes -> Int]
      BY <2>a, <3>1
    <3>4. (depth[o] = 1 /\ s = "done") \/ (depth[o] = 2 /\ s = "leaving")
      BY <3>1
    <3>5. (depth'[o] = 0 /\ s = "done") \/ (depth'[o] = 1 /\ s = "leaving")
      BY <3>3, <3>4
    <3> QED BY <3>2, <3>3, <3>5
  <2>7. CASE EnterShared(o)
    BY <2>1, <2>2, <2>7 DEF EnterShared
  <2>8. CASE EnterNested(o)
    BY <2>3, <2>4, <2>8 DEF EnterNested
  <2> QED BY <2>5, <2>6, <2>7, <2>8
<1>9. DepthOfStep'
  <2>1. \A x \in Ops \ {o} : pc'[x] = pc[x] /\ depth'[x] = depth[x]
    BY <1>4, <1>8
  <2>2. \A x \in Ops \ {o} : Away(x)' <=> Away(x)
    BY <2>1 DEF Away
  <2>3. Away(o)' <=> s = "done"
    BY <1>2, <1>4 DEF Away
  <2> QED BY <1>1, <1>2, <1>4, <1>8, <2>1, <2>2, <2>3 DEF DepthOfStep
<1>10. TypeOK'
  BY <1>4, <1>5, <1>8 DEF TypeOK
<1> QED BY <1>7, <1>8, <1>9, <1>10

\* Exclusive work enters an empty process, is refused, or ends.
LEMMA ExclusiveStepKeeps ==
  ASSUME GateInv, NEW o \in Ops,
         EnterExclusive(o) \/ LeaveExclusive(o) \/ EnterMaintenance(o) \/ LeaveMaintenance(o)
  PROVE  GateInv'
<1> USE DEF GateInv, gateVars
<1>1. o \in Exclusive /\ o \notin Shared /\ Home[o] \in Processes
  BY Kinds DEF EnterExclusive, LeaveExclusive, EnterMaintenance, LeaveMaintenance
<1>2. PICK s \in {"working", "restored", "done"} : Goto(o, s)
  BY DEF EnterExclusive, LeaveExclusive, EnterMaintenance, LeaveMaintenance, Refused
<1>3. pc' \in [Ops -> Steps] /\ pc'[o] = s /\ \A x \in Ops \ {o} : pc'[x] = pc[x]
  <2>1. s \in Steps
    BY <1>2 DEF Steps
  <2> QED BY <1>2, <2>1, StepFrame
<1>4. UNCHANGED <<activeCleanupOperations, depth, restarts>>
  BY DEF EnterExclusive, LeaveExclusive, EnterMaintenance, LeaveMaintenance, Refused
<1>5. Counted'
  BY <1>4, GuardsKept
<1>6. s = "restored" => o \in Maintenance
  BY <1>2, <1>3 DEF EnterExclusive, LeaveExclusive, EnterMaintenance, LeaveMaintenance, Refused, Goto, TypeOK
<1>7. ~Away(o) \/ s = "done" \/ AllClear(Home[o])
  BY <1>2, <1>3 DEF EnterExclusive, LeaveExclusive, EnterMaintenance, LeaveMaintenance, Refused, Goto,
     TypeOK, Away
<1>8. \A x \in Ops \ {o} : Home[x] = Home[o] => Away(x) \/ s = "done"
  BY <1>1, <1>7, ClearIsEmpty DEF Alone
<1>9. Alone'
  <2> SUFFICES ASSUME NEW e \in Exclusive, NEW x \in Ops, ~Away(e)', x # e, Home[x] = Home[e]
               PROVE  Away(x)'
    BY DEF Alone, Away
  <2>1. CASE e = o
    BY <1>3, <1>8, <2>1 DEF Away
  <2>2. CASE e # o
    <3>1. e \in Ops /\ ~Away(e)
      BY <1>3, <2>2, Kinds DEF Away
    <3>2. CASE x = o
      BY <1>3, <1>8, <3>1, <3>2, <2>2 DEF Away
    <3>3. CASE x # o
      BY <1>3, <3>1, <3>3 DEF Alone, Away
    <3> QED BY <3>2, <3>3
  <2> QED BY <2>1, <2>2
<1>10. DepthOfStep'
  <2>1. \A x \in Ops : depth'[x] = depth[x]
    BY <1>4
  <2>2. \A x \in Ops \ {o} : Away(x)' <=> Away(x)
    BY <1>3 DEF Away
  <2> QED BY <1>1, <1>2, <1>3, <1>6, <2>1, <2>2, Kinds DEF DepthOfStep
<1>11. /\ maintenanceActive' \in [Processes -> BOOLEAN]
       /\ exclusiveCleanupOperationActive' \in [Processes -> BOOLEAN]
  BY DEF EnterExclusive, LeaveExclusive, EnterMaintenance, LeaveMaintenance, Refused, TypeOK, KeepsHold
<1>12. TypeOK'
  BY <1>3, <1>4, <1>11 DEF TypeOK
<1>13. Flagged'
  <2> SUFFICES ASSUME NEW p \in Processes
               PROVE  /\ maintenanceActive'[p] <=> Occupied(p, Maintenance)'
                      /\ exclusiveCleanupOperationActive'[p] <=> Occupied(p, Deletions)'
    BY DEF Flagged
  <2>a. /\ maintenanceActive[p] <=> Occupied(p, Maintenance)
        /\ exclusiveCleanupOperationActive[p] <=> Occupied(p, Deletions)
    BY DEF Flagged
  <2>b. /\ maintenanceActive \in [Processes -> BOOLEAN]
        /\ exclusiveCleanupOperationActive \in [Processes -> BOOLEAN]
    BY DEF TypeOK
  <2>1. CASE Home[o] # p
    <3>1. \A x \in Ops : Home[x] = p => pc'[x] = pc[x]
      BY <1>3, <2>1
    <3>2. /\ Occupied(p, Maintenance)' <=> Occupied(p, Maintenance)
          /\ Occupied(p, Deletions)' <=> Occupied(p, Deletions)
      BY <3>1, Kinds DEF Occupied
    <3>3. /\ maintenanceActive'[p] = maintenanceActive[p]
          /\ exclusiveCleanupOperationActive'[p] = exclusiveCleanupOperationActive[p]
      BY <1>1, <2>1, <2>b DEF EnterExclusive, LeaveExclusive, EnterMaintenance, LeaveMaintenance, Refused
    <3> QED BY <2>a, <3>2, <3>3
  <2>2. CASE Home[o] = p /\ pc[o] = "idle" /\ Refused(o)
    <3>1. pc[o] = "idle" /\ pc'[o] = "done"
      BY <2>2 DEF Refused, Goto, TypeOK
    <3>2. /\ Occupied(p, Maintenance)' <=> Occupied(p, Maintenance)
          /\ Occupied(p, Deletions)' <=> Occupied(p, Deletions)
      BY <1>3, <3>1, Kinds DEF Occupied
    <3> QED BY <2>2, <2>a, <3>2 DEF Refused
  <2>3. CASE Home[o] = p /\ s # "done"
    <3>1. \A x \in Ops \ {o} : Home[x] = p => Away(x) /\ Away(x)'
      BY <1>3, <1>8, <2>3 DEF Away
    <3>2. CASE o \in Deletions
      <4>1. EnterExclusive(o) /\ s = "working" /\ AllClear(p)
        <5>1. EnterExclusive(o) \/ LeaveExclusive(o)
          BY <3>2, Kinds DEF EnterMaintenance, LeaveMaintenance
        <5>2. ~LeaveExclusive(o) /\ ~Refused(o)
          BY <1>3, <2>3 DEF LeaveExclusive, Refused, Goto, TypeOK
        <5>3. AllClear(Home[o]) /\ Goto(o, "working")
          BY <5>1, <5>2 DEF EnterExclusive
        <5> QED BY <1>3, <2>3, <5>1, <5>2, <5>3 DEF Goto, TypeOK
      <4>2. exclusiveCleanupOperationActive'[p] /\ ~maintenanceActive'[p]
        BY <2>3, <2>b, <4>1, <3>2 DEF EnterExclusive, AllClear, SharedClear
      <4>3. Occupied(p, Deletions)'
        BY <1>3, <2>3, <3>2, <4>1 DEF Occupied
      <4>4. ~Occupied(p, Maintenance)'
        BY <3>1, <3>2, Kinds DEF Occupied, Away
      <4> QED BY <4>2, <4>3, <4>4
    <3>3. CASE o \in Maintenance
      <4>1. maintenanceActive'[p]
        <5>1. EnterMaintenance(o) \/ LeaveMaintenance(o)
          BY <3>3, Kinds DEF EnterExclusive, LeaveExclusive
        <5>2. ~Refused(o)
          BY <1>3, <2>3 DEF Refused, Goto, TypeOK
        <5>3. CASE EnterMaintenance(o)
          BY <2>3, <2>b, <5>2, <5>3 DEF EnterMaintenance
        <5>4. CASE LeaveMaintenance(o)
          <6>1. PICK succeeded \in BOOLEAN :
                  /\ maintenanceActive' =
                       [maintenanceActive EXCEPT ![Home[o]] = succeeded /\ KeepsHold(o)]
                  /\ Goto(o, IF succeeded /\ o \in Restores THEN "restored" ELSE "done")
            BY <5>4 DEF LeaveMaintenance
          <6>2. succeeded /\ o \in Restores
            BY <1>3, <2>3, <6>1 DEF Goto, TypeOK
          <6>3. maintenanceActive'[p] = (succeeded /\ o \in Restores)
            BY <2>3, <2>b, <6>1 DEF KeepsHold
          <6> QED BY <6>2, <6>3
        <5> QED BY <5>1, <5>3, <5>4
      <4>2. Occupied(p, Maintenance)'
        BY <1>2, <1>3, <2>3, <3>3 DEF Occupied
      <4>3. ~Occupied(p, Deletions)' /\ ~Occupied(p, Deletions)
        BY <3>1, <3>3, Kinds DEF Occupied, Away
      <4>4. UNCHANGED exclusiveCleanupOperationActive
        BY <3>3, Kinds DEF EnterExclusive, LeaveExclusive, EnterMaintenance, LeaveMaintenance, Refused
      <4> QED BY <2>a, <4>1, <4>2, <4>3, <4>4
    <3> QED BY <1>1, <3>2, <3>3, Kinds
  <2>4. CASE Home[o] = p /\ pc[o] # "idle" /\ s = "done"
    <3>1. pc[o] = "working" /\ pc'[o] = "done"
      BY <1>3, <2>4 DEF EnterExclusive, LeaveExclusive, EnterMaintenance, LeaveMaintenance
    <3>2. \A x \in Ops \ {o} : Home[x] = p => Away(x) /\ Away(x)'
      BY <1>1, <1>3, <2>4, <3>1 DEF Alone, Away
    <3>3. ~Occupied(p, Maintenance)' /\ ~Occupied(p, Deletions)'
      BY <3>1, <3>2, Kinds DEF Occupied, Away
    <3>4. CASE o \in Deletions
      <4>1. ~exclusiveCleanupOperationActive'[p] /\ UNCHANGED maintenanceActive
        BY <2>4, <2>b, <3>1, <3>4, Kinds DEF EnterExclusive, LeaveExclusive, EnterMaintenance, LeaveMaintenance
      <4>2. ~Occupied(p, Maintenance)
        BY <3>2, <3>4, Kinds DEF Occupied, Away
      <4> QED BY <2>a, <3>3, <4>1, <4>2
    <3>5. CASE o \in Maintenance
      <4>1. ~maintenanceActive'[p] /\ UNCHANGED exclusiveCleanupOperationActive
        <5>1. LeaveMaintenance(o)
          BY <3>1, <3>5, Kinds DEF EnterExclusive, LeaveExclusive, EnterMaintenance
        <5>2. PICK succeeded \in BOOLEAN :
                /\ maintenanceActive' =
                     [maintenanceActive EXCEPT ![Home[o]] = succeeded /\ KeepsHold(o)]
                /\ Goto(o, IF succeeded /\ o \in Restores THEN "restored" ELSE "done")
          BY <5>1 DEF LeaveMaintenance
        <5>3. ~(succeeded /\ o \in Restores)
          BY <1>3, <3>1, <5>2 DEF Goto, TypeOK
        <5>4. maintenanceActive'[p] = (succeeded /\ o \in Restores)
          BY <2>4, <2>b, <5>2 DEF KeepsHold
        <5> QED BY <5>1, <5>3, <5>4 DEF LeaveMaintenance
      <4>2. ~Occupied(p, Deletions)
        BY <3>2, <3>5, Kinds DEF Occupied, Away
      <4> QED BY <2>a, <3>3, <4>1, <4>2
    <3> QED BY <1>1, <3>4, <3>5, Kinds
  <2>5. pc[o] = "idle" /\ s = "done" => Refused(o)
    BY <1>3 DEF EnterExclusive, LeaveExclusive, EnterMaintenance, LeaveMaintenance, Goto, TypeOK
  <2> QED BY <2>1, <2>2, <2>3, <2>4, <2>5
<1> QED BY <1>5, <1>9, <1>10, <1>12, <1>13

\* A new process has an empty gate, and nobody is at work in it.
LEMMA RestartKeeps == ASSUME GateInv, NEW p \in Processes, Restart(p) PROVE GateInv'
<1> USE DEF GateInv
<1>1. /\ \A o \in Ops : Home[o] = p => pc'[o] \in {"idle", "done"} /\ depth'[o] = 0
      /\ \A o \in Ops : Home[o] # p => pc'[o] = pc[o] /\ depth'[o] = depth[o]
  BY DEF Restart, TypeOK, Steps
<1>2. TypeOK'
  BY RestartsAreBounded DEF Restart, TypeOK, Steps
<1>3. DepthOfStep'
  BY <1>1, Kinds DEF DepthOfStep, Away
<1>4. Counted'
  <2> SUFFICES ASSUME NEW q \in Processes
               PROVE  /\ IsFiniteSet(HeldGuards(q)')
                      /\ activeCleanupOperations'[q] = Cardinality(HeldGuards(q)')
    BY DEF Counted
  <2>1. CASE q = p
    <3>1. HeldGuards(q)' = {} /\ activeCleanupOperations'[q] = 0
      BY <1>1, <2>1 DEF HeldGuards, Restart, TypeOK
    <3> QED BY <3>1, FS_EmptySet
  <2>2. CASE q # p
    <3>1. HeldGuards(q)' = HeldGuards(q)
      BY <1>1, <2>2 DEF HeldGuards
    <3>2. activeCleanupOperations'[q] = activeCleanupOperations[q]
      BY <2>2 DEF Restart, TypeOK
    <3> QED BY <3>1, <3>2 DEF Counted
  <2> QED BY <2>1, <2>2
<1>5. Flagged'
  <2> SUFFICES ASSUME NEW q \in Processes
               PROVE  /\ maintenanceActive'[q] <=> Occupied(q, Maintenance)'
                      /\ exclusiveCleanupOperationActive'[q] <=> Occupied(q, Deletions)'
    BY DEF Flagged
  <2>1. CASE q = p
    BY <1>1, <2>1, Kinds DEF Restart, TypeOK, Occupied
  <2>2. CASE q # p
    <3>1. /\ Occupied(q, Maintenance)' <=> Occupied(q, Maintenance)
          /\ Occupied(q, Deletions)' <=> Occupied(q, Deletions)
      BY <1>1, <2>2, Kinds DEF Occupied
    <3>2. /\ maintenanceActive'[q] = maintenanceActive[q]
          /\ exclusiveCleanupOperationActive'[q] = exclusiveCleanupOperationActive[q]
      BY <2>2 DEF Restart, TypeOK
    <3> QED BY <3>1, <3>2 DEF Flagged
  <2> QED BY <2>1, <2>2
<1>6. Alone'
  BY <1>1, Kinds DEF Alone, Away
<1> QED BY <1>2, <1>3, <1>4, <1>5, <1>6

LEMMA NextGate == GateInv /\ [Next]_vars => GateInv'
<1> SUFFICES ASSUME GateInv, [Next]_vars PROVE GateInv'
  OBVIOUS
<1>1. CASE UNCHANGED vars
  BY <1>1 DEF vars, gateVars, GateInv, TypeOK, DepthOfStep, Away, Counted, HeldGuards, Flagged, Occupied, Alone
<1> QED BY <1>1, SharedStepKeeps, ExclusiveStepKeeps, RestartKeeps DEF Next

LEMMA GateKept == Spec => []GateInv
BY InitGate, NextGate, PTL DEF Spec

-----------------------------------------------------------------------------
\* The three variables of the gate always say what the operations of their
\* process do, for any number of operations, nested guards, failures and
\* restarts: no guard leaks and none is given back twice.
THEOREM GateIsExact == Spec => []GateMatchesOperations
<1>1. GateInv => GateMatchesOperations
  BY DEF GateInv, Counted, Flagged, GateMatchesOperations
<1> QED BY <1>1, GateKept, PTL

\* A tick that has passed the gate passes it again when its executor asks:
\* no maintenance or deletion gets in between.
THEOREM NestedIsGranted == Spec => []NestedGuardIsGranted
<1>1. GateInv => NestedGuardIsGranted
  <2> SUFFICES ASSUME GateInv, NEW o \in Ops, pc[o] = "entered" PROVE SharedClear(Home[o])
    BY DEF NestedGuardIsGranted
  <2>1. \A e \in Exclusive : Home[e] = Home[o] => Away(e)
    BY Kinds DEF GateInv, Alone, Away, DepthOfStep
  <2>2. ~Occupied(Home[o], Maintenance) /\ ~Occupied(Home[o], Deletions)
    BY <2>1, Kinds DEF Occupied, Away
  <2> QED BY <2>2, Kinds DEF GateInv, Flagged, SharedClear
<1> QED BY <1>1, GateKept, PTL

OneProcess == \A o, x \in Ops : Home[o] = Home[x]

\* Where one process serves the database, a restore is its exclusive writer,
\* until the restart: the header comment of the gate.
THEOREM RestoresAreAlone ==
  ASSUME OneProcess
  PROVE  Spec => []RestoreIsAlone
<1>1. GateInv => RestoreIsAlone
  BY Kinds DEF OneProcess, GateInv, Alone, Away, RestoreIsAlone
<1> QED BY <1>1, GateKept, PTL

\* There, too, the deletion of a service overlaps no other work.
THEOREM DeletionsAreAlone ==
  ASSUME OneProcess
  PROVE  Spec => []DeletionIsAlone
<1>1. GateInv => DeletionIsAlone
  BY Kinds DEF OneProcess, GateInv, Alone, Away, DeletionIsAlone
<1> QED BY <1>1, GateKept, PTL
=============================================================================
