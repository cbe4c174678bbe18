-------------------------- MODULE TrashDeployment --------------------------
(***************************************************************************)
(* Deployments of TRaSH templates to one ARR endpoint, their recovery and  *)
(* their restart (lib/trash-guides/deployment-executor.ts,                 *)
(* deployment-operation-gate.ts, routes/trash-guides/sync-routes.ts and    *)
(* deployment-history-routes.ts).                                          *)
(*                                                                         *)
(* Every deployment has a ledger and two history rows, a TrashSyncHistory  *)
(* ("sync") and a TemplateDeploymentHistory ("deployment").  The rollback  *)
(* route claims the first, the undeploy route the second; both report to   *)
(* both.  A deployment and an entered recovery hold the endpoint, that is  *)
(* the topology lease and the in-memory set of endpoints being changed.    *)
(***************************************************************************)
EXTENDS TrashLedger

CONSTANTS
  Initial,       \* what the endpoint has at first
  Undos,         \* recovery requests; each may be repeated
  Table, Target, \* the row a recovery request claims, and its deployment
  Deletable,     \* deployments whose history somebody may delete
  Nobody,        \* the endpoint is free
  MaxFaults,     \* bound on calls and database writes that fail
  MaxCrashes,    \* bound on restarts
  MaxEdits       \* bound on changes a user makes to the endpoint

Tables == {"sync", "deployment"}

ASSUME InitialIsComplete ==
  Initial \in [Resources -> {Absent, Original}] /\ Initial[Naming] = Original

ASSUME UndosAreNamed ==
  /\ Table \in [Undos -> Tables]
  /\ Target \in [Undos -> Deploys]
  /\ Nobody \notin Undos \cup Deploys
  /\ Undos \cap Deploys = {}
  /\ Deletable \subseteq Deploys
  /\ {MaxFaults, MaxCrashes, MaxEdits} \subseteq Nat

ASSUME DeploysAreFinite == IsFiniteSet(Deploys)

VARIABLES
  upstream,   \* the endpoint's resources
  ledger,     \* TrashBackup.backupData
  mem,        \* backup.data, the deployment's own copy of it
  row,        \* the history rows, per table and deployment
  age,        \* the order in which deployments began; 0 before
  holder,     \* who holds the endpoint
  pc, item, todo, seen, result,  \* local to a deployment
  upc, prior, progress, left, attempted,  \* local to a recovery request
  deleting,   \* histories whose deletion has passed its checks
  wrote,      \* history: what a deployment changed upstream
  lost,       \* history: recovery requests that left a claim behind
  faults, crashes, edits

deployVars == <<pc, item, todo, seen, result, mem>>
undoVars == <<upc, prior, progress, left, attempted>>
boundVars == <<faults, crashes, edits>>
vars == <<upstream, ledger, mem, row, age, holder, pc, item, todo, seen, result,
          upc, prior, progress, left, attempted, deleting, wrote, lost,
          faults, crashes, edits>>

Statuses == {"none", "deleted", "IN_PROGRESS", "SUCCESS", "PARTIAL_SUCCESS",
             "FAILED", "UNCERTAIN", "PARTIAL_UNDEPLOY"}

Outcomes == {"none", "failed", "reversed", "shared"}

\* undo is rollbackStatus or undeployStatus, stamp the time of the attempt.
NoStamp == <<>>
Stamps == {NoStamp} \cup (Undos \X {"claim", "inner"})
Rows == [status: Statuses, undo: {"none", "IN_PROGRESS", "PARTIAL", "COMPLETED"},
         stamp: Stamps, rolledBack: BOOLEAN, progress: [Resources -> Outcomes]]

NoProgress == [r \in Resources |-> "none"]
NoRow == [status |-> "none", undo |-> "none", stamp |-> NoStamp,
          rolledBack |-> FALSE, progress |-> NoProgress]

Exists(t, d) == row[t][d].status \notin {"none", "deleted"}
Unrolled(t, d) == Exists(t, d) /\ ~row[t][d].rolledBack

\* errors: some step failed without having changed anything; unresolved: a
\* format has no identity; applied: something was changed and verified.
Fresh == [errors |-> FALSE, unresolved |-> FALSE, applied |-> FALSE,
          known |-> FALSE, why |-> "none"]
Results == [errors: BOOLEAN, unresolved: BOOLEAN, applied: BOOLEAN,
            known: BOOLEAN, why: {"none", "conflict", "failure", "uncertain"}]

Init ==
  /\ upstream = Initial
  /\ ledger = [d \in Deploys |-> EmptyLedger]
  /\ mem = [d \in Deploys |-> EmptyLedger]
  /\ row = [t \in Tables |-> [d \in Deploys |-> NoRow]]
  /\ age = [d \in Deploys |-> 0]
  /\ holder = Nobody
  /\ pc = [d \in Deploys |-> "new"]
  /\ item = [d \in Deploys |-> Profile]
  /\ todo = [d \in Deploys |-> {}]
  /\ seen = [d \in Deploys |-> Initial]
  /\ result = [d \in Deploys |-> Fresh]
  /\ upc = [u \in Undos |-> "idle"]
  /\ prior = [u \in Undos |-> NoRow]
  /\ progress = [u \in Undos |-> NoProgress]
  /\ left = [u \in Undos |-> {}]
  /\ attempted = [u \in Undos |-> FALSE]
  /\ deleting = {}
  /\ wrote = [d \in Deploys |-> {}]
  /\ lost = {}
  /\ faults = 0 /\ crashes = 0 /\ edits = 0

Fault == faults < MaxFaults /\ faults' = faults + 1

-----------------------------------------------------------------------------
\* (mutant) The gate looks at the statuses only.
SettledByStatus(t, d) ==
  Unrolled(t, d) =>
    /\ row[t][d].undo \notin {"IN_PROGRESS", "PARTIAL"}
    /\ row[t][d].status \notin {"IN_PROGRESS", "PARTIAL_UNDEPLOY"}

\* The new-work gate, assertNoPendingDeploymentOperation.
Settled(t, d) ==
  Unrolled(t, d) =>
    /\ row[t][d].undo \notin {"IN_PROGRESS", "PARTIAL"}
    /\ row[t][d].status \notin {"IN_PROGRESS", "UNCERTAIN", "PARTIAL_UNDEPLOY"}
    /\ ~HasPending(ledger[d])

GateOpen == \A t \in Tables, d \in Deploys : Settled(t, d)

WithStatus(t, d, s) ==
  IF Exists(t, d) THEN [row[t] EXCEPT ![d].status = s] ELSE row[t]

\* The endpoint is taken, the gate is passed and the endpoint is read.
Begin(d) ==
  /\ pc[d] = "new"
  /\ holder = Nobody
  /\ GateOpen
  /\ holder' = d
  /\ seen' = [seen EXCEPT ![d] = upstream]
  /\ todo' = [todo EXCEPT ![d] = (Writes[d] \cup Keeps[d]) \cap Formats]
  /\ pc' = [pc EXCEPT ![d] = "begun"]
  /\ UNCHANGED <<upstream, ledger, mem, row, age, item, result, undoVars,
                 deleting, wrote, lost, boundVars>>

\* (mutant) The endpoint is not released.
LeaveHolding(d) ==
  /\ UNCHANGED holder
  /\ pc' = [pc EXCEPT ![d] = "over"]
  /\ item' = [item EXCEPT ![d] = Profile]
  /\ todo' = [todo EXCEPT ![d] = {}]
  /\ seen' = [seen EXCEPT ![d] = Initial]
  /\ result' = [result EXCEPT ![d] = Fresh]
  /\ mem' = [mem EXCEPT ![d] = EmptyLedger]

\* The deployment is over: the endpoint is released, local state is gone.
Leave(d) ==
  /\ holder' = Nobody
  /\ pc' = [pc EXCEPT ![d] = "over"]
  /\ item' = [item EXCEPT ![d] = Profile]
  /\ todo' = [todo EXCEPT ![d] = {}]
  /\ seen' = [seen EXCEPT ![d] = Initial]
  /\ result' = [result EXCEPT ![d] = Fresh]
  /\ mem' = [mem EXCEPT ![d] = EmptyLedger]

AddRow(t, d) == row' = [row EXCEPT ![t][d] = [NoRow EXCEPT !.status = "IN_PROGRESS"]]

Stamped(d) == age' = [age EXCEPT ![d] = 1 + Cardinality({e \in Deploys : age[e] > 0})]

\* createBackupAndHistory: the ledger and the sync row in one transaction.
CreateBackup(d) ==
  /\ pc[d] = "begun"
  /\ AddRow("sync", d)
  /\ Stamped(d)
  /\ pc' = [pc EXCEPT ![d] = "backed"]
  /\ UNCHANGED <<upstream, ledger, mem, holder, item, todo, seen, result,
                 undoVars, deleting, wrote, lost, boundVars>>

\* The preview token no longer matches, or the transaction fails, applied or
\* not.  The handler knows of no row and records nothing.
CreateBackupFails(d) ==
  /\ pc[d] = "begun"
  /\ \/ UNCHANGED <<row, age, faults>>
     \/ Fault /\ AddRow("sync", d) /\ Stamped(d)
  /\ Leave(d)
  /\ UNCHANGED <<upstream, ledger, undoVars, deleting, wrote, lost, crashes, edits>>

CreateHistory(d) ==
  /\ pc[d] = "backed"
  /\ AddRow("deployment", d)
  /\ result' = [result EXCEPT ![d].known = TRUE]
  /\ pc' = [pc EXCEPT ![d] = "formats"]
  /\ UNCHANGED <<upstream, ledger, mem, age, holder, item, todo, seen,
                 undoVars, deleting, wrote, lost, boundVars>>

Failing(d, why) ==
  /\ pc' = [pc EXCEPT ![d] = "failing"]
  /\ result' = [result EXCEPT ![d].why = why]

CreateHistoryFails(d) ==
  /\ pc[d] = "backed"
  /\ Fault
  /\ UNCHANGED row \/ AddRow("deployment", d)
  /\ Failing(d, "failure")
  /\ UNCHANGED <<upstream, ledger, mem, age, holder, item, todo, seen,
                 undoVars, deleting, wrote, lost, crashes, edits>>

-----------------------------------------------------------------------------
\* Steps on one resource.  Nothing but the deployment's own state, its ledger
\* and the endpoint changes.
Step(d) == UNCHANGED <<row, age, holder, seen, undoVars, deleting, lost, crashes, edits>>

WithEntry(d, r, e) == [mem[d] EXCEPT !.entry[r] = e]

\* (mutant) The intent stays in memory.
PersistVerified(d, l) ==
  /\ ledger' = [ledger EXCEPT ![d] = IF \E r \in Resources : l.entry[r].st = "pending" THEN @ ELSE l]
  /\ mem' = [mem EXCEPT ![d] = l]

\* persistBackupLedger writes the whole ledger.
Persist(d, l) ==
  /\ ledger' = [ledger EXCEPT ![d] = l]
  /\ mem' = [mem EXCEPT ![d] = l]

\* A failed write of the ledger may have been applied.
PersistFails(d, l) == ledger' = ledger \/ ledger' = [ledger EXCEPT ![d] = l]

\* What is recorded before the first call.  The intended state of a resource
\* about to be created is not.
Intent(d, r) ==
  [st |-> "pending", before |-> seen[d][r], known |-> seen[d][r] # Absent,
   post |-> NoValue, want |-> IF seen[d][r] = Absent THEN NoValue ELSE d]

\* The next resource: formats, then the profile; naming after the capture.
Next1(d, r) ==
  \/ pc[d] = "formats" /\ r \in todo[d]
  \/ pc[d] = "formats" /\ todo[d] = {} /\ r = Profile
  \/ pc[d] = "naming" /\ r = Naming

Kept(d, r) == r \in Keeps[d] /\ seen[d][r] # Absent

KeepFormat(d, r) ==
  /\ Next1(d, r) /\ Kept(d, r)
  /\ upstream[r] = seen[d][r]
  /\ todo' = [todo EXCEPT ![d] = @ \ {r}]
  /\ UNCHANGED <<upstream, ledger, mem, pc, item, result, wrote, faults>>
  /\ Step(d)

\* The fresh value is the one that was reviewed, and the intent is stored.
Intend(d, r) ==
  /\ Next1(d, r) /\ ~Kept(d, r)
  /\ upstream[r] = seen[d][r]
  /\ Persist(d, WithEntry(d, r, Intent(d, r)))
  /\ item' = [item EXCEPT ![d] = r]
  /\ pc' = [pc EXCEPT ![d] = "write"]
  /\ UNCHANGED <<upstream, todo, result, wrote, faults>>
  /\ Step(d)

\* The resource changed since the deployment read it: ConflictError.
Changed(d, r) ==
  /\ Next1(d, r)
  /\ upstream[r] # seen[d][r]
  /\ Failing(d, "conflict")
  /\ UNCHANGED <<upstream, ledger, mem, item, todo, wrote, faults>>
  /\ Step(d)

\* A read or the write of the intent fails: the error is noted, nothing was
\* changed.  The in-memory entry of a format is dropped; a format that is not
\* about to be updated is left without an identity.  Without a profile there is
\* no capture and no naming.
Skip(d, r) ==
  /\ Next1(d, r)
  /\ Fault
  /\ IF Kept(d, r) THEN UNCHANGED ledger ELSE PersistFails(d, WithEntry(d, r, Intent(d, r)))
  /\ result' = [result EXCEPT ![d].errors = TRUE,
                   ![d].unresolved = @ \/ (r \in Formats /\ (Kept(d, r) \/ seen[d][r] = Absent))]
  /\ IF r \in Formats
     THEN todo' = [todo EXCEPT ![d] = @ \ {r}] /\ UNCHANGED pc
     ELSE pc' = [pc EXCEPT ![d] = "finalize"] /\ UNCHANGED todo
  /\ UNCHANGED <<upstream, mem, item, wrote>>
  /\ Step(d)

\* What the call writes: a profile is created from the schema, then updated.
Payload(d) ==
  IF item[d] = Profile /\ ~mem[d].entry[Profile].known THEN Draft ELSE d

Apply(d) ==
  /\ upstream' = [upstream EXCEPT ![item[d]] = Payload(d)]
  /\ wrote' = [wrote EXCEPT ![d] = @ \cup {item[d]}]

Write(d) ==
  /\ pc[d] = "write"
  /\ Apply(d)
  /\ pc' = [pc EXCEPT ![d] = IF mem[d].entry[item[d]].known THEN "verify" ELSE "identify"]
  /\ UNCHANGED <<ledger, mem, item, todo, result, faults>>
  /\ Step(d)

\* The call is answered by an error, applied or not.
WriteFails(d) ==
  /\ pc[d] = "write"
  /\ Fault
  /\ Apply(d) \/ UNCHANGED <<upstream, wrote>>
  /\ Failing(d, "uncertain")
  /\ UNCHANGED <<ledger, mem, item, todo>>
  /\ Step(d)

\* (mutant) The identity of what was created is not kept.
IdentifiedWithoutIdentity(d) ==
  WithEntry(d, item[d], [mem[d].entry[item[d]] EXCEPT !.post = Payload(d)])

Identified(d) ==
  WithEntry(d, item[d], [mem[d].entry[item[d]] EXCEPT !.known = TRUE, !.post = Payload(d)])

\* The identity a creation returned is stored.
Identify(d) ==
  /\ pc[d] = "identify"
  /\ Persist(d, Identified(d))
  /\ pc' = [pc EXCEPT ![d] = IF item[d] = Profile THEN "recheck" ELSE "verify"]
  /\ UNCHANGED <<upstream, item, todo, result, wrote, faults>>
  /\ Step(d)

IdentifyFails(d) ==
  /\ pc[d] = "identify"
  /\ Fault
  /\ PersistFails(d, Identified(d))
  /\ Failing(d, "uncertain")
  /\ UNCHANGED <<upstream, mem, item, todo, wrote>>
  /\ Step(d)

Recheck(d) ==
  /\ pc[d] = "recheck"
  /\ upstream[Profile] = Draft
  /\ Persist(d, WithEntry(d, Profile, [mem[d].entry[Profile] EXCEPT !.want = d]))
  /\ pc' = [pc EXCEPT ![d] = "write"]
  /\ UNCHANGED <<upstream, item, todo, result, wrote, faults>>
  /\ Step(d)

RecheckFails(d) ==
  /\ pc[d] = "recheck"
  /\ \/ upstream[Profile] # Draft /\ UNCHANGED <<ledger, faults>>
     \/ Fault /\ PersistFails(d, WithEntry(d, Profile, [mem[d].entry[Profile] EXCEPT !.want = d]))
  /\ Failing(d, "uncertain")
  /\ UNCHANGED <<upstream, mem, item, todo, wrote>>
  /\ Step(d)

\* A verified profile stays pending until its formats are captured.
Verified(d) ==
  WithEntry(d, item[d], [mem[d].entry[item[d]] EXCEPT
    !.st = IF item[d] = Profile THEN "pending" ELSE "applied", !.post = d])

\* The value read back is the intended one, and that is stored.
Verify(d) ==
  /\ pc[d] = "verify"
  /\ upstream[item[d]] = d
  /\ Persist(d, Verified(d))
  /\ result' = [result EXCEPT ![d].applied = TRUE]
  /\ todo' = [todo EXCEPT ![d] = @ \ {item[d]}]
  /\ pc' = [pc EXCEPT ![d] = CASE item[d] \in Formats -> "formats"
                               [] item[d] = Profile -> "capture"
                               [] item[d] = Naming -> "finalize"]
  /\ UNCHANGED <<upstream, item, wrote, faults>>
  /\ Step(d)

VerifyFails(d) ==
  /\ pc[d] = "verify"
  /\ \/ upstream[item[d]] # d /\ UNCHANGED <<ledger, faults>>
     \/ Fault /\ PersistFails(d, Verified(d))
  /\ Failing(d, "uncertain")
  /\ UNCHANGED <<upstream, mem, item, todo, wrote>>
  /\ Step(d)

-----------------------------------------------------------------------------
TemplateFormats(d) == (Writes[d] \cup Keeps[d]) \cap Formats

\* captureManagedCustomFormatIdentities, and the profile becomes applied.
Captured(d) ==
  [mem[d] EXCEPT
     !.entry[Profile].st = "applied",
     !.captured = TRUE,
     !.managed = [f \in Formats |-> IF f \in TemplateFormats(d) THEN upstream[f] ELSE NoValue]]

Capturable(d) == ~result[d].unresolved /\ \A f \in TemplateFormats(d) : upstream[f] # Absent

Capture(d) ==
  /\ pc[d] = "capture"
  /\ Capturable(d)
  /\ Persist(d, Captured(d))
  /\ pc' = [pc EXCEPT ![d] = IF Naming \in Writes[d] THEN "naming" ELSE "finalize"]
  /\ UNCHANGED <<upstream, item, todo, result, wrote, faults>>
  /\ Step(d)

CaptureFails(d) ==
  /\ pc[d] = "capture"
  /\ \/ ~Capturable(d) /\ UNCHANGED <<ledger, faults>>
     \/ Capturable(d) /\ Fault /\ PersistFails(d, Captured(d))
  /\ Failing(d, "failure")
  /\ UNCHANGED <<upstream, mem, item, todo, wrote>>
  /\ Step(d)

\* Both rows in one transaction; a row that was never known is not written.
Record(d, s) ==
  row' = [t \in Tables |-> IF t = "sync" \/ result[d].known THEN WithStatus(t, d, s) ELSE row[t]]

FinalStatus(d) ==
  IF ~result[d].errors THEN "SUCCESS"
  ELSE IF result[d].applied THEN "PARTIAL_SUCCESS" ELSE "FAILED"

\* finalizeDeploymentHistory
Finalize(d) ==
  /\ pc[d] = "finalize"
  /\ Record(d, FinalStatus(d))
  /\ Leave(d)
  /\ UNCHANGED <<upstream, ledger, age, undoVars, deleting, wrote, lost, boundVars>>

\* The transaction fails.  With a mapping to finalize the deployment is marked
\* uncertain, or that fails as well; without one the failure is a warning.
FinalizeFails(d) ==
  /\ pc[d] = "finalize"
  /\ Fault
  /\ \/ UNCHANGED row
     \/ Record(d, FinalStatus(d))
     \/ ~result[d].errors /\ Record(d, "UNCERTAIN")
  /\ Leave(d)
  /\ UNCHANGED <<upstream, ledger, age, undoVars, deleting, wrote, lost, crashes, edits>>

FailureStatus(d) ==
  IF result[d].why = "uncertain" THEN "UNCERTAIN"
  ELSE IF result[d].applied THEN "PARTIAL_SUCCESS" ELSE "FAILED"

\* The catch block of executeSingleDeployment; its write may fail, too.
Fail(d) ==
  /\ pc[d] = "failing"
  /\ \/ Record(d, FailureStatus(d)) /\ UNCHANGED faults
     \/ Fault /\ (UNCHANGED row \/ Record(d, FailureStatus(d)))
  /\ Leave(d)
  /\ UNCHANGED <<upstream, ledger, age, undoVars, deleting, wrote, lost, crashes, edits>>

-----------------------------------------------------------------------------
\* resolveActiveDeploymentOwnership
ActiveStatuses == {"SUCCESS", "PARTIAL_SUCCESS", "UNCERTAIN", "PARTIAL_UNDEPLOY", "IN_PROGRESS"}

Active(e) ==
  \E t \in Tables : /\ Unrolled(t, e)
                    /\ row[t][e].status \in ActiveStatuses \/ HasMutation(e, ledger[e])

LatestOf(S) == {e \in S : ~\E x \in S : Template[x] = Template[e] /\ age[x] > age[e]}

\* The latest active deployment of each template; the target counts as active.
Owning(d) == LatestOf({e \in Deploys : Active(e)} \cup {d})

OwnershipResolves(d) ==
  d \in Owning(d) /\ \A e \in Owning(d) \ {d} : Verifiable(ledger[e])

Owners(d, r) == {e \in Owning(d) \ {d} : Claims(ledger[e], r) # {}}

\* The newest other owner of r and the value it expects.
Survivor(d, r) == CHOOSE e \in Owners(d, r) : \A x \in Owners(d, r) : age[x] <= age[e]
Expected(d, r) == CHOOSE v \in Claims(ledger[Survivor(d, r)], r) : TRUE

Restorable(d, r) ==
  /\ age[d] > age[Survivor(d, r)]
  /\ ledger[d].entry[r].before = Expected(d, r)
  /\ ~Creates(ledger[d].entry[r])

-----------------------------------------------------------------------------
\* A recovery request: rollback of a sync row or undeploy of a deployment row.
Own(u) == row[Table[u]][Target[u]]

Idle(u) ==
  /\ upc' = [upc EXCEPT ![u] = "idle"]
  /\ prior' = [prior EXCEPT ![u] = NoRow]
  /\ progress' = [progress EXCEPT ![u] = NoProgress]
  /\ left' = [left EXCEPT ![u] = {}]
  /\ attempted' = [attempted EXCEPT ![u] = FALSE]

\* The row is read; what is read is what a release writes back.
LookUp(u) ==
  /\ upc[u] = "idle"
  /\ Unrolled(Table[u], Target[u])
  /\ prior' = [prior EXCEPT ![u] = Own(u)]
  /\ upc' = [upc EXCEPT ![u] = "looked"]
  /\ UNCHANGED <<upstream, ledger, row, age, holder, deployVars, progress, left,
                 attempted, deleting, wrote, lost, boundVars>>

Claimable(t, d) == Unrolled(t, d) /\ row[t][d].undo \in {"none", "PARTIAL"}

\* The conditional update, before the endpoint is taken.
Claim(u) ==
  /\ upc[u] = "looked"
  /\ Claimable(Table[u], Target[u])
  /\ row' = [row EXCEPT ![Table[u]][Target[u]].undo = "IN_PROGRESS",
                        ![Table[u]][Target[u]].stamp = <<u, "claim">>]
  /\ upc' = [upc EXCEPT ![u] = "claimed"]
  /\ UNCHANGED <<upstream, ledger, age, holder, deployVars, prior, progress, left,
                 attempted, deleting, wrote, lost, boundVars>>

ClaimRefused(u) ==
  /\ upc[u] = "looked"
  /\ ~Claimable(Table[u], Target[u])
  /\ Idle(u)
  /\ UNCHANGED <<upstream, ledger, row, age, holder, deployVars, deleting, wrote,
                 lost, boundVars>>

\* The rollback route takes a second time stamp inside the leased section.
StampOf(u) == IF Table[u] = "sync" THEN <<u, "inner">> ELSE <<u, "claim">>

\* persistProgress and persistRollbackProgress, on both rows.
Reported(u, undo, prog) ==
  [t \in Tables |->
     IF Exists(t, Target[u])
     THEN [row[t] EXCEPT ![Target[u]] = [@ EXCEPT
             !.undo = undo, !.stamp = StampOf(u), !.progress = prog]]
     ELSE row[t]]

Finished(prog, r) == prog[r] \in {"reversed", "shared"}

\* (mutant) What is pending is passed over.
RemainingApplied(u) ==
  {r \in Resources : ledger[Target[u]].entry[r].st = "applied" /\ ~Finished(Own(u).progress, r)}

\* What the ledger has, without what an earlier attempt has finished.
Remaining(u) ==
  {r \in Resources : ledger[Target[u]].entry[r].st # "none" /\ ~Finished(Own(u).progress, r)}

\* Under the endpoint: the row is read again, ownership is resolved and the
\* intent is reported.
Enter(u) ==
  LET d == Target[u] IN
  /\ upc[u] = "claimed"
  /\ holder = Nobody
  /\ Unrolled(Table[u], d)
  /\ OwnershipResolves(d)
  /\ holder' = u
  /\ row' = Reported(u, "IN_PROGRESS", Own(u).progress)
  /\ progress' = [progress EXCEPT ![u] = Own(u).progress]
  /\ left' = [left EXCEPT ![u] = Remaining(u)]
  /\ upc' = [upc EXCEPT ![u] = "undoing"]
  /\ UNCHANGED <<upstream, ledger, age, deployVars, prior, attempted, deleting,
                 wrote, lost, boundVars>>

\* (mutant) A request that is refused the endpoint ends with its claim.
EnterRefused(u) ==
  /\ upc[u] = "claimed"
  /\ Idle(u)
  /\ UNCHANGED <<upstream, ledger, row, age, holder, deployVars, deleting, wrote,
                 lost, boundVars>>

\* The endpoint is taken (a cleanup run may hold the lease as well), it cannot
\* be read, ownership is not clear, or the first report fails, applied or not.
EnterFails(u) ==
  /\ upc[u] = "claimed"
  /\ \/ UNCHANGED <<row, faults>>
     \/ /\ Fault
        /\ holder = Nobody /\ Unrolled(Table[u], Target[u]) /\ OwnershipResolves(Target[u])
        /\ row' = Reported(u, "IN_PROGRESS", Own(u).progress)
  /\ upc' = [upc EXCEPT ![u] = "releasing"]
  /\ UNCHANGED <<upstream, ledger, age, holder, deployVars, prior, progress, left,
                 attempted, deleting, wrote, lost, crashes, edits>>

\* Read again, the row is gone or already rolled back.
EnterTooLate(u) ==
  /\ upc[u] = "claimed"
  /\ holder = Nobody
  /\ ~Unrolled(Table[u], Target[u])
  /\ Idle(u)
  /\ UNCHANGED <<upstream, ledger, row, age, holder, deployVars, deleting, wrote,
                 lost, boundVars>>

\* The profile first, naming last.
NextUndo(u, r) ==
  /\ upc[u] = "undoing"
  /\ r \in left[u]
  /\ r # Profile => Profile \notin left[u]
  /\ r = Naming => left[u] = {Naming}

\* A shared resource must have the value its surviving owner expects.
Outcome(d, r) ==
  IF Owners(d, r) # {}
  THEN IF upstream[r] = Expected(d, r) THEN "shared" ELSE "failed"
  ELSE IF Reversed(ledger[d].entry[r], upstream[r]) THEN "reversed" ELSE "failed"

\* upstreamMutationAttempted
Attempts(d, r) == Owners(d, r) = {} \/ (upstream[r] # Expected(d, r) /\ Restorable(d, r))

\* One resource is checked and the outcome reported.  A read may fail.  If the
\* profile fails, the rest is left.
Check(u, r, outcome) ==
  /\ NextUndo(u, r)
  /\ progress' = [progress EXCEPT ![u][r] = outcome]
  /\ attempted' = [attempted EXCEPT ![u] = @ \/ Attempts(Target[u], r)]

CheckResource(u, r) ==
  \E outcome \in {Outcome(Target[u], r), "failed"} :
    /\ Check(u, r, outcome)
    /\ IF outcome = Outcome(Target[u], r) THEN UNCHANGED faults ELSE Fault
    /\ row' = Reported(u, "IN_PROGRESS", progress'[u])
    /\ left' = [left EXCEPT ![u] = IF r = Profile /\ outcome = "failed" THEN {} ELSE @ \ {r}]
    /\ UNCHANGED <<upstream, ledger, age, holder, deployVars, upc, prior, deleting,
                   wrote, lost, crashes, edits>>

\* The report fails, applied or not; the endpoint is released, then the claim.
CheckUnreported(u, r) ==
  /\ Check(u, r, Outcome(Target[u], r))
  /\ Fault
  /\ UNCHANGED row \/ row' = Reported(u, "IN_PROGRESS", progress'[u])
  /\ holder' = Nobody
  /\ upc' = [upc EXCEPT ![u] = "releasing"]
  /\ UNCHANGED <<upstream, ledger, age, deployVars, prior, left, deleting, wrote,
                 lost, crashes, edits>>

\* All steps of this and earlier attempts succeeded: both rows are rolled back.
AllDone(u) == \A r \in Resources : progress[u][r] # "failed"

\* (mutant) Only the claimed row is marked as rolled back.
ConclusionOfOwn(u) ==
  LET rows == Reported(u, IF AllDone(u) THEN "COMPLETED" ELSE "PARTIAL", progress[u]) IN
  [rows EXCEPT ![Table[u]][Target[u]].rolledBack = AllDone(u)]

Conclusion(u) ==
  LET rows == Reported(u, IF AllDone(u) THEN "COMPLETED" ELSE "PARTIAL", progress[u]) IN
  [t \in Tables |-> IF Exists(t, Target[u])
                    THEN [rows[t] EXCEPT ![Target[u]].rolledBack = AllDone(u)]
                    ELSE rows[t]]

Finish(u) ==
  /\ upc[u] = "undoing"
  /\ left[u] = {}
  /\ row' = Conclusion(u)
  /\ holder' = Nobody
  /\ lost' = lost \ {u}
  /\ Idle(u)
  /\ UNCHANGED <<upstream, ledger, age, deployVars, deleting, wrote, boundVars>>

FinishFails(u) ==
  /\ upc[u] = "undoing"
  /\ left[u] = {}
  /\ Fault
  /\ UNCHANGED row \/ row' = Conclusion(u)
  /\ holder' = Nobody
  /\ upc' = [upc EXCEPT ![u] = "releasing"]
  /\ UNCHANGED <<upstream, ledger, age, deployVars, prior, progress, left, attempted,
                 deleting, wrote, lost, crashes, edits>>

\* (mutant) Any claim is taken for the request's own.
StillClaimedBySome(u) ==
  /\ Unrolled(Table[u], Target[u])
  /\ Own(u).undo = "IN_PROGRESS"

\* The catch block: a compare-and-set on the claim's own stamp.
StillClaimed(u) ==
  /\ Unrolled(Table[u], Target[u])
  /\ Own(u).undo = "IN_PROGRESS"
  /\ Own(u).stamp = <<u, "claim">>

\* (mutant) A claim is never given back.
ReleasedNever(u) == Own(u)

\* persistPartial... after an attempt, release...Claim before any.
Released(u) ==
  IF attempted[u]
  THEN [Own(u) EXCEPT !.undo = "PARTIAL",
          !.status = IF Table[u] = "sync" THEN @ ELSE "PARTIAL_UNDEPLOY"]
  ELSE [Own(u) EXCEPT !.undo = prior[u].undo, !.stamp = prior[u].stamp,
          !.progress = prior[u].progress,
          !.status = IF Table[u] = "sync" THEN @ ELSE prior[u].status]

\* What is put back was read before the request's own claim; it may be the
\* claim of another one, which was given up since.
PutsBackClaim(u) ==
  StillClaimed(u) /\ ~attempted[u] /\ prior[u].undo = "IN_PROGRESS"

Release(u) ==
  /\ upc[u] = "releasing"
  /\ row' = IF StillClaimed(u) THEN [row EXCEPT ![Table[u]][Target[u]] = Released(u)] ELSE row
  /\ lost' = IF PutsBackClaim(u) THEN lost \cup {u} ELSE lost \ {u}
  /\ Idle(u)
  /\ UNCHANGED <<upstream, ledger, age, holder, deployVars, deleting, wrote, boundVars>>

ReleaseFails(u) ==
  /\ upc[u] = "releasing"
  /\ Fault
  /\ lost' = lost \cup {u}
  /\ Idle(u)
  /\ UNCHANGED <<upstream, ledger, row, age, holder, deployVars, deleting, wrote,
                 crashes, edits>>

-----------------------------------------------------------------------------
\* DELETE of a deployment's history: the checks, then a conditional delete.
Nonterminal(d) ==
  /\ ~row["deployment"][d].rolledBack
  /\ row["deployment"][d].undo # "COMPLETED"
  /\ \/ row["deployment"][d].undo # "none"
     \/ row["deployment"][d].status \in {"IN_PROGRESS", "PARTIAL_UNDEPLOY"}

CheckDelete(d) ==
  /\ d \in Deletable \ deleting
  /\ Exists("deployment", d)
  /\ ~Nonterminal(d)
  /\ Settled("sync", d)
  /\ deleting' = deleting \cup {d}
  /\ UNCHANGED <<upstream, ledger, row, age, holder, deployVars, undoVars, wrote,
                 lost, boundVars>>

DeleteMatches(d) ==
  \/ row["deployment"][d].rolledBack
  \/ row["deployment"][d].undo = "COMPLETED"
  \/ row["deployment"][d].undo = "none" /\ row["deployment"][d].status # "PARTIAL_UNDEPLOY"

Delete(d) ==
  /\ d \in deleting
  /\ deleting' = deleting \ {d}
  /\ row' = IF DeleteMatches(d) THEN [row EXCEPT !["deployment"][d] = [NoRow EXCEPT !.status = "deleted"]]
            ELSE row
  /\ UNCHANGED <<upstream, ledger, age, holder, deployVars, undoVars, wrote,
                 lost, boundVars>>

-----------------------------------------------------------------------------
\* A user changes the endpoint; what to restore is what the ledger recorded.
Edit(r) ==
  /\ edits < MaxEdits
  /\ edits' = edits + 1
  /\ \E v \in {Edited, Absent} \ {upstream[r]} :
       /\ r = Naming => v # Absent
       /\ upstream' = [upstream EXCEPT ![r] = v]
  /\ UNCHANGED <<ledger, row, age, holder, deployVars, undoVars, deleting, wrote,
                 lost, faults, crashes>>

Restore(d, r) ==
  /\ ledger[d].entry[r].st # "none"
  /\ upstream[r] # ledger[d].entry[r].before
  /\ upstream' = [upstream EXCEPT ![r] = ledger[d].entry[r].before]
  /\ UNCHANGED <<ledger, row, age, holder, deployVars, undoVars, deleting, wrote,
                 lost, boundVars>>

\* reconcileInterruptedDeploymentHistories.  A deployment row whose undeploy was
\* interrupted only gets that corrected; otherwise both rows are classified, and
\* the sync row is not looked at again.
ReconciledDeployment(d) ==
  LET x == row["deployment"][d] IN
  CASE x.undo = "IN_PROGRESS" -> [x EXCEPT !.undo = "PARTIAL"]
    [] x.undo # "IN_PROGRESS" /\ x.status = "IN_PROGRESS" ->
         [x EXCEPT !.status = Classified(ledger[d])]
    [] OTHER -> x

WithDeployment(d) ==
  row["deployment"][d].undo # "IN_PROGRESS" /\ row["deployment"][d].status = "IN_PROGRESS"

ReconciledSync(d) ==
  LET x == row["sync"][d]
      y == IF x.status = "IN_PROGRESS" THEN [x EXCEPT !.status = Classified(ledger[d])] ELSE x
  IN IF WithDeployment(d) THEN y
     ELSE IF x.undo = "IN_PROGRESS" THEN [x EXCEPT !.undo = "PARTIAL"] ELSE y

Reconciled ==
  [t \in Tables |-> [d \in Deploys |->
     IF t = "sync" THEN ReconciledSync(d) ELSE ReconciledDeployment(d)]]

\* The process stops between any two steps and starts again.  A deployment that
\* had begun is gone, and so is the set of endpoints being changed.
Restart ==
  /\ crashes < MaxCrashes
  /\ crashes' = crashes + 1
  /\ row' = Reconciled
  /\ holder' = Nobody
  /\ pc' = [d \in Deploys |-> IF pc[d] = "new" THEN "new" ELSE "over"]
  /\ item' = [d \in Deploys |-> Profile]
  /\ todo' = [d \in Deploys |-> {}]
  /\ seen' = [d \in Deploys |-> Initial]
  /\ result' = [d \in Deploys |-> Fresh]
  /\ mem' = [d \in Deploys |-> EmptyLedger]
  /\ upc' = [u \in Undos |-> "idle"]
  /\ prior' = [u \in Undos |-> NoRow]
  /\ progress' = [u \in Undos |-> NoProgress]
  /\ left' = [u \in Undos |-> {}]
  /\ attempted' = [u \in Undos |-> FALSE]
  /\ deleting' = {}
  /\ lost' = {}
  /\ UNCHANGED <<upstream, ledger, age, wrote, faults, edits>>

-----------------------------------------------------------------------------
Resource(d, r) == KeepFormat(d, r) \/ Intend(d, r) \/ Changed(d, r) \/ Skip(d, r)

\* What a deployment that holds the endpoint does next.
Work(d) ==
  \/ CreateBackup(d) \/ CreateBackupFails(d) \/ CreateHistory(d) \/ CreateHistoryFails(d)
  \/ \E r \in Resources : Resource(d, r)
  \/ Write(d) \/ WriteFails(d) \/ Identify(d) \/ IdentifyFails(d)
  \/ Recheck(d) \/ RecheckFails(d) \/ Verify(d) \/ VerifyFails(d)
  \/ Capture(d) \/ CaptureFails(d) \/ Finalize(d) \/ FinalizeFails(d) \/ Fail(d)

\* What a recovery request that has entered or given up does next.
Recover(u) ==
  \/ \E r \in Resources : CheckResource(u, r) \/ CheckUnreported(u, r)
  \/ Finish(u) \/ FinishFails(u) \/ Release(u) \/ ReleaseFails(u)

Next ==
  \/ \E d \in Deploys : Begin(d) \/ Work(d) \/ CheckDelete(d) \/ Delete(d)
  \/ \E u \in Undos : LookUp(u) \/ Claim(u) \/ ClaimRefused(u) \/ Enter(u)
                        \/ EnterFails(u) \/ EnterTooLate(u) \/ Recover(u)
  \/ \E r \in Resources : Edit(r) \/ \E d \in Deploys : Restore(d, r)
  \/ Restart

Spec == Init /\ [][Next]_vars

\* Requests are carried on by the event loop.  A user who follows the messages
\* restores what the ledger recorded and tries again until that is no use, and
\* the endpoint is not refused to every try.
Fairness ==
  /\ \A d \in Deploys : WF_vars(Work(d))
  /\ \A u \in Undos : /\ WF_vars(Recover(u))
                      /\ WF_vars(LookUp(u)) /\ WF_vars(Claim(u))
                      /\ WF_vars(ClaimRefused(u)) /\ WF_vars(EnterTooLate(u))
                      /\ SF_vars(Enter(u))
                      /\ WF_vars(upc[u] = "claimed" /\ EnterFails(u))
  /\ \A d \in Deploys, r \in Resources : WF_vars(Restore(d, r))

LiveSpec == Spec /\ Fairness

-----------------------------------------------------------------------------
TypeOK ==
  /\ upstream \in [Resources -> Values]
  /\ ledger \in [Deploys -> Ledger]
  /\ mem \in [Deploys -> Ledger]
  /\ row \in [Tables -> [Deploys -> Rows]]
  /\ age \in [Deploys -> 0..Cardinality(Deploys)]
  /\ holder \in Deploys \cup Undos \cup {Nobody}
  /\ pc \in [Deploys -> {"new", "begun", "backed", "formats", "write", "identify", "recheck",
                         "verify", "capture", "naming", "finalize", "failing", "over"}]
  /\ item \in [Deploys -> Resources]
  /\ todo \in [Deploys -> SUBSET Formats]
  /\ seen \in [Deploys -> [Resources -> Values]]
  /\ result \in [Deploys -> Results]
  /\ upc \in [Undos -> {"idle", "looked", "claimed", "undoing", "releasing"}]
  /\ prior \in [Undos -> Rows]
  /\ progress \in [Undos -> [Resources -> Outcomes]]
  /\ left \in [Undos -> SUBSET Resources]
  /\ attempted \in [Undos -> BOOLEAN]
  /\ deleting \subseteq Deploys
  /\ wrote \in [Deploys -> SUBSET Resources]
  /\ lost \subseteq Undos
  /\ \A d \in Deploys : holder = d <=> pc[d] \notin {"new", "over"}
  /\ \A u \in Undos : holder = u <=> upc[u] = "undoing"
  /\ faults \in 0..MaxFaults /\ crashes \in 0..MaxCrashes /\ edits \in 0..MaxEdits

\* Write-ahead: whatever a deployment changed upstream is in its stored ledger,
\* with the value it replaced, at any moment the process may die.
WriteAhead ==
  \A d \in Deploys : \A r \in wrote[d] : ledger[d].entry[r].st # "none"

\* What the deployment changed is not all recorded as verified.
Unverified(d) == \E r \in wrote[d] : ledger[d].entry[r].st # "applied"

Recoverable(d) == \E t \in Tables : Unrolled(t, d)

\* While a deployment may write to the endpoint, nothing another one changed
\* there is unverified and still to be recovered, whatever failed before and
\* however often the process restarted.
NoWorkOnUncertain ==
  \A d \in Deploys :
    pc[d] \in {"write", "identify", "recheck", "verify"} =>
      \A e \in Deploys \ {d} : ~(Unverified(e) /\ Recoverable(e))

\* Both rows of a deployment are rolled back together, by either route.
RolledBackTogether ==
  \A d \in Deploys : row["deployment"][d].status \notin {"none", "deleted"}
    => row["sync"][d].rolledBack = row["deployment"][d].rolledBack

\* A deployment is marked as rolled back only when each resource it changed has
\* been seen reversed, in this attempt or an earlier one, or has another owner.
RolledBackIsComplete ==
  \A d \in Deploys : \A t \in Tables :
    row[t][d].rolledBack => \A r \in wrote[d] : Finished(row[t][d].progress, r)

\* A request that has entered keeps its claim on both rows: no late release and
\* no claim by the other route takes it away.
EnteredIsClaimed ==
  \A u \in Undos : upc[u] = "undoing" =>
    \A t \in Tables : Exists(t, Target[u]) =>
      /\ row[t][Target[u]].undo = "IN_PROGRESS"
      /\ row[t][Target[u]].stamp = StampOf(u)

\* A recovery that is not under way can be requested again, by one of the routes
\* at least, unless a request that ended left a claim behind (line 1361 of
\* sync-routes.ts promises it of the rollback).
ReleasedCanBeRetried ==
  \A d \in Deploys :
    /\ Recoverable(d)
    /\ \A u \in Undos : Target[u] = d => upc[u] \in {"idle", "looked"} /\ u \notin lost
    => \E t \in Tables : Claimable(t, d)

\* An undeploy of a deployment that has a row can be requested again, however
\* many requests of both routes, deletions and restarts overlap and whatever
\* fails, unless a request is still under way, or one that ended left a claim
\* behind (its releasing write failed, or put back the claim of another), or the
\* last to write the stamp was the report of a rollback (lines 515-584 and
\* 1181-1184 of deployment-history-routes.ts, 955 of sync-routes.ts).
UndeployCanBeRetried ==
  \A d \in Deploys :
    /\ Unrolled("deployment", d)
    /\ \A u \in Undos : Target[u] = d => upc[u] \in {"idle", "looked"} /\ u \notin lost
    /\ \A u \in Undos : row["deployment"][d].stamp # <<u, "inner">>
    => Claimable("deployment", d)

\* How far a deployment at this step is from its end, for given formats to
\* come: on a resource, the steps up to its verification.  A resource that is
\* to be created is written a second time only if it is a profile, which then
\* is known.
StepsOn(p, known) ==
  CASE p = "write" -> (IF known THEN 2 ELSE 5)
    [] p = "identify" -> 4 [] p = "recheck" -> 3 [] OTHER -> 1

Distance(p, r, known) ==
  CASE p = "begun" -> 16 [] p = "backed" -> 15 [] p = "formats" -> 14
    [] p = "capture" -> 8 [] p = "naming" -> 7
    [] p \in {"finalize", "failing"} -> 1 [] p \in {"new", "over"} -> 0
    [] OTHER -> StepsOn(p, known) + (IF r = Naming THEN 1 ELSE 8)

ToEnd(d) == Distance(pc[d], item[d], mem[d].entry[item[d]].known)

Fewer(new, old) == new \subseteq old /\ new # old

DeploymentAdvances(d) ==
  \/ Fewer(todo'[d], todo[d])
  \/ todo'[d] = todo[d] /\ ToEnd(d)' < ToEnd(d)

RequestStep(p) ==
  CASE p = "looked" -> 4 [] p = "claimed" -> 3 [] p = "undoing" -> 2
    [] p = "releasing" -> 1 [] OTHER -> 0

RequestAdvances(u) ==
  \/ RequestStep(upc'[u]) < RequestStep(upc[u])
  \/ upc'[u] = upc[u] /\ Fewer(left'[u], left[u])

\* Nothing sends a deployment or a recovery request back: a deployment comes to
\* each format once, creates the profile once at most and updates it once, and
\* a request looks at each resource once, whatever fails or is changed by users
\* on the way (lines 700-850, 920-956, 1262-1362 and 2165-2290 of
\* deployment-executor.ts).
WorkRunsOut ==
  [][/\ \A d \in Deploys : pc[d] \notin {"new", "over"} =>
          \/ UNCHANGED <<pc[d], todo[d], item[d], mem[d]>>
          \/ DeploymentAdvances(d)
     /\ \A u \in Undos : upc[u] # "idle" =>
          \/ UNCHANGED <<upc[u], left[u]>>
          \/ RequestAdvances(u)]_vars

\* The outcome recorded for a deployment is not replaced by "in progress".
FinalStaysFinal ==
  [][\A d \in Deploys :
       row["deployment"][d].status \in {"SUCCESS", "PARTIAL_SUCCESS", "FAILED", "UNCERTAIN"}
         => row'["deployment"][d].status # "IN_PROGRESS"]_vars

\* What a release puts back is not the claim of another request: the comment of
\* releaseUndeployClaim speaks of the state before the claim, what is put back is
\* the one before the look.
NoClaimIsPutBack == [][\A u \in Undos : ~(Release(u) /\ PutsBackClaim(u))]_vars

\* A history is not deleted while the rest of the deployment blocks new work.
DeletedIsSettled ==
  [][\A d \in Deploys : Exists("deployment", d) /\ row'["deployment"][d].status = "deleted"
       => Settled("sync", d)]_vars

\* A restart leaves no record as if it were still being worked on.
RestartReclassifies ==
  [][crashes' # crashes =>
       \A t \in Tables, d \in Deploys :
         "IN_PROGRESS" \notin {row'[t][d].status, row'[t][d].undo}]_vars

\* A deployment that has a history does not block the endpoint for good: a user
\* who restores what the ledgers recorded and asks for the recovery again and
\* again succeeds, unless a request that ended left a claim behind.
RecoveryEnds ==
  \A d \in Deploys :
    (Exists("deployment", d) /\ \E t \in Tables : ~Settled(t, d))
      ~> (lost # {} \/ \A t \in Tables : Settled(t, d))

=============================================================================
