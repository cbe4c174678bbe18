-------------------- MODULE CleanupApprovalOutcome_proofs --------------------
(***************************************************************************)
(* What becomes of an approval: theorems about its outcome, for any sets   *)
(* of approvals and operations and any bounds.  They do not assume that    *)
(* holders of the run lease renew in time: a holder may stall, lose the    *)
(* lease and write late.                                                   *)
(***************************************************************************)
EXTENDS CleanupApproval_proofs

-----------------------------------------------------------------------------
(***************************************************************************)
(* What one step does to a row.                                            *)
(***************************************************************************)

Untouched(i) ==
  status'[i] = status[i] /\ token'[i] = token[i] /\ note'[i] = note[i] /\ plan'[i] = plan[i]

RecordSteps == {"recordCheck", "recordDelete", "recordRecheck", "recordRedelete"}

\* The outcome of an attempt is written, or the row is given back unattempted.
Concluded(o, i) ==
  /\ Owns(o, i)
  /\ status'[i] \in {"pending", "retry_pending", "expired", "executed"}
  /\ token'[i] = NoOp
  /\ status'[i] = "executed" => pc[o] = "recording" /\ i = item[o]
  /\ plan'[i] = plan[i] \/ (pc[o] \in RecordSteps /\ i = item[o])

\* Progress is written to a row that goes on executing.
Progressed(o, i) ==
  /\ Owns(o, i)
  /\ i = item[o]
  /\ status'[i] = status[i] /\ token'[i] = token[i]
  /\ \/ pc[o] = "phaseStart" /\ note'[i] = "started" /\ plan'[i] = plan[i]
     \/ pc[o] = "phaseConfirm" /\ plan'[i] = plan[i]
     \/ pc[o] = "preflight" /\ file[i] = "none"

ClaimedBy(o, i) ==
  /\ pc[o] = "claiming"
  /\ i \in todo[o] /\ i \in claimed'[o]
  /\ status[i] = ClaimStatus(o)
  /\ status'[i] = ExecuteStatus(o)
  /\ token'[i] = o
  /\ plan'[i] = plan[i]

\* An approved row that was not claimed becomes pending again.
PutBack(o, i) ==
  /\ pc[o] \in {"requested", "settling"}
  /\ status[i] = "approved" /\ token[i] = o
  /\ status'[i] = "pending" /\ token'[i] = NoOp
  /\ plan'[i] = plan[i]

RowStep(o, i) ==
  Untouched(i) \/ Concluded(o, i) \/ Progressed(o, i) \/ ClaimedBy(o, i) \/ PutBack(o, i)

\* Writing an outcome touches the row it is about if that is still owned, and
\* no other.
LEMMA OutcomeWritten ==
  ASSUME RowsOK, NEW o, NEW i \in Items, NEW s, NEW n, NEW p, Settle(o, i, s, n, p), NEW j \in Items
  PROVE  \/ Untouched(j)
         \/ /\ j = i /\ Owns(o, i)
            /\ status'[i] = s /\ token'[i] = NoOp /\ note'[i] = n /\ plan'[i] = p
<1>1. CASE WriteFails
  BY <1>1 DEF WriteFails, rowVars, Untouched
<1>2. CASE WriteOutcome(o, i, s, n, p)
  BY <1>2 DEF WriteOutcome, rowVars, Untouched, RowsOK
<1> QED
  BY <1>1, <1>2 DEF Settle

\* An outcome of the item in hand, which is not `executed'.
LEMMA ItemConcluded ==
  ASSUME TypeOK, NEW o \in Ops, pc[o] \in ItemSteps, NEW s \in {"pending", "retry_pending", "expired"},
         NEW n, NEW p, Settle(o, item[o], s, n, p), p = plan[item[o]] \/ pc[o] \in RecordSteps,
         NEW j \in Items
  PROVE  RowStep(o, j)
<1>1. item[o] \in Items /\ RowsOK
  BY ItemInHand DEF TypeOK
<1>2. \/ Untouched(j)
      \/ /\ j = item[o] /\ Owns(o, item[o])
         /\ status'[j] = s /\ token'[j] = NoOp /\ plan'[j] = p
  <2> DEFINE i == item[o]
  <2>1. i \in Items /\ RowsOK /\ Settle(o, i, s, n, p)
    BY <1>1
  <2> HIDE DEF i
  <2>2. \/ Untouched(j)
        \/ /\ j = i /\ Owns(o, i)
           /\ status'[i] = s /\ token'[i] = NoOp /\ note'[i] = n /\ plan'[i] = p
    BY ONLY <2>1, j \in Items, OutcomeWritten
  <2> QED
    BY ONLY <2>2 DEF i
<1>3. s \in {"pending", "retry_pending", "expired", "executed"} /\ s # "executed"
  OBVIOUS
<1>4. CASE Untouched(j)
  BY ONLY <1>4 DEF RowStep
<1>5. CASE /\ j = item[o] /\ Owns(o, item[o])
           /\ status'[j] = s /\ token'[j] = NoOp /\ plan'[j] = p
  <2>1. Owns(o, j) /\ j = item[o]
    BY ONLY <1>5
  <2>2. status'[j] \in {"pending", "retry_pending", "expired", "executed"} /\ status'[j] # "executed"
    BY ONLY <1>3, <1>5
  <2>3. token'[j] = NoOp
    BY ONLY <1>5
  <2>4. plan'[j] = plan[j] \/ pc[o] \in RecordSteps
    BY ONLY <1>5, p = plan[item[o]] \/ pc[o] \in RecordSteps
  <2>5. Concluded(o, j)
    BY ONLY <2>1, <2>2, <2>3, <2>4 DEF Concluded
  <2> QED
    BY ONLY <2>5 DEF RowStep
<1> QED
  BY ONLY <1>2, <1>4, <1>5

\* Every step of an operation does one of these to each row.
LEMMA RowSteps ==
  ASSUME TypeOK, NEW o \in Ops, Execute(o), NEW j \in Items
  PROVE  RowStep(o, j)
<1>a. \/ ExecuteStatus(o) = "executing" /\ RetryStatus(o) = "pending" /\ o \in ApproveOps
      \/ ExecuteStatus(o) = "retry_executing" /\ RetryStatus(o) = "retry_pending" /\ o \notin ApproveOps
  BY DEF ExecuteStatus, RetryStatus
<1>b. RetryStatus(o) \in {"pending", "retry_pending", "expired"}
  BY <1>a
<1>c. ASSUME UNCHANGED rowVars PROVE RowStep(o, j)
  BY <1>c DEF rowVars, RowStep, Untouched
<1>d. {"preflight", "phaseStart", "phaseConfirm", "recording"} \cup CheckSteps \cup MutationSteps
        \subseteq ItemSteps
  BY DEF ItemSteps
<1>e. ASSUME pc[o] \in ItemSteps,
             NEW s \in {"pending", "retry_pending", "expired"}, NEW n, Settle(o, item[o], s, n, plan[item[o]])
      PROVE  RowStep(o, j)
  BY <1>e, ItemConcluded
<1>1. CASE \/ AcquireLease(o) \/ NoMoreItems(o) \/ PreflightReconciles(o) \/ PreflightProceeds(o)
           \/ PreflightLosesLease(o) \/ AuthorizeDefers(o) \/ AlreadyGone(o) \/ ReleaseLease(o)
           \/ \E i \in Items : PickItem(o, i)
  BY <1>1, <1>c DEF AcquireLease, NoMoreItems, PreflightReconciles, PreflightProceeds,
     PreflightLosesLease, AuthorizeDefers, AlreadyGone, ReleaseLease, PickItem
<1>2. CASE LeaseRefused(o)
  <2>1. CASE UNCHANGED rowVars
    BY <2>1, <1>c
  <2>2. CASE ReleaseUnclaimed(o)
    BY <1>2, <2>2 DEF LeaseRefused, ReleaseUnclaimed, RowStep, Untouched, PutBack
  <2> QED
    BY <1>2, <2>1, <2>2 DEF LeaseRefused
<1>3. ASSUME NEW i \in Items, Claim(o, i) PROVE RowStep(o, j)
  <2>1. CASE UNCHANGED rowVars
    BY <2>1, <1>c
  <2>2. CASE ~UNCHANGED rowVars
    <3>1. /\ pc[o] = "claiming" /\ i \in todo[o] /\ status[i] = ClaimStatus(o)
          /\ status' = [status EXCEPT ![i] = ExecuteStatus(o)]
          /\ token' = [token EXCEPT ![i] = o]
          /\ claimed' = [claimed EXCEPT ![o] = @ \cup {i}]
          /\ UNCHANGED <<note, plan>>
      BY <1>3, <2>2 DEF Claim, WriteFails
    <3>2. i \in claimed'[o]
      BY <3>1 DEF TypeOK, BatchesOK
    <3> QED
      BY <3>1, <3>2 DEF RowStep, Untouched, ClaimedBy, TypeOK, RowsOK
  <2> QED
    BY <2>1, <2>2
<1>4. ASSUME NEW i \in Items, ExpireUnattributed(o, i) PROVE RowStep(o, j)
  <2>1. Settle(o, i, "expired", "started", plan[i]) /\ RowsOK
    BY <1>4 DEF ExpireUnattributed, TypeOK
  <2>2. \/ Untouched(j)
        \/ j = i /\ Owns(o, i) /\ status'[i] = "expired" /\ token'[i] = NoOp /\ plan'[i] = plan[i]
    BY <2>1, OutcomeWritten
  <2> QED
    BY <2>2 DEF RowStep, Concluded
<1>5. CASE PreflightAdoptsRemainder(o)
  <2>1. item[o] \in Items
    BY <1>5, <1>d, ItemInHand DEF PreflightAdoptsRemainder, TypeOK
  <2> QED
    BY <1>5, <2>1 DEF PreflightAdoptsRemainder, FileAlreadyGone, TypeOK, RowsOK, RowStep, Untouched, Progressed
<1>6. CASE PreflightRefuses(o)
  BY <1>6, <1>b, <1>d, <1>e DEF PreflightRefuses
<1>7. CASE CheckPasses(o)
  BY <1>7 DEF CheckPasses, RowStep, Untouched
<1>8. CASE CheckFails(o)
  BY <1>8, <1>b, <1>d, <1>e DEF CheckFails
<1>9. CASE AuthorityChanges(o) \/ CheckLosesLease(o)
  <2>1. pc[o] \in ItemSteps
    BY <1>9, <1>d DEF AuthorityChanges, CheckLosesLease
  <2>2. CASE DeletedFile(o) /\ Settle(o, item[o], RetryStatus(o), "other", "empty")
    <3>1. pc[o] \in RecordSteps
      BY <2>2 DEF DeletedFile, RecordSteps
    <3> QED
      BY <1>b, <2>1, <2>2, <3>1, ItemConcluded
  <2>3. CASE \E s \in {"pending", "retry_pending", "expired"}, n \in Notes :
               Settle(o, item[o], s, n, plan[item[o]])
    BY <1>e, <2>1, <2>3
  <2>4. KeptNote(item[o]) \in Notes /\ note[item[o]] \in Notes
    BY <2>1, ItemInHand, OutcomeWords DEF TypeOK, RowsOK
  <2>5. \A c \in BOOLEAN : /\ (IF c THEN "retry_pending" ELSE RetryStatus(o)) \in {"pending", "retry_pending", "expired"}
                           /\ (IF c THEN "confirmed" ELSE KeptNote(item[o])) \in Notes
                           /\ (IF c THEN "confirmed" ELSE note[item[o]]) \in Notes
    BY <1>b, <2>4, OutcomeWords
  <2>6. CASE AuthorityChanges(o)
    BY <1>b, <2>2, <2>3, <2>5, <2>6, OutcomeWords DEF AuthorityChanges
  <2>7. CASE CheckLosesLease(o)
    BY <1>b, <2>2, <2>3, <2>5, <2>7, OutcomeWords DEF CheckLosesLease
  <2> QED
    BY <1>9, <2>6, <2>7
<1>10. CASE DeleteMovieFile(o) \/ DeleteEpisodeFile(o) \/ UnmonitorEpisode(o)
  <2>1. pc[o] \in ItemSteps
    BY <1>10, <1>d DEF DeleteMovieFile, DeleteEpisodeFile, UnmonitorEpisode, MutationSteps
  <2> QED
    BY <1>10, <1>b, <1>c, <1>e, <2>1 DEF DeleteMovieFile, DeleteEpisodeFile, UnmonitorEpisode
<1>11. CASE DeleteMovieRecord(o)
  <2>1. pc[o] \in ItemSteps /\ pc[o] \in RecordSteps
    BY <1>11, <1>d DEF DeleteMovieRecord, MutationSteps, RecordSteps
  <2>2. CASE Settle(o, item[o], RetryStatus(o), "other", "empty")
    BY <1>b, <2>1, <2>2, ItemConcluded
  <2> QED
    BY <1>11, <1>b, <1>c, <1>e, <2>1, <2>2 DEF DeleteMovieRecord
<1>12. CASE PersistStarted(o) \/ PersistConfirmed(o)
  <2>1. pc[o] \in ItemSteps
    BY <1>12, <1>d DEF PersistStarted, PersistConfirmed
  <2>2. item[o] \in Items
    BY <2>1, ItemInHand DEF TypeOK
  <2>3. CASE \E n : Settle(o, item[o], "retry_pending", n, plan[item[o]])
    BY <1>e, <2>1, <2>3
  <2>4. CASE PersistStarted(o)
    BY <2>2, <2>3, <2>4 DEF PersistStarted, RowStep, Untouched, Progressed, TypeOK, RowsOK
  <2>5. CASE PersistConfirmed(o)
    BY <2>2, <2>3, <2>5 DEF PersistConfirmed, RowStep, Untouched, Progressed, TypeOK, RowsOK
  <2> QED
    BY <1>12, <2>4, <2>5
<1>13. CASE RecordExecuted(o)
  <2>1. item[o] \in Items
    BY <1>13, <1>d, ItemInHand DEF RecordExecuted, TypeOK
  <2>2. CASE UNCHANGED rowVars
    BY <1>c, <2>2
  <2>3. CASE WriteOutcome(o, item[o], "executed", "none", plan[item[o]])
    <3>1. pc[o] = "recording" /\ RowsOK
      BY <1>13 DEF RecordExecuted, TypeOK
    <3>2. PICK i \in Items : i = item[o]
      BY <2>1
    <3>3. Settle(o, i, "executed", "none", plan[i])
      BY <2>3, <3>2 DEF Settle
    <3>4. \/ Untouched(j)
          \/ j = i /\ Owns(o, i) /\ status'[i] = "executed" /\ token'[i] = NoOp /\ plan'[i] = plan[i]
      BY <3>1, <3>3, OutcomeWritten
    <3> QED
      BY <3>1, <3>2, <3>4 DEF RowStep, Concluded
  <2> QED
    BY <1>13, <2>2, <2>3 DEF RecordExecuted
<1>14. CASE SettleBatch(o)
  <2>1. PICK Kept \in SUBSET Items :
          /\ status' = [i \in Items |-> IF i \notin Kept /\ (Unprocessed(o, i)
               \/ (o \in ApproveOps /\ status[i] = "approved" /\ token[i] = o)) THEN RetryStatus(o) ELSE status[i]]
          /\ token' = [i \in Items |-> IF i \notin Kept /\ (Unprocessed(o, i)
               \/ (o \in ApproveOps /\ status[i] = "approved" /\ token[i] = o)) THEN NoOp ELSE token[i]]
          /\ note' = [i \in Items |-> IF i \notin Kept /\ (Unprocessed(o, i)
               \/ (o \in ApproveOps /\ status[i] = "approved" /\ token[i] = o))
               THEN IF o \in ApproveOps /\ status[i] = "approved" /\ token[i] = o THEN "other" ELSE KeptNote(i)
               ELSE note[i]]
    BY <1>14 DEF SettleBatch
  <2>2. pc[o] = "settling" /\ plan' = plan
    BY <1>14 DEF SettleBatch
  <2>3. CASE j \notin Kept /\ Unprocessed(o, j)
    BY <1>b, <2>1, <2>2, <2>3 DEF Unprocessed, RowStep, Concluded
  <2>4. CASE j \notin Kept /\ o \in ApproveOps /\ status[j] = "approved" /\ token[j] = o
    BY <1>a, <2>1, <2>2, <2>4 DEF RowStep, PutBack
  <2>5. CASE ~(j \notin Kept /\ (Unprocessed(o, j) \/ (o \in ApproveOps /\ status[j] = "approved" /\ token[j] = o)))
    BY <2>1, <2>2, <2>5 DEF RowStep, Untouched
  <2> QED
    BY <2>3, <2>4, <2>5
<1> QED
  BY <1>1, <1>2, <1>3, <1>4, <1>5, <1>6, <1>7, <1>8, <1>9, <1>10, <1>11, <1>12, <1>13, <1>14 DEF Execute

-----------------------------------------------------------------------------
\* A pending row is approved by a request that was never issued before.
ApprovedBy(o, i) ==
  /\ pc[o] = "idle" /\ pc'[o] = "requested"
  /\ status[i] = "pending" /\ status'[i] = "approved" /\ token'[i] = o
  /\ plan'[i] = plan[i]

Dropped(i) ==
  /\ status[i] = "pending" /\ status'[i] \in {"expired", "rejected"}
  /\ plan'[i] = plan[i]

\* The scheduler takes a row from an operation.
Recovered(i) ==
  /\ status[i] \in InFlightStatuses
  /\ status'[i] \in {"pending", "retry_pending", "expired"} /\ token'[i] = NoOp
  /\ status[i] # "approved" /\ note[i] = "started" => status'[i] = "expired"
  /\ plan'[i] = plan[i]

OutsideRowStep(i) ==
  Untouched(i) \/ Dropped(i) \/ Recovered(i) \/ \E o \in ApproveOps : ApprovedBy(o, i)

\* What requests, the clock, the scheduler, crashes and users do to a row.
LEMMA OutsideRowSteps ==
  ASSUME TypeOK, Next, \A o \in Ops : ~Execute(o), NEW j \in Items
  PROVE  OutsideRowStep(j)
<1> USE DEF TypeOK, RowsOK
<1>1. ASSUME NEW o \in ApproveOps, NEW S \in SUBSET Items, Approve(o, S) PROVE OutsideRowStep(j)
  <2> DEFINE Lapsing == status[j] = "pending" /\ lapsed[j]
             Chosen == j \in S /\ status[j] = "pending" /\ ~lapsed[j]
  <2>1. /\ status'[j] = IF Lapsing THEN "expired" ELSE IF Chosen THEN "approved" ELSE status[j]
        /\ token'[j] = IF Chosen THEN o ELSE token[j]
        /\ note'[j] = IF Lapsing THEN "other" ELSE note[j]
        /\ plan'[j] = plan[j] /\ pc[o] = "idle" /\ pc'[o] = "requested"
    BY <1>1 DEF Approve, Goto, StepsOK, Ops
  <2>2. CASE Lapsing
    BY <2>1, <2>2 DEF OutsideRowStep, Dropped
  <2>3. CASE ~Lapsing /\ Chosen
    BY <2>1, <2>3 DEF OutsideRowStep, ApprovedBy
  <2>4. CASE ~Lapsing /\ ~Chosen
    BY <2>1, <2>4 DEF OutsideRowStep, Untouched
  <2> QED
    BY <2>2, <2>3, <2>4
<1>2. ASSUME UNCHANGED <<status, token, note, plan>> PROVE OutsideRowStep(j)
  BY <1>2 DEF OutsideRowStep, Untouched
<1>3. ASSUME NEW o \in Ops, Heartbeat(o) \/ LoseOwnership(o) \/ \E S \in SUBSET Items : RequestRetry(o, S)
      PROVE  OutsideRowStep(j)
  BY <1>2, <1>3 DEF Heartbeat, LoseOwnership, RequestRetry, rowVars
<1>4. ASSUME NEW i \in Items, RowAges(i) \/ ApprovalLapses(i) \/ Meddle(i) PROVE OutsideRowStep(j)
  BY <1>2, <1>4 DEF RowAges, ApprovalLapses, Meddle, rowVars
<1>5. CASE LeaseGoesStale \/ Crash
  BY <1>2, <1>5 DEF LeaseGoesStale, Crash, rowVars
<1>6. ASSUME NEW i \in Items, Reject(i) \/ ExpirePending(i) PROVE OutsideRowStep(j)
  BY <1>6 DEF Reject, ExpirePending, OutsideRowStep, Untouched, Dropped
<1>7. ASSUME NEW i \in Items, RecoverApproved(i) \/ RecoverStarted(i) \/ RecoverConfirmed(i)
               \/ RecoverExecuting(i) \/ RecoverRetryExecuting(i)
      PROVE  OutsideRowStep(j)
  <2>1. PICK s, n : /\ Recover(i, s, n)
                    /\ s \in {"pending", "retry_pending", "expired"}
                    /\ status[i] \in InFlightStatuses
                    /\ status[i] # "approved" /\ note[i] = "started" => s = "expired"
    BY <1>7 DEF RecoverApproved, RecoverStarted, RecoverConfirmed, RecoverExecuting,
       RecoverRetryExecuting, InFlightStatuses, OutsidePhases
  <2> QED
    BY <2>1 DEF Recover, OutsideRowStep, Untouched, Recovered
<1> QED
  BY <1>1, <1>3, <1>4, <1>5, <1>6, <1>7 DEF Next, Operate, Schedule, Ops

LEMMA FinalStep ==
  ASSUME TypeOK, [Next]_vars, NEW i \in Items, status[i] \in FinalStatuses
  PROVE  status'[i] = status[i]
<1>1. status[i] \notin InFlightStatuses \cup {"pending", "retry_pending"}
  BY DEF FinalStatuses, InFlightStatuses
<1>2. ASSUME NEW o \in Ops, Execute(o) PROVE status'[i] = status[i]
  BY <1>1, <1>2, RowSteps DEF RowStep, Untouched, Concluded, Progressed, ClaimedBy, PutBack, Owns,
     ExecuteStatus, ClaimStatus, InFlightStatuses
<1>3. CASE Next /\ \A o \in Ops : ~Execute(o)
  BY <1>1, <1>3, OutsideRowSteps DEF OutsideRowStep, Untouched, Dropped, Recovered, ApprovedBy
<1>4. CASE UNCHANGED vars
  BY <1>4 DEF vars, rowVars
<1> QED
  BY <1>2, <1>3, <1>4

\* Executed, rejected and expired are final, whatever stalls, fails or crashes,
\* and however late an executor writes its outcome.
THEOREM OutcomesAreFinal == Spec => FinalIsFinal
<1>1. TypeOK /\ [Next]_vars =>
        [\A i \in Items : status[i] \in FinalStatuses => status'[i] = status[i]]_vars
  BY FinalStep
<1> QED
  BY <1>1, TypeCorrect, PTL DEF Spec, FinalIsFinal

-----------------------------------------------------------------------------
(***************************************************************************)
(* The path of an operation through one item.                              *)
(***************************************************************************)

\* A check that renewed the lease leads on.
Checked(o) ==
  LET i == item[o] IN
  /\ leaseOwner = o
  /\ \/ pc[o] = "authorize" /\ pc'[o] = "recording" /\ route[o] = "reconcile"
     \/ pc[o] = "authorize" /\ pc'[o] = "epCheck" /\ i \in Episodes
     \/ pc[o] = "authorize" /\ pc'[o] = "fileCheck" /\ i \notin Episodes
     \/ pc[o] = "authorize" /\ pc'[o] = "recordCheck" /\ i \notin Episodes /\ plan[i] # "file"
     \/ pc[o] = "fileCheck" /\ pc'[o] = "fileDelete"
     \/ pc[o] = "recordCheck" /\ pc'[o] = "recordDelete"
     \/ pc[o] = "recordRecheck" /\ pc'[o] = "recordRedelete"
     \/ pc[o] = "epCheck" /\ pc'[o] \in {"epFileCheck", "phaseStart"}
     \/ pc[o] = "epFileCheck" /\ pc'[o] = "epDelete"

\* A call, or a record of progress, leads on.
Called(o) ==
  LET i == item[o] IN
  \/ pc[o] = "fileDelete" /\ pc'[o] = "recordCheck" /\ (~record[i] \/ file'[i] = "none")
  \/ pc[o] \in {"recordDelete", "recordRedelete"} /\ pc'[o] = "recording" /\ ~record'[i]
  \/ pc[o] = "recordDelete" /\ pc'[o] = "recordRecheck"
  \/ pc[o] = "phaseStart" /\ pc'[o] = "unmonitor" /\ note'[i] = "started"
  \/ pc[o] = "unmonitor" /\ pc'[o] = "phaseConfirm" /\ UNCHANGED note
  \/ pc[o] = "phaseConfirm" /\ pc'[o] = "epFileCheck"
  \/ pc[o] = "epDelete" /\ pc'[o] = "recording" /\ file'[i] = "none"

\* The target is found to be gone already.
Skipped(o) ==
  LET i == item[o] IN
  \/ pc[o] = "fileCheck" /\ pc'[o] = "recordCheck" /\ (~record[i] \/ file[i] = "none")
  \/ pc[o] \in {"recordCheck", "recordRecheck"} /\ pc'[o] = "recording" /\ ~record[i]

\* The plan was found to be met, or unchanged.
Preflighted(o) ==
  /\ pc[o] = "preflight" /\ pc'[o] = "authorize"
  /\ route'[o] = "reconcile" => AlreadyDone(item[o])

\* An operation that works on an item just took it, or goes on with it.
LEMMA ItemPath ==
  ASSUME TypeOK, NEW o \in Ops, Execute(o), pc'[o] \in ItemSteps
  PROVE  \/ \E i \in Items : PickItem(o, i)
         \/ /\ pc[o] \in ItemSteps /\ pc'[o] # "preflight" /\ item'[o] = item[o] /\ item[o] \in Items
            /\ Preflighted(o) \/ Checked(o) \/ Called(o) \/ Skipped(o)
<1> USE DEF TypeOK, StepsOK
<1>a. ASSUME NEW s, Goto(o, s) PROVE pc'[o] = s
  BY <1>a DEF Goto
<1>b. {"authorize", "preflight", "phaseStart", "phaseConfirm", "recording"} \cup CheckSteps
        \cup MutationSteps \subseteq ItemSteps
      /\ {"picking", "settling", "claiming", "done", "releasing"} \cap ItemSteps = {}
  BY DEF ItemSteps, CheckSteps, MutationSteps
<1>c. ~NextItem(o) /\ ~Abort(o)
  BY <1>a, <1>b DEF NextItem, Abort
<1>d. ASSUME pc[o] \in ItemSteps, UNCHANGED item PROVE item'[o] = item[o] /\ item[o] \in Items
  BY <1>d, ItemInHand
<1>1. CASE CheckPasses(o)
  <2>1. pc[o] \in ItemSteps /\ UNCHANGED item /\ pc'[o] = StepAfterCheck(o, item[o]) /\ leaseOwner = o
    BY <1>1, <1>a, <1>b DEF CheckPasses, AssertOwnership
  <2>2. pc[o] \in CheckSteps
    BY <1>1 DEF CheckPasses
  <2>3. Checked(o)
    BY <2>1, <2>2 DEF CheckSteps, StepAfterCheck, Checked
  <2>4. pc'[o] # "preflight"
    BY <2>3 DEF Checked
  <2> QED
    BY <1>d, <2>1, <2>3, <2>4
<1>2. CASE AlreadyGone(o)
  <2>1. pc[o] \in CheckSteps /\ UNCHANGED item /\ Skipped(o)
    BY <1>2, <1>a DEF AlreadyGone, CheckSteps, Skipped
  <2>2. pc'[o] # "preflight"
    BY <2>1 DEF Skipped
  <2> QED
    BY <1>b, <1>d, <2>1, <2>2
<1>3. CASE DeleteMovieFile(o) \/ DeleteMovieRecord(o) \/ DeleteEpisodeFile(o) \/ UnmonitorEpisode(o)
  <2>1. pc[o] \in MutationSteps /\ UNCHANGED <<item, note>>
    BY <1>3, <1>c DEF DeleteMovieFile, DeleteMovieRecord, DeleteEpisodeFile, UnmonitorEpisode,
       MutationSteps, rowVars
  <2>2. Called(o)
    BY <1>3, <1>a, <1>c, <2>1 DEF DeleteMovieFile, DeleteMovieRecord, DeleteEpisodeFile, UnmonitorEpisode, Called
  <2>3. pc'[o] # "preflight"
    BY <2>2 DEF Called
  <2> QED
    BY <1>b, <1>d, <2>1, <2>2, <2>3
<1>4. CASE PersistStarted(o) \/ PersistConfirmed(o)
  <2>1. pc[o] \in ItemSteps /\ UNCHANGED item
    BY <1>4, <1>b, <1>c DEF PersistStarted, PersistConfirmed
  <2>2. item[o] \in Items
    BY <1>d, <2>1
  <2>3. Called(o)
    BY <1>4, <1>a, <1>c, <2>2 DEF PersistStarted, PersistConfirmed, Called, RowsOK
  <2>4. pc'[o] # "preflight"
    BY <2>3 DEF Called
  <2> QED
    BY <1>d, <2>1, <2>3, <2>4
<1>5. CASE PreflightReconciles(o) \/ PreflightProceeds(o) \/ PreflightAdoptsRemainder(o)
  <2>1. pc[o] = "preflight" /\ UNCHANGED item /\ pc'[o] = "authorize"
    BY <1>5, <1>a DEF PreflightReconciles, PreflightProceeds, PreflightAdoptsRemainder, Proceed
  <2>2. route'[o] = "reconcile" => AlreadyDone(item[o])
    BY <1>5 DEF PreflightReconciles, PreflightProceeds, PreflightAdoptsRemainder, Proceed
  <2> QED
    BY <1>b, <1>d, <2>1, <2>2 DEF Preflighted
<1>6. CASE AcquireLease(o) \/ LeaseRefused(o) \/ NoMoreItems(o) \/ SettleBatch(o) \/ ReleaseLease(o)
           \/ \E i \in Items : Claim(o, i) \/ ExpireUnattributed(o, i)
  BY <1>6, <1>a, <1>b DEF AcquireLease, LeaseRefused, NoMoreItems, SettleBatch, ReleaseLease,
     Claim, ExpireUnattributed
<1>7. CASE PreflightRefuses(o) \/ PreflightLosesLease(o) \/ AuthorizeDefers(o) \/ CheckFails(o)
           \/ AuthorityChanges(o) \/ CheckLosesLease(o) \/ RecordExecuted(o)
  BY <1>7, <1>c DEF PreflightRefuses, PreflightLosesLease, AuthorizeDefers, CheckFails,
     AuthorityChanges, CheckLosesLease, RecordExecuted
<1> QED
  BY <1>1, <1>2, <1>3, <1>4, <1>5, <1>6, <1>7 DEF Execute

\* Radarr and Sonarr never get back a record or a verified file, and a record
\* that is deleted with its file still there was deleted by cleanup.
LEMMA NothingComesBack ==
  ASSUME TypeOK, [Next]_vars, NEW i \in Items
  PROVE  /\ ~record[i] => ~record'[i]
         /\ file[i] # "verified" => file'[i] # "verified"
         /\ record[i] /\ ~record'[i] =>
              \/ file'[i] = "none"
              \/ file' = file /\ \E o \in Ops : pc[o] \in RecordSteps /\ item[o] = i
<1> USE DEF TypeOK, ArrOK
<1>1. ASSUME UNCHANGED arrVars PROVE UNCHANGED <<file, record>>
  BY <1>1 DEF arrVars
<1>2. CASE UNCHANGED vars
  BY <1>2 DEF vars, arrVars
<1>3. ASSUME NEW o \in Ops, DeleteMovieFile(o) \/ DeleteEpisodeFile(o) PROVE
        /\ UNCHANGED record
        /\ file[i] # "verified" => file'[i] # "verified"
  BY <1>3 DEF DeleteMovieFile, DeleteEpisodeFile
<1>4. ASSUME NEW o \in Ops, DeleteMovieRecord(o) PROVE
        /\ UNCHANGED file
        /\ ~record[i] => ~record'[i]
        /\ record[i] /\ ~record'[i] => pc[o] \in RecordSteps /\ item[o] = i
  BY <1>4 DEF DeleteMovieRecord, RecordSteps
<1>5. ASSUME NEW j \in Items, Meddle(j) PROVE
        /\ file[i] # "verified" => file'[i] # "verified"
        /\ ~record[i] => ~record'[i]
        /\ record[i] /\ ~record'[i] => file'[i] = "none"
  BY <1>5 DEF Meddle
<1>6. ASSUME NEW o \in Ops, Execute(o), ~DeleteMovieFile(o), ~DeleteEpisodeFile(o), ~DeleteMovieRecord(o)
      PROVE  UNCHANGED <<file, record>>
  BY <1>1, <1>6 DEF Execute, AcquireLease, LeaseRefused, Claim, PickItem, ExpireUnattributed, NoMoreItems,
     PreflightReconciles, PreflightProceeds, PreflightAdoptsRemainder, PreflightRefuses,
     PreflightLosesLease, Proceed, CheckPasses, AuthorizeDefers, AlreadyGone, CheckFails,
     AuthorityChanges, CheckLosesLease, PersistStarted, UnmonitorEpisode, PersistConfirmed,
     RecordExecuted, SettleBatch, ReleaseLease
<1>7. ASSUME NEW o \in Ops, Heartbeat(o) \/ LoseOwnership(o) \/ \E S \in SUBSET Items : RequestRetry(o, S) \/ Approve(o, S)
      PROVE  UNCHANGED <<file, record>>
  BY <1>1, <1>7 DEF Heartbeat, LoseOwnership, RequestRetry, Approve
<1>8. ASSUME NEW j \in Items, Reject(j) \/ Schedule(j) \/ RowAges(j) \/ ApprovalLapses(j)
      PROVE  UNCHANGED <<file, record>>
  BY <1>1, <1>8 DEF Reject, Schedule, RowAges, ApprovalLapses, ExpirePending, RecoverApproved, RecoverStarted,
     RecoverConfirmed, RecoverExecuting, RecoverRetryExecuting, Recover
<1>9. CASE LeaseGoesStale \/ Crash
  BY <1>1, <1>9 DEF LeaseGoesStale, Crash
<1> QED
  BY <1>2, <1>3, <1>4, <1>5, <1>6, <1>7, <1>8, <1>9 DEF Next, Operate, Ops

\* What an operation knows survives everything but its own steps and a crash.
LEMMA MemoryKept ==
  ASSUME TypeOK, [Next]_vars, NEW x \in Ops, ~Execute(x), ~Crash
  PROVE  /\ pc'[x] = pc[x] \/ (pc[x] = "idle" /\ pc'[x] = "requested")
         /\ item'[x] = item[x] /\ route'[x] = route[x]
         /\ claimed'[x] = claimed[x] /\ attempted'[x] = attempted[x] /\ overrun'[x] = overrun[x]
         /\ pc[x] # "idle" => todo'[x] = todo[x]
<1> USE DEF TypeOK, StepsOK, BatchesOK, HistoryOK
<1> DEFINE Kept == /\ item'[x] = item[x] /\ route'[x] = route[x] /\ claimed'[x] = claimed[x]
                   /\ attempted'[x] = attempted[x] /\ overrun'[x] = overrun[x]
<1>1. ASSUME NEW o \in Ops, Execute(o)
      PROVE  pc'[x] = pc[x] /\ todo'[x] = todo[x] /\ Kept
  <2>1. o # x
    BY <1>1
  <2>2. ASSUME NextItem(o) \/ Abort(o) PROVE item'[x] = item[x] /\ route'[x] = route[x]
    BY <2>1, <2>2 DEF NextItem, Abort
  <2>3. ASSUME Attempt(o) PROVE attempted'[x] = attempted[x] /\ overrun'[x] = overrun[x]
    BY <2>1, <2>3 DEF Attempt
  <2>4. pc'[x] = pc[x] /\ item'[x] = item[x]
    BY <1>1, <2>1, StepFrame
  <2>5. CASE AcquireLease(o) \/ LeaseRefused(o) \/ NoMoreItems(o) \/ SettleBatch(o) \/ ReleaseLease(o)
             \/ \E i \in Items : Claim(o, i) \/ PickItem(o, i) \/ ExpireUnattributed(o, i)
    BY <2>1, <2>4, <2>5 DEF AcquireLease, LeaseRefused, NoMoreItems, SettleBatch, ReleaseLease, Claim,
       PickItem, ExpireUnattributed, historyVars
  <2>6. CASE PreflightReconciles(o) \/ PreflightProceeds(o) \/ PreflightAdoptsRemainder(o)
             \/ PreflightRefuses(o) \/ PreflightLosesLease(o)
    BY <2>1, <2>2, <2>4, <2>6 DEF PreflightReconciles, PreflightProceeds, PreflightAdoptsRemainder,
       PreflightRefuses, PreflightLosesLease, Proceed, historyVars
  <2>7. CASE CheckPasses(o) \/ AuthorizeDefers(o) \/ AlreadyGone(o) \/ CheckFails(o)
             \/ AuthorityChanges(o) \/ CheckLosesLease(o)
    BY <2>2, <2>4, <2>7 DEF CheckPasses, AuthorizeDefers, AlreadyGone, CheckFails, AuthorityChanges,
       CheckLosesLease, historyVars
  <2>8. CASE DeleteMovieFile(o) \/ DeleteMovieRecord(o) \/ DeleteEpisodeFile(o) \/ UnmonitorEpisode(o)
    BY <2>2, <2>3, <2>4, <2>8 DEF DeleteMovieFile, DeleteMovieRecord, DeleteEpisodeFile, UnmonitorEpisode
  <2>9. CASE PersistStarted(o) \/ PersistConfirmed(o) \/ RecordExecuted(o)
    BY <2>2, <2>4, <2>9 DEF PersistStarted, PersistConfirmed, RecordExecuted, historyVars
  <2> QED
    BY <1>1, <2>5, <2>6, <2>7, <2>8, <2>9 DEF Execute
<1>2. ASSUME NEW o \in Ops, NEW S \in SUBSET Items, Approve(o, S) \/ RequestRetry(o, S)
      PROVE  /\ pc'[x] = pc[x] \/ (pc[x] = "idle" /\ pc'[x] = "requested")
             /\ Kept /\ (pc[x] # "idle" => todo'[x] = todo[x])
  BY <1>2 DEF Approve, RequestRetry, Goto, historyVars
<1>3. ASSUME NEW o \in Ops, Heartbeat(o) \/ LoseOwnership(o)
      PROVE  pc'[x] = pc[x] /\ todo'[x] = todo[x] /\ Kept
  BY <1>3 DEF Heartbeat, LoseOwnership, historyVars
<1>4. ASSUME NEW i \in Items, Reject(i) \/ Schedule(i) \/ RowAges(i) \/ ApprovalLapses(i) \/ Meddle(i)
      PROVE  pc'[x] = pc[x] /\ todo'[x] = todo[x] /\ Kept
  <2>1. UNCHANGED <<opVars, historyVars>>
    BY <1>4 DEF Reject, Schedule, RowAges, ApprovalLapses, Meddle, ExpirePending, RecoverApproved,
       RecoverStarted, RecoverConfirmed, RecoverExecuting, RecoverRetryExecuting, Recover
  <2> QED
    BY <2>1 DEF opVars, historyVars
<1>5. CASE LeaseGoesStale \/ UNCHANGED vars
  BY <1>5 DEF LeaseGoesStale, vars, opVars, historyVars
<1> HIDE DEF Kept
<1>6. pc'[x] = pc[x] \/ (pc[x] = "idle" /\ pc'[x] = "requested")
  BY <1>1, <1>2, <1>3, <1>4, <1>5 DEF Next, Operate, Ops, Kept
<1>7. Kept /\ (pc[x] # "idle" => todo'[x] = todo[x])
  BY <1>1, <1>2, <1>3, <1>4, <1>5 DEF Next, Operate, Ops, Kept
<1> QED
  BY <1>6, <1>7 DEF Kept

-----------------------------------------------------------------------------
(***************************************************************************)
(* What the rows say of Radarr and Sonarr.  The facts an executor learns   *)
(* about a target (the record is gone, the verified file is gone) cannot   *)
(* become false again, so it may rely on them without any lease.           *)
(***************************************************************************)

MovieSteps == {"fileCheck", "fileDelete"} \cup RecordSteps
EpisodeSteps == {"epCheck", "phaseStart", "unmonitor", "phaseConfirm", "epFileCheck", "epDelete"}

\* Movies and episodes are deleted by the steps made for them.
KindOfStep ==
  \A o \in Ops : /\ pc[o] \in MovieSteps => item[o] \in Movies
                 /\ pc[o] \in EpisodeSteps => item[o] \in Episodes

\* Where the record is gone, or the plan or an operation takes the verified
\* file for gone, it is.
FileGone ==
  /\ \A i \in Items : ~record[i] \/ plan[i] = "empty" => file[i] # "verified"
  /\ \A o \in Ops : pc[o] \in RecordSteps => file[item[o]] # "verified"

Gone(i) == IF i \in Movies THEN ~record[i] ELSE file[i] # "verified"

\* Where a row, or an operation about to write one, says the target is gone, it is.
TargetGone ==
  /\ \A i \in Items : status[i] = "executed" => Gone(i)
  /\ \A o \in Ops :
       pc[o] = "recording" \/ (pc[o] = "authorize" /\ route[o] = "reconcile") => Gone(item[o])

OutcomeInv == TypeOK /\ KindOfStep /\ FileGone /\ TargetGone

LEMMA KindOfStepKept ==
  ASSUME OutcomeInv, [Next]_vars
  PROVE  KindOfStep'
<1> USE DEF OutcomeInv
<1> SUFFICES ASSUME NEW x \in Ops
             PROVE  /\ pc'[x] \in MovieSteps => item'[x] \in Movies
                    /\ pc'[x] \in EpisodeSteps => item'[x] \in Episodes
  BY DEF KindOfStep
<1>a. MovieSteps \cup EpisodeSteps \subseteq ItemSteps /\ MovieSteps \cap EpisodeSteps = {}
      /\ {"preflight", "requested", "recording", "authorize"} \cap (MovieSteps \cup EpisodeSteps) = {}
  BY DEF MovieSteps, EpisodeSteps, RecordSteps, ItemSteps, CheckSteps, MutationSteps
<1>1. CASE Execute(x) /\ pc'[x] \in MovieSteps \cup EpisodeSteps
  <2>1. \A i \in Items : ~PickItem(x, i)
    BY <1>1, <1>a DEF PickItem, Goto, TypeOK, StepsOK
  <2>2. /\ item'[x] = item[x] /\ item[x] \in Items
        /\ Preflighted(x) \/ Checked(x) \/ Called(x) \/ Skipped(x)
    BY <1>1, <1>a, <2>1, ItemPath
  <2>3. /\ pc[x] \in MovieSteps => item[x] \in Movies
        /\ pc[x] \in EpisodeSteps => item[x] \in Episodes
    BY DEF KindOfStep
  <2>4. \/ pc[x] \in MovieSteps /\ pc'[x] \in MovieSteps
        \/ pc[x] \in EpisodeSteps /\ pc'[x] \in EpisodeSteps
        \/ pc'[x] \in MovieSteps /\ item[x] \notin Episodes
        \/ pc'[x] \in EpisodeSteps /\ item[x] \in Episodes
    BY <1>1, <2>2 DEF Preflighted, Checked, Called, Skipped, MovieSteps, EpisodeSteps, RecordSteps
  <2> QED
    BY <1>a, <2>2, <2>3, <2>4 DEF Items
<1>2. CASE ~Execute(x) /\ ~Crash
  BY <1>2, <1>a, MemoryKept DEF KindOfStep
<1>3. CASE Crash
  <2>1. pc'[x] \notin ItemSteps
    BY <1>3, Vocabulary DEF Crash, Live
  <2> QED
    BY <1>a, <2>1
<1> QED
  BY <1>1, <1>2, <1>3

\* A plan becomes empty only where the verified file is gone.
LEMMA PlanStep ==
  ASSUME TypeOK, [Next]_vars, NEW i \in Items
  PROVE  \/ plan'[i] = plan[i]
         \/ file[i] = "none"
         \/ \E o \in Ops : pc[o] \in RecordSteps /\ item[o] = i
<1>1. CASE UNCHANGED vars
  BY <1>1 DEF vars, rowVars
<1>2. ASSUME NEW o \in Ops, Execute(o)
      PROVE  plan'[i] = plan[i] \/ file[i] = "none" \/ (pc[o] \in RecordSteps /\ item[o] = i)
  BY <1>2, RowSteps DEF RowStep, Untouched, Concluded, Progressed, ClaimedBy, PutBack
<1>3. CASE Next /\ \A o \in Ops : ~Execute(o)
  BY <1>3, OutsideRowSteps DEF OutsideRowStep, Untouched, Dropped, Recovered, ApprovedBy
<1> QED
  BY <1>1, <1>2, <1>3

LEMMA FileGoneKept ==
  ASSUME OutcomeInv, [Next]_vars
  PROVE  FileGone'
<1> USE DEF OutcomeInv
<1>1. ASSUME NEW i \in Items, ~record'[i] \/ plan'[i] = "empty" PROVE file'[i] # "verified"
  <2>1. CASE file[i] # "verified"
    BY <2>1, NothingComesBack
  <2>2. CASE file[i] = "verified"
    <3>1. record[i] /\ plan[i] # "empty" /\ \A o \in Ops : ~(pc[o] \in RecordSteps /\ item[o] = i)
      BY <2>2 DEF FileGone
    <3>2. plan'[i] # "empty"
      BY <2>2, <3>1, PlanStep
    <3> QED
      BY <1>1, <3>1, <3>2, NothingComesBack
  <2> QED
    BY <2>1, <2>2
<1>2. ASSUME NEW x \in Ops, pc'[x] \in RecordSteps PROVE file'[item'[x]] # "verified"
  <2>a. RecordSteps \subseteq ItemSteps /\ {"preflight", "requested"} \cap RecordSteps = {}
    BY DEF RecordSteps, ItemSteps, CheckSteps, MutationSteps
  <2>1. CASE Execute(x)
    <3>1. \A i \in Items : ~PickItem(x, i)
      BY <1>2, <2>a DEF PickItem, Goto, TypeOK, StepsOK
    <3>2. /\ item'[x] = item[x] /\ item[x] \in Items
          /\ Preflighted(x) \/ Checked(x) \/ Called(x) \/ Skipped(x)
      BY <1>2, <2>a, <2>1, <3>1, ItemPath
    <3>3. \/ pc[x] \in RecordSteps \/ ~record[item[x]] \/ plan[item[x]] # "file"
          \/ file[item[x]] = "none" \/ file'[item[x]] = "none"
      BY <1>2, <3>2 DEF Preflighted, Checked, Called, Skipped, RecordSteps
    <3>4. plan[item[x]] \in Plans
      BY <3>2 DEF TypeOK, RowsOK
    <3>5. file[item[x]] # "verified" \/ file'[item[x]] = "none"
      BY <3>2, <3>3, <3>4 DEF FileGone, Plans
    <3> QED
      BY <3>2, <3>5, NothingComesBack
  <2>2. CASE ~Execute(x) /\ ~Crash
    <3>1. pc'[x] = pc[x] /\ item'[x] = item[x]
      BY <1>2, <2>2, <2>a, MemoryKept
    <3>2. item[x] \in Items /\ file[item[x]] # "verified"
      BY <1>2, <2>a, <3>1, ItemInHand DEF TypeOK, FileGone
    <3> QED
      BY <3>1, <3>2, NothingComesBack
  <2>3. CASE Crash
    BY <1>2, <2>a, <2>3, Vocabulary DEF Crash, Live
  <2> QED
    BY <2>1, <2>2, <2>3
<1> QED
  BY <1>1, <1>2 DEF FileGone

\* What is gone stays gone.
LEMMA GoneStays ==
  ASSUME TypeOK, [Next]_vars, NEW i \in Items, Gone(i)
  PROVE  Gone(i)'
BY NothingComesBack DEF Gone

LEMMA TargetGoneKept ==
  ASSUME OutcomeInv, [Next]_vars
  PROVE  TargetGone'
<1> USE DEF OutcomeInv
<1>1. ASSUME NEW i \in Items, status'[i] = "executed" PROVE Gone(i)'
  <2>1. status[i] = "executed" \/ \E o \in Ops : pc[o] = "recording" /\ item[o] = i
    <3>1. CASE UNCHANGED vars
      BY <1>1, <3>1 DEF vars, rowVars
    <3>2. ASSUME NEW o \in Ops, Execute(o)
          PROVE  status[i] = "executed" \/ (pc[o] = "recording" /\ item[o] = i)
      BY <1>1, <3>2, RowSteps DEF RowStep, Untouched, Concluded, Progressed, ClaimedBy, PutBack, ExecuteStatus
    <3>3. CASE Next /\ \A o \in Ops : ~Execute(o)
      BY <1>1, <3>3, OutsideRowSteps DEF OutsideRowStep, Untouched, Dropped, Recovered, ApprovedBy
    <3> QED
      BY <3>1, <3>2, <3>3
  <2>2. Gone(i)
    BY <2>1 DEF TargetGone
  <2> QED
    BY <2>2, GoneStays
<1>2. ASSUME NEW x \in Ops, pc'[x] = "recording" \/ (pc'[x] = "authorize" /\ route'[x] = "reconcile")
      PROVE  Gone(item[x])' /\ item'[x] = item[x]
  <2>a. {"recording", "authorize"} \subseteq ItemSteps
    BY DEF ItemSteps, CheckSteps
  <2>1. CASE Execute(x)
    <3>1. \A i \in Items : ~PickItem(x, i)
      BY <1>2 DEF PickItem, Goto, TypeOK, StepsOK
    <3>2. /\ item'[x] = item[x] /\ item[x] \in Items
          /\ Preflighted(x) \/ Checked(x) \/ Called(x) \/ Skipped(x)
      BY <1>2, <2>a, <2>1, <3>1, ItemPath
    <3>3. /\ pc[x] \in MovieSteps => item[x] \in Movies
          /\ pc[x] \in EpisodeSteps => item[x] \in Episodes
          /\ ~record[item[x]] => file[item[x]] # "verified"
      BY <3>2 DEF KindOfStep, FileGone
    <3>4. CASE Preflighted(x)
      <4>1. AlreadyDone(item[x])
        BY <1>2, <3>4 DEF Preflighted
      <4>2. Gone(item[x])
        BY <3>2, <3>3, <4>1, SetsAreDisjoint DEF AlreadyDone, Gone
      <4> QED
        BY <3>2, <4>2, GoneStays
    <3>5. CASE Checked(x)
      <4>1. Gone(item[x])
        BY <1>2, <3>5 DEF Checked, TargetGone
      <4> QED
        BY <3>2, <4>1, GoneStays
    <3>6. CASE Called(x)
      <4>1. \/ pc[x] \in MovieSteps /\ ~record'[item[x]]
            \/ pc[x] \in EpisodeSteps /\ file'[item[x]] = "none"
        BY <1>2, <3>6 DEF Called, MovieSteps, EpisodeSteps, RecordSteps
      <4> QED
        BY <3>2, <3>3, <4>1, SetsAreDisjoint DEF Gone
    <3>7. CASE Skipped(x)
      <4>1. pc[x] \in MovieSteps /\ ~record[item[x]]
        BY <1>2, <3>7 DEF Skipped, MovieSteps, RecordSteps
      <4>2. Gone(item[x])
        BY <3>3, <4>1 DEF Gone
      <4> QED
        BY <3>2, <4>2, GoneStays
    <3> QED
      BY <3>2, <3>4, <3>5, <3>6, <3>7
  <2>2. CASE ~Execute(x) /\ ~Crash
    <3>1. pc'[x] = pc[x] /\ item'[x] = item[x] /\ route'[x] = route[x]
      BY <1>2, <2>2, MemoryKept
    <3>2. item[x] \in Items /\ Gone(item[x])
      BY <1>2, <2>a, <3>1, ItemInHand DEF TypeOK, TargetGone
    <3> QED
      BY <3>1, <3>2, GoneStays
  <2>3. CASE Crash
    BY <1>2, <2>a, <2>3, Vocabulary DEF Crash, Live
  <2> QED
    BY <2>1, <2>2, <2>3
<1> QED
  BY <1>1, <1>2 DEF TargetGone, Gone

LEMMA OutcomeInductive == Spec => []OutcomeInv
<1>1. Init => OutcomeInv
  BY InitTypes, Vocabulary DEF Init, OutcomeInv, KindOfStep, FileGone, TargetGone, MovieSteps, RecordSteps,
     EpisodeSteps
<1>2. OutcomeInv /\ TypeOK' /\ [Next]_vars => OutcomeInv'
  BY KindOfStepKept, FileGoneKept, TargetGoneKept DEF OutcomeInv
<1> QED
  BY <1>1, <1>2, TypeCorrect, PTL DEF Spec

\* An approval says `executed' only if the record of the movie, or the verified
\* file of the episode, is really gone: through stalls, crashes, failed writes
\* and whatever users do to Radarr and Sonarr.
THEOREM ExecutedMeansGone == Spec => []ExecutedIsTrue
<1>1. OutcomeInv => ExecutedIsTrue
  BY DEF OutcomeInv, TargetGone, Gone, ExecutedIsTrue
<1> QED
  BY <1>1, OutcomeInductive, PTL

\* A plan reduced to the bare record is never stored while the verified file
\* still exists.
THEOREM ReducedPlansAreTrue == Spec => []EmptyPlanMeansFileGone
<1>1. OutcomeInv => EmptyPlanMeansFileGone
  BY DEF OutcomeInv, FileGone, EmptyPlanMeansFileGone
<1> QED
  BY <1>1, OutcomeInductive, PTL

-----------------------------------------------------------------------------
(***************************************************************************)
(* Names in rows.  Only an operation itself puts its name into a row, and  *)
(* it does so in its request and in its claim.                             *)
(***************************************************************************)

InNameOf(o, i) == Owns(o, i) \/ (status[i] = "approved" /\ token[i] = o)

\* Others leave a row of an operation alone, or take its name out of it.
LEMMA NamedRowKept ==
  ASSUME TypeOK, [Next]_vars, NEW x \in Ops, ~Execute(x), NEW i \in Items,
         InNameOf(x, i)', ~ApprovedBy(x, i)
  PROVE  Untouched(i) /\ InNameOf(x, i)
<1>a. x # NoOp /\ token'[i] = x /\ status'[i] \in InFlightStatuses
  BY SetsAreDisjoint DEF InNameOf, Owns, ExecuteStatus, InFlightStatuses
<1>b. ASSUME Untouched(i) PROVE InNameOf(x, i)
  BY <1>b DEF Untouched, InNameOf, Owns
<1>1. CASE UNCHANGED vars
  BY <1>1 DEF vars, rowVars, Untouched, InNameOf, Owns
<1>2. ASSUME NEW o \in Ops, Execute(o) PROVE Untouched(i)
  <2>1. RowStep(o, i) /\ o # x
    BY <1>2, RowSteps
  <2> QED
    BY <1>a, <2>1 DEF RowStep, Concluded, Progressed, ClaimedBy, PutBack, Owns
<1>3. CASE Next /\ \A o \in Ops : ~Execute(o)
  <2>1. OutsideRowStep(i)
    BY <1>3, OutsideRowSteps
  <2>2. ~Dropped(i) /\ ~Recovered(i) /\ \A o \in ApproveOps : ~ApprovedBy(o, i)
    BY <1>a DEF Dropped, Recovered, ApprovedBy, InFlightStatuses
  <2> QED
    BY <1>b, <2>1, <2>2 DEF OutsideRowStep
<1> QED
  BY <1>1, <1>2, <1>3, <1>b

LEMMA OwnedRowKept ==
  ASSUME TypeOK, [Next]_vars, NEW x \in Ops, ~Execute(x), NEW i \in Items, Owns(x, i)'
  PROVE  Untouched(i) /\ Owns(x, i)
<1>1. ~ApprovedBy(x, i)
  BY DEF ApprovedBy, Owns, ExecuteStatus
<1>2. Untouched(i)
  BY <1>1, NamedRowKept DEF InNameOf
<1> QED
  BY <1>2 DEF Untouched, Owns

-----------------------------------------------------------------------------
(***************************************************************************)
(* The lists of an operation: the items it has yet to claim, those it      *)
(* claimed, and those it attempted to change in Radarr or Sonarr.          *)
(***************************************************************************)

ClaimsNext(o) ==
  /\ pc[o] = "claiming" /\ pc'[o] \in {"claiming", "picking"}
  /\ \E i \in todo[o] :
       /\ todo'[o] = todo[o] \ {i}
       /\ \/ claimed'[o] = claimed[o]
          \/ claimed'[o] = claimed[o] \cup {i} /\ status[i] = ClaimStatus(o)
  /\ attempted'[o] = attempted[o] /\ item'[o] = item[o] /\ overrun'[o] = overrun[o]

TakesNext(o) ==
  /\ pc[o] = "picking"
  /\ \E i \in claimed[o] :
       /\ claimed'[o] = claimed[o] \ {i}
       /\ \/ item'[o] = i /\ pc'[o] = "preflight"
          \/ item'[o] = item[o] /\ pc'[o] \in {"picking", "settling"}
  /\ todo'[o] = todo[o] /\ attempted'[o] = attempted[o] /\ overrun'[o] = overrun[o]

Attempts(o) ==
  /\ pc[o] \in MutationSteps /\ pc'[o] \notin {"idle", "requested", "preflight"}
  /\ attempted'[o] = attempted[o] \cup {item[o]}
  /\ overrun'[o] = IF leaseOwner = o THEN overrun[o] ELSE overrun[o] + 1
  /\ todo'[o] = todo[o] /\ claimed'[o] = claimed[o] /\ item'[o] \in {item[o], NoItem}

Continues(o) ==
  /\ pc[o] \notin MutationSteps /\ pc'[o] \notin {"idle", "requested", "preflight"}
  /\ todo'[o] \subseteq todo[o] /\ claimed'[o] \subseteq claimed[o]
  /\ attempted'[o] = attempted[o] /\ item'[o] \in {item[o], NoItem} /\ overrun'[o] = overrun[o]

LEMMA ListSteps ==
  ASSUME TypeOK, NEW o \in Ops, Execute(o)
  PROVE  ClaimsNext(o) \/ TakesNext(o) \/ Attempts(o) \/ Continues(o)
<1> USE DEF TypeOK, StepsOK, BatchesOK, HistoryOK
<1>a. ASSUME NEW s, Goto(o, s) PROVE pc'[o] = s
  BY <1>a DEF Goto
<1>b. ASSUME NextItem(o) \/ Abort(o)
      PROVE  pc'[o] \in {"picking", "settling"} /\ item'[o] = NoItem
  BY <1>b, <1>a DEF NextItem, Abort
<1>c. {"requested", "claiming", "picking", "settling", "releasing", "preflight", "phaseStart",
        "phaseConfirm", "recording"} \cap MutationSteps = {}
      /\ CheckSteps \cap MutationSteps = {}
  BY DEF MutationSteps, CheckSteps
<1>1. CASE AcquireLease(o) \/ LeaseRefused(o) \/ NoMoreItems(o) \/ SettleBatch(o) \/ ReleaseLease(o)
  <2>1. pc'[o] \in {"claiming", "done", "settling", "releasing"} /\ pc[o] \notin MutationSteps
    BY <1>1, <1>a, <1>c DEF AcquireLease, LeaseRefused, NoMoreItems, SettleBatch, ReleaseLease
  <2>2. /\ todo'[o] \subseteq todo[o] /\ claimed'[o] \subseteq claimed[o]
        /\ attempted'[o] = attempted[o] /\ item'[o] = item[o] /\ overrun'[o] = overrun[o]
    BY <1>1 DEF AcquireLease, LeaseRefused, NoMoreItems, SettleBatch, ReleaseLease, historyVars
  <2> QED
    BY <2>1, <2>2 DEF Continues
<1>2. ASSUME NEW i \in Items, Claim(o, i) PROVE ClaimsNext(o)
  <2>1. /\ pc[o] = "claiming" /\ i \in todo[o] /\ UNCHANGED <<attempted, item, overrun>>
        /\ todo' = [todo EXCEPT ![o] = @ \ {i}]
        /\ \/ UNCHANGED claimed
           \/ claimed' = [claimed EXCEPT ![o] = @ \cup {i}] /\ status[i] = ClaimStatus(o)
    BY <1>2 DEF Claim, historyVars
  <2>2. pc'[o] = IF todo[o] = {i} THEN "picking" ELSE "claiming"
    BY <1>2, <1>a DEF Claim
  <2>3. claimed'[o] = claimed[o] \/ (claimed'[o] = claimed[o] \cup {i} /\ status[i] = ClaimStatus(o))
    BY <2>1
  <2>4. todo'[o] = todo[o] \ {i}
    BY <2>1
  <2> QED
    BY <2>1, <2>2, <2>3, <2>4 DEF ClaimsNext
<1>3. ASSUME NEW i \in Items, PickItem(o, i) \/ ExpireUnattributed(o, i) PROVE TakesNext(o)
  <2>1. /\ pc[o] = "picking" /\ i \in claimed[o] /\ UNCHANGED <<todo, attempted, overrun>>
        /\ claimed'[o] = claimed[o] \ {i}
    BY <1>3 DEF PickItem, ExpireUnattributed, historyVars
  <2>2. PickItem(o, i) => item'[o] = i /\ pc'[o] = "preflight"
    BY <1>a DEF PickItem
  <2>3. ExpireUnattributed(o, i) => item'[o] = item[o] /\ pc'[o] \in {"picking", "settling"}
    BY <1>a DEF ExpireUnattributed
  <2> QED
    BY <1>3, <2>1, <2>2, <2>3 DEF TakesNext
<1>4. CASE PreflightReconciles(o) \/ PreflightProceeds(o) \/ PreflightAdoptsRemainder(o)
           \/ PreflightRefuses(o) \/ PreflightLosesLease(o)
  <2>1. pc'[o] \in {"authorize", "picking", "settling"} /\ item'[o] \in {item[o], NoItem}
    BY <1>4, <1>a, <1>b DEF PreflightReconciles, PreflightProceeds, PreflightAdoptsRemainder,
       PreflightRefuses, PreflightLosesLease, Proceed
  <2>2. pc[o] = "preflight" /\ UNCHANGED <<todo, claimed, attempted, overrun>>
    BY <1>4 DEF PreflightReconciles, PreflightProceeds, PreflightAdoptsRemainder,
       PreflightRefuses, PreflightLosesLease, Proceed, historyVars
  <2> QED
    BY <1>c, <2>1, <2>2 DEF Continues
<1>5. CASE CheckPasses(o) \/ AuthorizeDefers(o) \/ AlreadyGone(o) \/ CheckFails(o)
           \/ AuthorityChanges(o) \/ CheckLosesLease(o)
  <2>1. pc[o] \in CheckSteps /\ UNCHANGED <<todo, claimed, attempted, overrun>>
    BY <1>5 DEF CheckPasses, AuthorizeDefers, AlreadyGone, CheckFails, AuthorityChanges, CheckLosesLease,
       historyVars, CheckSteps
  <2>2. item'[o] \in {item[o], NoItem}
    BY <1>5, <1>b DEF CheckPasses, AuthorizeDefers, AlreadyGone, CheckFails, AuthorityChanges, CheckLosesLease
  <2>3. CASE pc'[o] \in ItemSteps
    <3>1. pc'[o] # "preflight"
      BY <2>1, <2>3, <1>c, ItemPath DEF PickItem, CheckSteps
    <3>2. "idle" \notin ItemSteps /\ "requested" \notin ItemSteps
      BY Vocabulary
    <3> QED
      BY <1>c, <2>1, <2>2, <2>3, <3>1, <3>2 DEF Continues
  <2>4. CASE pc'[o] \notin ItemSteps
    <3>1. \A i : StepAfterCheck(o, i) \in ItemSteps /\ {"recording", "recordCheck"} \subseteq ItemSteps
      BY <2>1 DEF CheckSteps, StepAfterCheck, ItemSteps, MutationSteps
    <3>2. ~CheckPasses(o)
      <4>1. CheckPasses(o) => Goto(o, StepAfterCheck(o, item[o]))
        BY ONLY TRUE DEF CheckPasses
      <4>2. Goto(o, StepAfterCheck(o, item[o])) => pc'[o] = StepAfterCheck(o, item[o])
        BY <1>a
      <4> QED
        BY ONLY <2>4, <3>1, <4>1, <4>2
    <3>3. ~AlreadyGone(o)
      <4>1. AlreadyGone(o) => Goto(o, "recording") \/ Goto(o, "recordCheck")
        BY ONLY TRUE DEF AlreadyGone
      <4>2. /\ Goto(o, "recording") => pc'[o] = "recording"
            /\ Goto(o, "recordCheck") => pc'[o] = "recordCheck"
        BY <1>a
      <4> QED
        BY ONLY <2>4, <3>1, <4>1, <4>2
    <3>4. pc'[o] \in {"picking", "settling"}
      BY <1>5, <1>b, <3>2, <3>3 DEF AuthorizeDefers, CheckFails, AuthorityChanges, CheckLosesLease
    <3> QED
      BY <1>c, <2>1, <2>2, <3>4 DEF Continues
  <2> QED
    BY <2>3, <2>4
<1>6. CASE DeleteMovieFile(o) \/ DeleteMovieRecord(o) \/ DeleteEpisodeFile(o) \/ UnmonitorEpisode(o)
  <2>1. pc[o] \in MutationSteps /\ Attempt(o) /\ UNCHANGED <<todo, claimed>>
    BY <1>6 DEF DeleteMovieFile, DeleteMovieRecord, DeleteEpisodeFile, UnmonitorEpisode, MutationSteps
  <2>2. /\ item'[o] \in {item[o], NoItem}
        /\ pc'[o] \in {"recordCheck", "recording", "recordRecheck", "phaseConfirm", "picking", "settling"}
    BY <1>6, <1>a, <1>b DEF DeleteMovieFile, DeleteMovieRecord, DeleteEpisodeFile, UnmonitorEpisode
  <2>3. attempted'[o] = attempted[o] \cup {item[o]}
    BY <2>1 DEF Attempt
  <2>4. overrun'[o] = IF leaseOwner = o THEN overrun[o] ELSE overrun[o] + 1
    BY <2>1 DEF Attempt
  <2> QED
    BY <2>1, <2>2, <2>3, <2>4 DEF Attempts
<1>7. CASE PersistStarted(o) \/ PersistConfirmed(o) \/ RecordExecuted(o)
  <2>1. pc[o] \in {"phaseStart", "phaseConfirm", "recording"} /\ UNCHANGED <<todo, claimed, attempted, overrun>>
    BY <1>7 DEF PersistStarted, PersistConfirmed, RecordExecuted, historyVars
  <2>2. pc'[o] \in {"unmonitor", "epFileCheck", "picking", "settling"} /\ item'[o] \in {item[o], NoItem}
    BY <1>7, <1>a, <1>b DEF PersistStarted, PersistConfirmed, RecordExecuted
  <2> QED
    BY <1>c, <2>1, <2>2 DEF Continues
<1> QED
  BY <1>1, <1>2, <1>3, <1>4, <1>5, <1>6, <1>7 DEF Execute

-----------------------------------------------------------------------------
(***************************************************************************)
(* Overrun.  The lease is asked for before every call, and an operation    *)
(* that lost it never gets it back.                                        *)
(***************************************************************************)

\* The lease goes to nobody but the operation that acquires it.
LEMMA OwnerStep ==
  ASSUME TypeOK, [Next]_vars
  PROVE  leaseOwner' \in {leaseOwner, NoOp} \/ \E o \in Ops : AcquireLease(o) /\ leaseOwner' = o
<1>1. ASSUME NEW o \in Ops, Execute(o) PROVE leaseOwner' \in {leaseOwner, NoOp} \/ (AcquireLease(o) /\ leaseOwner' = o)
  <2>1. CASE AcquireLease(o)
    BY <2>1 DEF AcquireLease
  <2>2. CASE ReleaseLease(o)
    BY <2>2 DEF ReleaseLease, leaseVars
  <2> QED
    BY <1>1, <2>1, <2>2, StepFrame
<1>2. ASSUME NEW o \in Ops, Heartbeat(o) \/ LoseOwnership(o) \/ \E S \in SUBSET Items : RequestRetry(o, S) \/ Approve(o, S)
      PROVE  leaseOwner' = leaseOwner
  BY <1>2 DEF Heartbeat, AssertOwnership, LoseOwnership, RequestRetry, Approve, leaseVars
<1>3. ASSUME NEW i \in Items, Reject(i) \/ Schedule(i) \/ RowAges(i) \/ ApprovalLapses(i) \/ Meddle(i)
      PROVE  leaseOwner' = leaseOwner
  BY <1>3 DEF Reject, Schedule, RowAges, ApprovalLapses, Meddle, ExpirePending, RecoverApproved, RecoverStarted,
     RecoverConfirmed, RecoverExecuting, RecoverRetryExecuting, Recover, leaseVars
<1>4. CASE LeaseGoesStale \/ Crash \/ UNCHANGED vars
  BY <1>4 DEF LeaseGoesStale, Crash, vars, leaseVars
<1> QED
  BY <1>1, <1>2, <1>3, <1>4 DEF Next, Operate, Ops

\* An operation that made a call without the lease stands where no other call
\* follows unless the lease is its own again.
OverrunStops ==
  \A o \in Ops : \/ overrun[o] = 0
                 \/ /\ overrun[o] = 1 /\ leaseOwner # o
                    /\ pc[o] \notin {"idle", "requested", "phaseStart"} \cup MutationSteps

LEMMA OverrunKept ==
  ASSUME TypeOK, OverrunStops, [Next]_vars
  PROVE  OverrunStops'
<1> SUFFICES ASSUME NEW x \in Ops
             PROVE  \/ overrun'[x] = 0
                    \/ /\ overrun'[x] = 1 /\ leaseOwner' # x
                       /\ pc'[x] \notin {"idle", "requested", "phaseStart"} \cup MutationSteps
  BY DEF OverrunStops
<1>a. x # NoOp /\ MutationSteps \subseteq ItemSteps /\ "phaseStart" \in ItemSteps
      /\ {"idle", "requested", "preflight"} \cap MutationSteps = {}
      /\ MutationSteps = {"fileDelete", "recordDelete", "recordRedelete", "unmonitor", "epDelete"}
  BY SetsAreDisjoint, Vocabulary DEF ItemSteps, MutationSteps
<1>b. leaseOwner # x /\ pc[x] # "requested" => leaseOwner' # x
  BY <1>a, OwnerStep DEF AcquireLease
<1>1. CASE Execute(x) /\ pc[x] \in MutationSteps
  <2>1. overrun[x] = 0
    BY <1>1 DEF OverrunStops
  <2>2. Attempts(x)
    BY <1>1, <1>a, ListSteps DEF ClaimsNext, TakesNext, Continues
  <2>3. CASE leaseOwner = x
    BY <2>1, <2>2, <2>3 DEF Attempts
  <2>4. CASE leaseOwner # x
    <3>1. overrun'[x] = 1 /\ leaseOwner' # x
      BY <1>1, <1>a, <1>b, <2>1, <2>2, <2>4 DEF Attempts
    <3>2. pc'[x] \notin {"phaseStart"} \cup MutationSteps
      <4>1. SUFFICES ASSUME pc'[x] \in ItemSteps PROVE pc'[x] \notin {"phaseStart"} \cup MutationSteps
        BY <1>a
      <4>2. Preflighted(x) \/ Checked(x) \/ Called(x) \/ Skipped(x)
        BY <1>1, <1>a, <4>1, ItemPath DEF PickItem
      <4>3. Called(x)
        BY <1>1, <1>a, <4>2 DEF Preflighted, Checked, Skipped
      <4> QED
        BY <1>1, <1>a, <4>3 DEF Called
    <3> QED
      BY <2>2, <3>1, <3>2 DEF Attempts
  <2> QED
    BY <2>3, <2>4
<1>2. CASE Execute(x) /\ pc[x] \notin MutationSteps
  <2>1. overrun'[x] = overrun[x] /\ pc'[x] \notin {"idle", "requested"}
    BY <1>2, ListSteps DEF ClaimsNext, TakesNext, Attempts, Continues
  <2>2. CASE overrun[x] # 0
    <3>1. overrun[x] = 1 /\ leaseOwner # x /\ leaseOwner' # x /\ pc[x] \notin {"idle", "requested", "phaseStart"}
      BY <1>b, <2>2 DEF OverrunStops
    <3>2. pc'[x] \notin {"phaseStart"} \cup MutationSteps
      <4>1. SUFFICES ASSUME pc'[x] \in ItemSteps PROVE pc'[x] \notin {"phaseStart"} \cup MutationSteps
        BY <1>a
      <4>2. CASE \E i \in Items : PickItem(x, i)
        BY <1>a, <4>2 DEF PickItem, Goto, TypeOK, StepsOK
      <4>3. CASE Preflighted(x) \/ Called(x) \/ Skipped(x)
        BY <1>2, <1>a, <3>1, <4>3 DEF Preflighted, Called, Skipped
      <4> QED
        BY <1>2, <3>1, <4>1, <4>2, <4>3, ItemPath DEF Checked
    <3> QED
      BY <2>1, <3>1, <3>2
  <2> QED
    BY <2>1, <2>2
<1>3. CASE ~Execute(x) /\ ~Crash
  BY <1>3, <1>b, MemoryKept DEF OverrunStops
<1>4. CASE Crash
  <2>1. overrun' = overrun /\ pc'[x] = IF Live(x) THEN "dead" ELSE pc[x]
    BY <1>4 DEF Crash
  <2>2. "dead" \notin {"idle", "requested", "phaseStart"} \cup MutationSteps
    BY <1>a
  <2> QED
    BY <1>b, <2>1, <2>2 DEF OverrunStops
<1> QED
  BY <1>1, <1>2, <1>3, <1>4

\* An operation whose lease went to another finishes the call it had already
\* authorized and makes no further one, however long it stalled.
THEOREM OverrunsAreBounded == Spec => []AtMostOneOverrun
<1>1. Init => OverrunStops
  BY DEF Init, OverrunStops
<1>2. OverrunStops => AtMostOneOverrun
  BY DEF OverrunStops, AtMostOneOverrun
<1> QED
  BY <1>1, <1>2, OverrunKept, TypeCorrect, PTL DEF Spec

-----------------------------------------------------------------------------
(***************************************************************************)
(* Unmonitored, not confirmed.  The row keeps the word `started' until the *)
(* operation that wrote it goes on, and when that one is dead nobody but   *)
(* the scheduler touches the row, which expires it.                        *)
(***************************************************************************)

StartedIsRecorded ==
  \A o \in Ops : pc[o] \in {"unmonitor", "phaseConfirm"} /\ Owns(o, item[o])
                   => note[item[o]] = "started"

OrphanIsLeftAlone ==
  \A i \in Items : orphan[i] =>
    /\ \A o \in Ops : item[o] # i /\ i \notin claimed[o]
    /\ \/ status[i] = "expired"
       \/ /\ status[i] \in {"executing", "retry_executing"} /\ note[i] = "started"
          /\ \A o \in Ops : token[i] = o => pc[o] = "dead"

OrphanInv == TypeOK /\ StartedIsRecorded /\ OrphanIsLeftAlone

\* Only a crash leaves an unmonitor unattributed.
LEMMA OrphanStep ==
  ASSUME [Next]_vars, ~Crash
  PROVE  orphan' = orphan
<1>1. ASSUME NEW o \in Ops, Execute(o) PROVE orphan' = orphan
  BY <1>1 DEF Execute, AcquireLease, LeaseRefused, Claim, PickItem, ExpireUnattributed, NoMoreItems,
     PreflightReconciles, PreflightProceeds, PreflightAdoptsRemainder, PreflightRefuses,
     PreflightLosesLease, Proceed, CheckPasses, AuthorizeDefers, AlreadyGone, CheckFails,
     AuthorityChanges, CheckLosesLease, DeleteMovieFile, DeleteMovieRecord, DeleteEpisodeFile,
     PersistStarted, UnmonitorEpisode, PersistConfirmed, RecordExecuted, SettleBatch, ReleaseLease,
     historyVars
<1>2. ASSUME NEW o \in Ops, Heartbeat(o) \/ LoseOwnership(o) \/ \E S \in SUBSET Items : RequestRetry(o, S) \/ Approve(o, S)
      PROVE  orphan' = orphan
  BY <1>2 DEF Heartbeat, LoseOwnership, RequestRetry, Approve, historyVars
<1>3. ASSUME NEW i \in Items, Reject(i) \/ Schedule(i) \/ RowAges(i) \/ ApprovalLapses(i) \/ Meddle(i)
      PROVE  orphan' = orphan
  BY <1>3 DEF Reject, Schedule, RowAges, ApprovalLapses, Meddle, ExpirePending, RecoverApproved, RecoverStarted,
     RecoverConfirmed, RecoverExecuting, RecoverRetryExecuting, Recover, historyVars
<1>4. CASE LeaseGoesStale \/ UNCHANGED vars
  BY <1>4 DEF LeaseGoesStale, vars, historyVars
<1> QED
  BY <1>1, <1>2, <1>3, <1>4 DEF Next, Operate, Ops

\* The dead do not act.
LEMMA DeadStayDead ==
  ASSUME TypeOK, [Next]_vars, NEW o \in Ops, pc[o] = "dead"
  PROVE  ~Execute(o) /\ pc'[o] = "dead"
<1>1. ~Execute(o)
  BY StepFrame, Vocabulary DEF AcquireLease, LeaseRefused
<1>2. CASE Crash
  BY <1>1, <1>2 DEF Crash, Live
<1>3. CASE ~Crash
  BY <1>1, <1>3, MemoryKept
<1> QED
  BY <1>1, <1>2, <1>3

LEMMA StartedKept ==
  ASSUME OrphanInv, [Next]_vars
  PROVE  StartedIsRecorded'
<1> USE DEF OrphanInv
<1> SUFFICES ASSUME NEW x \in Ops, pc'[x] \in {"unmonitor", "phaseConfirm"}, Owns(x, item[x])'
             PROVE  note'[item'[x]] = "started"
  BY DEF StartedIsRecorded
<1>a. pc'[x] \in ItemSteps /\ pc'[x] \notin {"preflight", "requested"}
  BY DEF ItemSteps, MutationSteps
<1>1. CASE Execute(x)
  <2>1. \A i \in Items : ~PickItem(x, i)
    BY <1>a DEF PickItem, Goto, TypeOK, StepsOK
  <2>2. /\ item'[x] = item[x] /\ item[x] \in Items
        /\ Preflighted(x) \/ Checked(x) \/ Called(x) \/ Skipped(x)
    BY <1>1, <1>a, <2>1, ItemPath
  <2>3. PICK i \in Items : i = item[x] /\ i = item'[x]
    BY <2>2
  <2>4. \/ note'[i] = "started"
        \/ pc[x] = "unmonitor" /\ note' = note
    BY <2>2, <2>3 DEF Preflighted, Checked, Called, Skipped
  <2>5. CASE pc[x] = "unmonitor" /\ note' = note
    <3>1. RowStep(x, i) /\ Owns(x, i)' /\ x # NoOp
      BY <1>1, <2>3, RowSteps, SetsAreDisjoint DEF Owns
    <3>2. Owns(x, i)
      BY <2>5, <3>1 DEF RowStep, Untouched, Concluded, Progressed, ClaimedBy, PutBack, Owns
    <3> QED
      BY <2>3, <2>5, <3>2 DEF StartedIsRecorded
  <2> QED
    BY <2>3, <2>4, <2>5
<1>2. CASE ~Execute(x) /\ ~Crash
  <2>1. pc'[x] = pc[x] /\ item'[x] = item[x]
    BY <1>2, <1>a, MemoryKept
  <2>2. PICK i \in Items : i = item[x]
    BY <1>a, <2>1, ItemInHand DEF TypeOK
  <2>3. Owns(x, i)'
    BY <2>1, <2>2 DEF Owns
  <2>4. Untouched(i) /\ Owns(x, i)
    BY <1>2, <2>3, OwnedRowKept
  <2> QED
    BY <2>1, <2>2, <2>4 DEF StartedIsRecorded, Untouched
<1>3. CASE Crash
  BY <1>3, <1>a, Vocabulary DEF Crash, Live
<1> QED
  BY <1>1, <1>2, <1>3

LEMMA OrphanKept ==
  ASSUME OrphanInv, [Next]_vars
  PROVE  OrphanIsLeftAlone'
<1> USE DEF OrphanInv
<1> DEFINE Waits(i) == /\ status[i] \in {"executing", "retry_executing"} /\ note[i] = "started"
                       /\ \A o \in Ops : token[i] = o => pc[o] = "dead"
<1> SUFFICES ASSUME NEW i \in Items, orphan'[i]
             PROVE  /\ \A o \in Ops : item'[o] # i /\ i \notin claimed'[o]
                    /\ status'[i] = "expired" \/ Waits(i)'
  BY DEF OrphanIsLeftAlone
<1>1. CASE Crash
  <2>1. /\ \A o \in Ops : item'[o] = NoItem /\ claimed'[o] = {}
        /\ \A o \in Ops : pc'[o] = IF Live(o) THEN "dead" ELSE pc[o]
        /\ status' = status /\ token' = token /\ note' = note
    BY <1>1 DEF Crash, rowVars
  <2>2. CASE orphan[i]
    BY <2>1, <2>2, SetsAreDisjoint DEF OrphanIsLeftAlone, Live
  <2>3. CASE ~orphan[i]
    <3>1. PICK o \in Ops : item[o] = i /\ Owns(o, i) /\ pc[o] \in {"unmonitor", "phaseConfirm"}
      BY <1>1, <2>3 DEF Crash
    <3>2. note[i] = "started" /\ Live(o)
      BY <3>1 DEF StartedIsRecorded, Live
    <3> QED
      BY <2>1, <3>1, <3>2, SetsAreDisjoint DEF Owns, ExecuteStatus
  <2> QED
    BY <2>2, <2>3
<1>2. CASE ~Crash
  <2>1. orphan[i]
    BY <1>2, OrphanStep
  <2>2. /\ \A o \in Ops : item[o] # i /\ i \notin claimed[o]
        /\ status[i] = "expired" \/ Waits(i)
    BY <2>1 DEF OrphanIsLeftAlone
  <2>3. ASSUME NEW o \in Ops PROVE item'[o] # i /\ i \notin claimed'[o]
    <3>1. CASE Execute(o)
      <4>1. status[i] # ClaimStatus(o)
        BY <2>2 DEF ClaimStatus
      <4>2. i # NoItem
        BY SetsAreDisjoint
      <4> QED
        BY <2>2, <3>1, <4>1, <4>2, ListSteps DEF ClaimsNext, TakesNext, Attempts, Continues
    <3>2. CASE ~Execute(o)
      BY <1>2, <2>2, <3>2, MemoryKept
    <3> QED
      BY <3>1, <3>2
  <2>4. CASE status[i] = "expired"
    BY <2>3, <2>4, FinalStep DEF FinalStatuses
  <2>5. CASE Waits(i)
    <3>1. ASSUME Untouched(i) PROVE Waits(i)'
      BY <2>5, <3>1, DeadStayDead DEF Untouched
    <3>2. ASSUME NEW o \in Ops, Execute(o) PROVE Untouched(i)
      <4>1. RowStep(o, i) /\ ~Owns(o, i)
        BY <2>5, <3>2, RowSteps, DeadStayDead DEF Owns
      <4> QED
        BY <2>5, <4>1 DEF RowStep, Concluded, Progressed, ClaimedBy, PutBack, ClaimStatus
    <3>3. CASE Next /\ \A o \in Ops : ~Execute(o)
      <4>1. OutsideRowStep(i)
        BY <3>3, OutsideRowSteps
      <4>2. Untouched(i) \/ status'[i] = "expired"
        BY <2>5, <4>1 DEF OutsideRowStep, Dropped, Recovered, ApprovedBy
      <4> QED
        BY <2>3, <3>1, <4>2
    <3>4. CASE UNCHANGED vars
      BY <2>3, <3>1, <3>4 DEF vars, rowVars, Untouched
    <3>5. status'[i] = "expired" \/ Waits(i)'
      BY <3>1, <3>2, <3>3, <3>4
    <3> QED
      BY <2>3, <3>5
  <2> QED
    BY <2>2, <2>4, <2>5
<1> QED
  BY <1>1, <1>2

\* An episode whose unmonitor was interrupted before it was confirmed is never
\* deleted afterwards, whoever approves or retries, and whatever stalls.
THEOREM UnattributedIsLeftAlone == Spec => []UnattributedNeverDeleted
<1>1. Init => OrphanInv
  BY InitTypes DEF Init, OrphanInv, StartedIsRecorded, OrphanIsLeftAlone
<1>2. OrphanInv /\ TypeOK' /\ [Next]_vars => OrphanInv'
  BY StartedKept, OrphanKept DEF OrphanInv
<1>3. OrphanInv => UnattributedNeverDeleted
  <2> SUFFICES ASSUME OrphanInv, NEW o \in Ops, pc[o] = "epDelete" PROVE ~orphan[item[o]]
    BY DEF UnattributedNeverDeleted
  <2>1. item[o] \in Items
    BY ItemInHand DEF OrphanInv, TypeOK, ItemSteps, MutationSteps
  <2> QED
    BY <2>1 DEF OrphanInv, OrphanIsLeftAlone
<1> QED
  BY <1>1, <1>2, <1>3, TypeCorrect, PTL DEF Spec

-----------------------------------------------------------------------------
(***************************************************************************)
(* The end of a batch.  Every way out of an item writes its outcome, and   *)
(* the finally block finds what the loop did not reach: an item is on one  *)
(* list at a time.                                                         *)
(***************************************************************************)

\* An item is yet to be claimed, claimed, in hand or attempted, in that order.
Bookkeeping ==
  \A o \in Ops :
    /\ pc[o] \in {"idle", "requested"} => attempted[o] = {} /\ claimed[o] = {}
    /\ todo[o] \cap claimed[o] = {}
    /\ attempted[o] \cap (todo[o] \cup claimed[o]) = {}
    /\ item[o] \notin todo[o] \cup claimed[o]
    /\ pc[o] = "preflight" => item[o] \notin attempted[o]

\* The rows in the name of an operation, by how far it got.
NamedRows ==
  /\ \A i \in Items : status[i] = "approved" => token[i] \in ApproveOps
  /\ \A o \in Ops, i \in Items :
       /\ pc[o] = "idle" => ~InNameOf(o, i)
       /\ pc[o] = "requested" => ~Owns(o, i)
       /\ faults = 0 /\ i \in attempted[o] /\ Owns(o, i) => i = item[o]
       /\ faults = 0 /\ pc[o] \in {"releasing", "done"} => ~InNameOf(o, i)

BatchInv == TypeOK /\ Bookkeeping /\ NamedRows

LEMMA BookkeepingKept ==
  ASSUME BatchInv, TypeOK', [Next]_vars
  PROVE  Bookkeeping'
<1> USE DEF BatchInv
<1> SUFFICES ASSUME NEW x \in Ops
             PROVE  /\ pc'[x] \in {"idle", "requested"} => attempted'[x] = {} /\ claimed'[x] = {}
                    /\ todo'[x] \cap claimed'[x] = {}
                    /\ attempted'[x] \cap (todo'[x] \cup claimed'[x]) = {}
                    /\ item'[x] \notin todo'[x] \cup claimed'[x]
                    /\ pc'[x] = "preflight" => item'[x] \notin attempted'[x]
  BY DEF Bookkeeping
<1>a. /\ pc[x] \in {"idle", "requested"} => attempted[x] = {} /\ claimed[x] = {}
      /\ todo[x] \cap claimed[x] = {}
      /\ attempted[x] \cap (todo[x] \cup claimed[x]) = {}
      /\ item[x] \notin todo[x] \cup claimed[x]
      /\ pc[x] = "preflight" => item[x] \notin attempted[x]
  BY DEF Bookkeeping
<1>b. NoItem \notin todo[x] \cup claimed[x] \cup todo'[x]
  BY SetsAreDisjoint DEF TypeOK, BatchesOK
<1>1. CASE Execute(x)
  <2>1. CASE ClaimsNext(x)
    BY <1>a, <2>1 DEF ClaimsNext
  <2>2. CASE TakesNext(x)
    BY <1>a, <2>2 DEF TakesNext
  <2>3. CASE Attempts(x)
    BY <1>a, <1>b, <2>3 DEF Attempts
  <2>4. CASE Continues(x)
    BY <1>a, <1>b, <2>4 DEF Continues
  <2> QED
    BY <1>1, <2>1, <2>2, <2>3, <2>4, ListSteps
<1>2. CASE ~Execute(x) /\ ~Crash
  <2>1. /\ pc'[x] = pc[x] \/ (pc[x] = "idle" /\ pc'[x] = "requested")
        /\ item'[x] = item[x] /\ claimed'[x] = claimed[x] /\ attempted'[x] = attempted[x]
        /\ pc[x] # "idle" => todo'[x] = todo[x]
    BY <1>2, MemoryKept
  <2>2. pc[x] = "idle" => item[x] = NoItem
    BY Vocabulary DEF TypeOK, StepsOK
  <2> QED
    BY <1>a, <1>b, <2>1, <2>2
<1>3. CASE Crash
  BY <1>3, <1>b, Vocabulary DEF Crash, Live
<1> QED
  BY <1>1, <1>2, <1>3

\* A write that does not fail leaves the row in nobody's name.
LEMMA SettledQuietly ==
  ASSUME TypeOK, NEW o \in Ops, NEW i \in Items, NEW s, NEW n, NEW p, Settle(o, i, s, n, p)
  PROVE  faults' \in {faults, faults + 1} /\ (faults' = 0 => faults = 0 /\ ~Owns(o, i)')
<1> USE DEF TypeOK, RowsOK, CountsOK
<1>1. CASE WriteFails
  BY <1>1 DEF WriteFails
<1>2. CASE WriteOutcome(o, i, s, n, p)
  <2>1. CASE Owns(o, i)
    BY <1>2, <2>1, SetsAreDisjoint DEF WriteOutcome, Owns
  <2>2. CASE ~Owns(o, i)
    BY <1>2, <2>2 DEF WriteOutcome, Owns, ExecuteStatus, rowVars
  <2> QED
    BY <2>1, <2>2
<1> QED
  BY <1>1, <1>2 DEF Settle

\* Failed writes are counted and never forgotten.
LEMMA FaultsGrow ==
  ASSUME TypeOK, [Next]_vars, faults' = 0
  PROVE  faults = 0
<1> USE DEF TypeOK, CountsOK
<1>1. ASSUME NEW o \in Ops, Execute(o) PROVE faults = 0
  <2>1. CASE pc[o] \in ItemSteps
    <3>1. item[o] \in Items
      BY <2>1, ItemInHand
    <3>2. ASSUME NEW s, NEW n, NEW p, Settle(o, item[o], s, n, p) PROVE faults = 0
      BY <3>1, <3>2, SettledQuietly
    <3>3. CASE UNCHANGED faults
      BY <3>3
    <3>4. CASE PreflightRefuses(o) \/ CheckFails(o) \/ CheckLosesLease(o)
      BY <3>2, <3>4 DEF PreflightRefuses, CheckFails, CheckLosesLease
    <3>5. CASE AuthorityChanges(o)
      BY <3>2, <3>5 DEF AuthorityChanges
    <3>6. CASE DeleteMovieFile(o) \/ DeleteMovieRecord(o) \/ UnmonitorEpisode(o) \/ DeleteEpisodeFile(o)
      BY <3>2, <3>6 DEF DeleteMovieFile, DeleteMovieRecord, UnmonitorEpisode, DeleteEpisodeFile
    <3>7. CASE PersistStarted(o) \/ PersistConfirmed(o)
      BY <3>2, <3>7 DEF PersistStarted, PersistConfirmed
    <3>8. CASE RecordExecuted(o)
      <4>1. CASE WriteOutcome(o, item[o], "executed", "none", plan[item[o]])
        BY <3>2, <4>1 DEF Settle
      <4> QED
        BY <3>8, <4>1 DEF RecordExecuted
    <3>9. CASE \/ PreflightReconciles(o) \/ PreflightProceeds(o) \/ PreflightAdoptsRemainder(o)
               \/ PreflightLosesLease(o) \/ CheckPasses(o) \/ AuthorizeDefers(o) \/ AlreadyGone(o)
      BY <3>9 DEF PreflightReconciles, PreflightProceeds, PreflightAdoptsRemainder, PreflightLosesLease,
         CheckPasses, AuthorizeDefers, AlreadyGone, AssertOwnership, countVars
    <3>10. ~AcquireLease(o) /\ ~LeaseRefused(o) /\ ~NoMoreItems(o) /\ ~SettleBatch(o) /\ ~ReleaseLease(o)
           /\ \A i \in Items : ~Claim(o, i) /\ ~PickItem(o, i) /\ ~ExpireUnattributed(o, i)
      BY <2>1, Vocabulary DEF AcquireLease, LeaseRefused, NoMoreItems, SettleBatch, ReleaseLease, Claim,
         PickItem, ExpireUnattributed
    <3> QED
      BY <1>1, <3>4, <3>5, <3>6, <3>7, <3>8, <3>9, <3>10 DEF Execute
  <2>2. CASE AcquireLease(o) \/ NoMoreItems(o) \/ ReleaseLease(o) \/ \E i \in Items : PickItem(o, i)
    BY <2>2 DEF AcquireLease, NoMoreItems, ReleaseLease, PickItem, countVars
  <2>3. CASE LeaseRefused(o)
    <3>1. PICK failed \in {0, 1} : faults' = faults + failed \/ faults' = faults + failed + 1
      BY <2>3 DEF LeaseRefused
    <3> QED
      BY <3>1
  <2>4. CASE SettleBatch(o)
    <3>1. PICK Kept \in SUBSET Items : faults' = faults + Cardinality(Kept)
      BY <2>4 DEF SettleBatch
    <3>2. Cardinality(Kept) \in Nat
      BY ItemsAreFinite, FS_Subset, FS_CardinalityType
    <3> QED
      BY <3>1, <3>2
  <2>5. ASSUME NEW i \in Items, Claim(o, i) \/ ExpireUnattributed(o, i) PROVE faults = 0
    <3>1. CASE Claim(o, i)
      BY <3>1 DEF Claim, WriteFails
    <3>2. CASE ExpireUnattributed(o, i)
      BY <3>2, SettledQuietly DEF ExpireUnattributed
    <3> QED
      BY <2>5, <3>1, <3>2
  <2>6. \/ pc[o] \in ItemSteps
        \/ AcquireLease(o) \/ NoMoreItems(o) \/ ReleaseLease(o) \/ LeaseRefused(o) \/ SettleBatch(o)
        \/ \E i \in Items : PickItem(o, i) \/ Claim(o, i) \/ ExpireUnattributed(o, i)
    <3>1. {"preflight", "phaseStart", "phaseConfirm", "recording"} \cup CheckSteps \cup MutationSteps
            \subseteq ItemSteps
      BY DEF ItemSteps
    <3>2. CASE PreflightReconciles(o) \/ PreflightProceeds(o) \/ PreflightAdoptsRemainder(o)
               \/ PreflightRefuses(o) \/ PreflightLosesLease(o)
      BY <3>1, <3>2 DEF PreflightReconciles, PreflightProceeds, PreflightAdoptsRemainder, PreflightRefuses,
         PreflightLosesLease
    <3>3. CASE CheckPasses(o) \/ AuthorizeDefers(o) \/ AlreadyGone(o) \/ CheckFails(o)
               \/ AuthorityChanges(o) \/ CheckLosesLease(o)
      BY <3>1, <3>3 DEF CheckPasses, AuthorizeDefers, AlreadyGone, CheckFails, AuthorityChanges,
         CheckLosesLease, CheckSteps
    <3>4. CASE DeleteMovieFile(o) \/ DeleteMovieRecord(o) \/ PersistStarted(o) \/ UnmonitorEpisode(o)
               \/ PersistConfirmed(o) \/ DeleteEpisodeFile(o) \/ RecordExecuted(o)
      BY <3>1, <3>4 DEF DeleteMovieFile, DeleteMovieRecord, PersistStarted, UnmonitorEpisode,
         PersistConfirmed, DeleteEpisodeFile, RecordExecuted, MutationSteps
    <3> QED
      BY <1>1, <3>2, <3>3, <3>4 DEF Execute
  <2> QED
    BY <2>1, <2>2, <2>3, <2>4, <2>5, <2>6
<1>2. ASSUME NEW o \in Ops, Heartbeat(o) \/ LoseOwnership(o) \/ \E S \in SUBSET Items : RequestRetry(o, S) \/ Approve(o, S)
      PROVE  faults = 0
  BY <1>2 DEF Heartbeat, AssertOwnership, LoseOwnership, RequestRetry, Approve, countVars
<1>3. ASSUME NEW i \in Items, Reject(i) \/ Schedule(i) \/ RowAges(i) \/ ApprovalLapses(i) \/ Meddle(i)
      PROVE  faults = 0
  BY <1>3 DEF Reject, Schedule, RowAges, ApprovalLapses, Meddle, ExpirePending, RecoverApproved, RecoverStarted,
     RecoverConfirmed, RecoverExecuting, RecoverRetryExecuting, Recover, countVars
<1>4. CASE LeaseGoesStale \/ Crash \/ UNCHANGED vars
  BY <1>4 DEF LeaseGoesStale, Crash, vars, countVars
<1> QED
  BY <1>1, <1>2, <1>3, <1>4 DEF Next, Operate, Ops

\* Leaving an item settles its row, but for the check that renews the lease
\* outside the item's own handler, before anything was attempted.
LEMMA LeavingSettles ==
  ASSUME TypeOK, NEW o \in Ops, Execute(o), NEW i \in Items, item[o] = i, item'[o] # i, faults' = 0
  PROVE  ~Owns(o, i)' \/ pc[o] = "preflight"
<1> USE DEF TypeOK, StepsOK
<1> SUFFICES ASSUME pc[o] # "preflight" PROVE ~Owns(o, i)'
  OBVIOUS
<1>a. pc[o] \in ItemSteps /\ ~UNCHANGED item
  BY SetsAreDisjoint
<1>c. ASSUME NEW s, NEW n, NEW p, Settle(o, item[o], s, n, p) PROVE ~Owns(o, i)'
  BY <1>c, SettledQuietly
<1>1. CASE CheckFails(o) \/ CheckLosesLease(o)
  BY <1>1, <1>c DEF CheckFails, CheckLosesLease
<1>2. CASE AuthorityChanges(o)
  BY <1>2, <1>c DEF AuthorityChanges
<1>3. CASE DeleteMovieFile(o) \/ DeleteMovieRecord(o) \/ UnmonitorEpisode(o) \/ DeleteEpisodeFile(o)
  BY <1>3, <1>a, <1>c DEF DeleteMovieFile, DeleteMovieRecord, UnmonitorEpisode, DeleteEpisodeFile
<1>4. CASE PersistStarted(o) \/ PersistConfirmed(o)
  BY <1>4, <1>a, <1>c DEF PersistStarted, PersistConfirmed
<1>5. CASE RecordExecuted(o)
  <2>1. WriteOutcome(o, item[o], "executed", "none", plan[item[o]])
    BY <1>5 DEF RecordExecuted, CountsOK
  <2> QED
    BY <1>c, <2>1 DEF Settle
<1>6. CASE AuthorizeDefers(o)
  BY <1>6 DEF AuthorizeDefers, rowVars, Owns, ExecuteStatus
<1>7. ~PreflightReconciles(o) /\ ~PreflightProceeds(o) /\ ~PreflightAdoptsRemainder(o)
      /\ ~PreflightRefuses(o) /\ ~PreflightLosesLease(o) /\ ~CheckPasses(o) /\ ~AlreadyGone(o)
  BY <1>a DEF PreflightReconciles, PreflightProceeds, PreflightAdoptsRemainder, PreflightRefuses,
     PreflightLosesLease, CheckPasses, AlreadyGone
<1>8. ~AcquireLease(o) /\ ~LeaseRefused(o) /\ ~NoMoreItems(o) /\ ~SettleBatch(o) /\ ~ReleaseLease(o)
      /\ \A j \in Items : ~Claim(o, j) /\ ~PickItem(o, j) /\ ~ExpireUnattributed(o, j)
  BY <1>a, Vocabulary DEF AcquireLease, LeaseRefused, NoMoreItems, SettleBatch, ReleaseLease, Claim,
     PickItem, ExpireUnattributed
<1> QED
  BY <1>1, <1>2, <1>3, <1>4, <1>5, <1>6, <1>7, <1>8 DEF Execute

\* An operation ends its batch in three places.
LEMMA BatchEnds ==
  ASSUME TypeOK, NEW o \in Ops, Execute(o), pc'[o] \in {"releasing", "done"}
  PROVE  SettleBatch(o) \/ ReleaseLease(o) \/ LeaseRefused(o)
<1> USE DEF TypeOK, StepsOK
<1>a. ASSUME NEW s, Goto(o, s) PROVE pc'[o] = s
  BY <1>a DEF Goto
<1>b. pc'[o] \notin ItemSteps
  BY DEF ItemSteps, CheckSteps, MutationSteps
<1>c. ~NextItem(o) /\ ~Abort(o)
  BY <1>a DEF NextItem, Abort
<1>1. ~AcquireLease(o) /\ ~NoMoreItems(o)
      /\ \A i \in Items : ~Claim(o, i) /\ ~PickItem(o, i) /\ ~ExpireUnattributed(o, i)
  BY <1>a DEF AcquireLease, NoMoreItems, Claim, PickItem, ExpireUnattributed
<1>2. /\ ~PreflightReconciles(o) /\ ~PreflightProceeds(o) /\ ~PreflightAdoptsRemainder(o)
      /\ ~PreflightRefuses(o) /\ ~PreflightLosesLease(o)
  BY <1>a, <1>c DEF PreflightReconciles, PreflightProceeds, PreflightAdoptsRemainder, PreflightRefuses,
     PreflightLosesLease, Proceed
<1>3. ~CheckPasses(o)
  <2>1. \A i : pc[o] \in CheckSteps => StepAfterCheck(o, i) \in ItemSteps
    BY DEF CheckSteps, StepAfterCheck, ItemSteps, MutationSteps
  <2> QED
    BY <1>a, <1>b, <2>1 DEF CheckPasses
<1>4. /\ ~AuthorizeDefers(o) /\ ~AlreadyGone(o) /\ ~CheckFails(o) /\ ~AuthorityChanges(o)
      /\ ~CheckLosesLease(o)
  BY <1>a, <1>c DEF AuthorizeDefers, AlreadyGone, CheckFails, AuthorityChanges, CheckLosesLease
<1>5. /\ ~DeleteMovieFile(o) /\ ~DeleteMovieRecord(o) /\ ~PersistStarted(o) /\ ~UnmonitorEpisode(o)
      /\ ~PersistConfirmed(o) /\ ~DeleteEpisodeFile(o) /\ ~RecordExecuted(o)
  BY <1>a, <1>c DEF DeleteMovieFile, DeleteMovieRecord, PersistStarted, UnmonitorEpisode,
     PersistConfirmed, DeleteEpisodeFile, RecordExecuted
<1> QED
  BY <1>1, <1>2, <1>3, <1>4, <1>5 DEF Execute

\* An approved row is in the name of an approve request.
LEMMA ApprovedStep ==
  ASSUME BatchInv, [Next]_vars, NEW i \in Items, status'[i] = "approved"
  PROVE  token'[i] \in ApproveOps
<1> USE DEF BatchInv
<1>1. CASE UNCHANGED vars
  BY <1>1 DEF vars, rowVars, NamedRows
<1>2. status[i] = "approved" => token[i] \in ApproveOps
  BY DEF NamedRows
<1>3. ASSUME NEW o \in Ops, Execute(o) PROVE Untouched(i)
  <2>1. RowStep(o, i)
    BY <1>3, RowSteps
  <2> QED
    BY <2>1 DEF RowStep, Concluded, Progressed, ClaimedBy, PutBack, Owns, ExecuteStatus
<1>4. CASE Next /\ \A o \in Ops : ~Execute(o)
  <2>1. Untouched(i) \/ \E o \in ApproveOps : ApprovedBy(o, i)
    BY <1>4, OutsideRowSteps DEF OutsideRowStep, Dropped, Recovered
  <2> QED
    BY <1>2, <2>1 DEF Untouched, ApprovedBy, Ops
<1> QED
  BY <1>1, <1>2, <1>3, <1>4 DEF Untouched

\* The three places leave nothing in the name of the operation.
LEMMA EndSettles ==
  ASSUME BatchInv, NEW o \in Ops, SettleBatch(o) \/ ReleaseLease(o) \/ LeaseRefused(o),
         faults = 0, faults' = 0, NEW i \in Items
  PROVE  ~InNameOf(o, i)'
<1> USE DEF BatchInv
<1>a. o # NoOp /\ (status[i] = "approved" /\ token[i] = o => o \in ApproveOps)
  BY SetsAreDisjoint DEF NamedRows
<1>1. CASE ReleaseLease(o)
  <2>1. ~InNameOf(o, i)
    BY <1>1 DEF ReleaseLease, NamedRows
  <2> QED
    BY <1>1, <2>1 DEF ReleaseLease, rowVars, InNameOf, Owns
<1>2. CASE LeaseRefused(o)
  <2>1. ReleaseUnclaimed(o)
    BY <1>2 DEF LeaseRefused
  <2>2. ~Owns(o, i)
    BY <1>2 DEF LeaseRefused, NamedRows
  <2> QED
    BY <1>a, <2>1, <2>2 DEF ReleaseUnclaimed, InNameOf, Owns
<1>3. CASE SettleBatch(o)
  <2> DEFINE Unclaimed(j) == o \in ApproveOps /\ status[j] = "approved" /\ token[j] = o
  <2>1. PICK Kept \in SUBSET Items :
          /\ faults' = faults + Cardinality(Kept)
          /\ status' = [j \in Items |-> IF j \notin Kept /\ (Unprocessed(o, j) \/ Unclaimed(j))
                                        THEN RetryStatus(o) ELSE status[j]]
          /\ token' = [j \in Items |-> IF j \notin Kept /\ (Unprocessed(o, j) \/ Unclaimed(j))
                                       THEN NoOp ELSE token[j]]
    BY <1>3 DEF SettleBatch
  <2>2. Kept = {}
    <3>1. IsFiniteSet(Kept)
      BY ItemsAreFinite, FS_Subset
    <3>2. Cardinality(Kept) = 0
      BY <2>1, <3>1, FS_CardinalityType
    <3> QED
      BY <3>1, <3>2, FS_EmptySet
  <2>3. CASE Unprocessed(o, i) \/ Unclaimed(i)
    BY <1>a, <2>1, <2>2, <2>3 DEF InNameOf, Owns
  <2>4. CASE ~(Unprocessed(o, i) \/ Unclaimed(i))
    <3>1. status'[i] = status[i] /\ token'[i] = token[i]
      BY <2>1, <2>4
    <3>2. ~InNameOf(o, i)
      <4>1. ~(status[i] = "approved" /\ token[i] = o)
        BY <1>a, <2>4
      <4>2. item[o] # i
        BY <1>3, Vocabulary, SetsAreDisjoint DEF SettleBatch, TypeOK, StepsOK
      <4>3. ~Owns(o, i)
        BY <2>4, <4>2 DEF Unprocessed, NamedRows
      <4> QED
        BY <4>1, <4>3 DEF InNameOf
    <3> QED
      BY <3>1, <3>2 DEF InNameOf, Owns
  <2> QED
    BY <2>3, <2>4
<1> QED
  BY <1>1, <1>2, <1>3

LEMMA NamedRowsKept ==
  ASSUME BatchInv, [Next]_vars
  PROVE  NamedRows'
<1> USE DEF BatchInv
<1> SUFFICES ASSUME NEW x \in Ops, NEW i \in Items
             PROVE  /\ pc'[x] = "idle" => ~InNameOf(x, i)'
                    /\ pc'[x] = "requested" => ~Owns(x, i)'
                    /\ faults' = 0 /\ i \in attempted'[x] /\ Owns(x, i)' => i = item'[x]
                    /\ faults' = 0 /\ pc'[x] \in {"releasing", "done"} => ~InNameOf(x, i)'
  BY ApprovedStep DEF NamedRows
<1>a. /\ pc[x] = "idle" => ~InNameOf(x, i)
      /\ pc[x] = "requested" => ~Owns(x, i)
      /\ faults = 0 /\ i \in attempted[x] /\ Owns(x, i) => i = item[x]
      /\ faults = 0 /\ pc[x] \in {"releasing", "done"} => ~InNameOf(x, i)
  BY DEF NamedRows
<1>b. faults' = 0 => faults = 0
  BY FaultsGrow
<1>c. i # NoItem /\ x # NoOp
  BY SetsAreDisjoint
<1>1. CASE Execute(x)
  <2>1. pc'[x] \notin {"idle", "requested"}
    BY <1>1, ListSteps DEF ClaimsNext, TakesNext, Attempts, Continues
  <2>2. ASSUME faults' = 0, i \in attempted'[x], Owns(x, i)' PROVE i = item'[x]
    <3>1. i \in attempted[x] => Owns(x, i)
      <4> SUFFICES ASSUME i \in attempted[x] PROVE Owns(x, i)
        OBVIOUS
      <4>1. i \notin todo[x]
        BY DEF Bookkeeping
      <4> QED
        BY <1>1, <1>c, <2>2, <4>1, RowSteps DEF RowStep, Untouched, Concluded, Progressed, ClaimedBy, PutBack, Owns
    <3>2. i = item[x]
      <4>1. i \in attempted[x] \/ i = item[x]
        BY <1>1, <2>2, ListSteps DEF ClaimsNext, TakesNext, Attempts, Continues
      <4> QED
        BY <1>a, <1>b, <2>2, <3>1, <4>1
    <3>3. CASE item'[x] # i
      <4>1. pc[x] = "preflight"
        BY <1>1, <2>2, <3>2, <3>3, LeavingSettles
      <4>2. i \notin attempted[x]
        BY <3>2, <4>1 DEF Bookkeeping
      <4>3. "preflight" \notin MutationSteps \cup {"claiming", "picking"}
        BY DEF MutationSteps
      <4> QED
        BY <1>1, <2>2, <4>1, <4>2, <4>3, ListSteps DEF ClaimsNext, TakesNext, Attempts, Continues
    <3> QED
      BY <3>3
  <2>3. ASSUME faults' = 0, pc'[x] \in {"releasing", "done"} PROVE ~InNameOf(x, i)'
    BY <1>1, <1>b, <2>3, BatchEnds, EndSettles
  <2> QED
    BY <2>1, <2>2, <2>3
<1>2. CASE ~Execute(x) /\ ~Crash
  <2>1. /\ pc'[x] = pc[x] \/ (pc[x] = "idle" /\ pc'[x] = "requested")
        /\ item'[x] = item[x] /\ attempted'[x] = attempted[x]
    BY <1>2, MemoryKept
  <2>2. Owns(x, i)' => Owns(x, i)
    BY <1>2, OwnedRowKept
  <2>3. pc'[x] # "requested" /\ InNameOf(x, i)' => InNameOf(x, i)
    BY <1>2, NamedRowKept DEF ApprovedBy
  <2>4. pc[x] = "idle" => ~Owns(x, i)
    BY <1>a DEF InNameOf
  <2> QED
    BY <1>a, <1>b, <2>1, <2>2, <2>3, <2>4
<1>3. CASE Crash
  <2>1. /\ pc'[x] = IF Live(x) THEN "dead" ELSE pc[x]
        /\ attempted'[x] = {} /\ faults' = faults
        /\ status' = status /\ token' = token
    BY <1>3 DEF Crash, rowVars
  <2>2. (InNameOf(x, i)' <=> InNameOf(x, i)) /\ (Owns(x, i)' <=> Owns(x, i))
    BY <2>1 DEF InNameOf, Owns
  <2> QED
    BY <1>a, <2>1, <2>2 DEF Live
<1> QED
  BY <1>1, <1>2, <1>3

\* An operation that ends leaves no approval executing or approved in its name,
\* unless a write failed: whatever happened to the lease, and wherever the loop
\* was left.
THEOREM BatchesAreSettled == Spec => []BatchSettlesItsRows
<1>1. Init => BatchInv
  BY InitTypes, SetsAreDisjoint DEF Init, BatchInv, Bookkeeping, NamedRows, InNameOf, Owns, ExecuteStatus
<1>2. BatchInv /\ TypeOK' /\ [Next]_vars => BatchInv'
  BY BookkeepingKept, NamedRowsKept DEF BatchInv
<1>3. BatchInv => BatchSettlesItsRows
  BY DEF BatchInv, NamedRows, InNameOf, BatchSettlesItsRows
<1> QED
  BY <1>1, <1>2, <1>3, TypeCorrect, PTL DEF Spec

-----------------------------------------------------------------------------
(***************************************************************************)
(* Every step of an operation brings it nearer to its end.                 *)
(***************************************************************************)

LEMMA Ranks ==
  /\ Rank("requested") = 20 /\ Rank("claiming") = 19 /\ Rank("preflight") = 18
  /\ Rank("authorize") = 17 /\ Rank("fileCheck") = 16 /\ Rank("epCheck") = 16
  /\ Rank("fileDelete") = 15 /\ Rank("phaseStart") = 15
  /\ Rank("recordCheck") = 14 /\ Rank("unmonitor") = 14
  /\ Rank("recordDelete") = 13 /\ Rank("phaseConfirm") = 13
  /\ Rank("recordRecheck") = 12 /\ Rank("epFileCheck") = 12
  /\ Rank("recordRedelete") = 11 /\ Rank("epDelete") = 11
  /\ Rank("recording") = 10 /\ Rank("picking") = 3 /\ Rank("settling") = 2
  /\ Rank("releasing") = 1 /\ Rank("done") = 0
<1>1. /\ Rank("requested") = 20 /\ Rank("claiming") = 19 /\ Rank("preflight") = 18
      /\ Rank("authorize") = 17 /\ Rank("fileCheck") = 16 /\ Rank("epCheck") = 16
  BY DEF Rank
<1>2. /\ Rank("fileDelete") = 15 /\ Rank("phaseStart") = 15
      /\ Rank("recordCheck") = 14 /\ Rank("unmonitor") = 14
      /\ Rank("recordDelete") = 13 /\ Rank("phaseConfirm") = 13
  BY DEF Rank
<1>3. /\ Rank("recordRecheck") = 12 /\ Rank("epFileCheck") = 12
      /\ Rank("recordRedelete") = 11 /\ Rank("epDelete") = 11 /\ Rank("recording") = 10
  BY DEF Rank
<1>4. /\ Rank("picking") = 3 /\ Rank("settling") = 2
      /\ Rank("releasing") = 1 /\ Rank("done") = 0
  BY DEF Rank
<1> QED
  BY <1>1, <1>2, <1>3, <1>4

\* Any item step is before the end of its item.
LEMMA ItemRanks ==
  ASSUME NEW s \in ItemSteps
  PROVE  Rank(s) \in 10..18
<1>1. s \in {"fileDelete", "recordDelete", "recordRedelete", "unmonitor", "epDelete", "authorize",
             "fileCheck", "recordCheck", "recordRecheck", "epCheck", "epFileCheck", "preflight",
             "phaseStart", "phaseConfirm", "recording"}
  BY DEF ItemSteps, MutationSteps, CheckSteps
<1> QED
  BY <1>1, Ranks

\* Within an item the steps come in the order of their ranks.
LEMMA ItemPathDescends ==
  ASSUME TypeOK, NEW o \in Ops, Execute(o), pc'[o] \in ItemSteps, pc[o] \in ItemSteps
  PROVE  Rank(pc'[o]) < Rank(pc[o])
<1>1. Preflighted(o) \/ Checked(o) \/ Called(o) \/ Skipped(o) \/ \E i \in Items : PickItem(o, i)
  BY ItemPath
<1>2. ~\E i \in Items : PickItem(o, i)
  BY DEF PickItem, ItemSteps, MutationSteps, CheckSteps
<1>3. CASE Preflighted(o)
  BY <1>3, Ranks DEF Preflighted
<1>4. CASE Checked(o)
  BY <1>4, Ranks DEF Checked
<1>5. CASE Called(o)
  BY <1>5, Ranks DEF Called
<1>6. CASE Skipped(o)
  BY <1>6, Ranks DEF Skipped
<1> QED
  BY <1>1, <1>2, <1>3, <1>4, <1>5, <1>6

\* A step that does not stay with an item.
LEMMA OtherPath ==
  ASSUME TypeOK, NEW o \in Ops, Execute(o), pc'[o] \notin ItemSteps
  PROVE  \/ \E i \in Items : Claim(o, i) \/ ExpireUnattributed(o, i)
         \/ pc[o] = "requested" /\ pc'[o] \in {"claiming", "done"}
         \/ pc[o] = "picking" /\ pc'[o] = "settling"
         \/ pc[o] = "settling" /\ pc'[o] = "releasing"
         \/ pc[o] = "releasing" /\ pc'[o] = "done"
         \/ pc[o] \in ItemSteps /\ pc'[o] \in {"picking", "settling"}
<1> USE DEF TypeOK, StepsOK
<1>a. ASSUME NEW s, Goto(o, s) PROVE pc'[o] = s
  BY <1>a DEF Goto
<1>b. ASSUME NextItem(o) \/ Abort(o) PROVE pc'[o] \in {"picking", "settling"}
  BY <1>b, <1>a DEF NextItem, Abort
<1>c. {"preflight", "phaseStart", "phaseConfirm", "recording", "authorize"} \subseteq ItemSteps
      /\ CheckSteps \subseteq ItemSteps /\ MutationSteps \subseteq ItemSteps
  BY DEF ItemSteps, CheckSteps
<1>d. {"fileDelete", "recordDelete", "recordRedelete", "unmonitor", "epDelete"} \subseteq ItemSteps
      /\ {"fileCheck", "recordCheck", "recordRecheck", "epFileCheck"} \subseteq ItemSteps
  BY DEF ItemSteps, CheckSteps, MutationSteps
<1>1. CASE AcquireLease(o) \/ LeaseRefused(o) \/ NoMoreItems(o) \/ SettleBatch(o) \/ ReleaseLease(o)
  BY <1>1, <1>a DEF AcquireLease, LeaseRefused, NoMoreItems, SettleBatch, ReleaseLease
<1>2. CASE \E i \in Items : Claim(o, i) \/ PickItem(o, i) \/ ExpireUnattributed(o, i)
  BY <1>2, <1>a, <1>c DEF Claim, PickItem
<1>3. CASE PreflightReconciles(o) \/ PreflightProceeds(o) \/ PreflightAdoptsRemainder(o)
  <2>1. \E r : Proceed(o, r)
    BY <1>3 DEF PreflightReconciles, PreflightProceeds, PreflightAdoptsRemainder
  <2> QED
    BY <2>1, <1>a, <1>c DEF Proceed
<1>4. CASE PreflightRefuses(o) \/ PreflightLosesLease(o) \/ AuthorizeDefers(o) \/ CheckFails(o)
           \/ AuthorityChanges(o) \/ CheckLosesLease(o) \/ RecordExecuted(o)
  <2>1. pc[o] \in ItemSteps
    BY <1>4, <1>c DEF PreflightRefuses, PreflightLosesLease, AuthorizeDefers, CheckFails,
       AuthorityChanges, CheckLosesLease, RecordExecuted
  <2>2. NextItem(o) \/ Abort(o)
    BY <1>4 DEF PreflightRefuses, PreflightLosesLease, AuthorizeDefers, CheckFails,
       AuthorityChanges, CheckLosesLease, RecordExecuted
  <2> QED
    BY <1>b, <2>1, <2>2
<1>5. CASE CheckPasses(o) \/ AlreadyGone(o)
  <2>1. pc[o] \in CheckSteps
    BY <1>5 DEF CheckPasses, AlreadyGone, CheckSteps
  <2>2. \A i : StepAfterCheck(o, i) \in ItemSteps
    BY <2>1 DEF CheckSteps, StepAfterCheck, ItemSteps, MutationSteps
  <2>3. CheckPasses(o) => Goto(o, StepAfterCheck(o, item[o]))
    BY DEF CheckPasses
  <2>4. AlreadyGone(o) => Goto(o, "recording") \/ Goto(o, "recordCheck")
    BY DEF AlreadyGone
  <2> QED
    BY <1>5, <1>a, <1>c, <1>d, <2>2, <2>3, <2>4
<1>6. CASE DeleteMovieFile(o) \/ DeleteMovieRecord(o) \/ DeleteEpisodeFile(o) \/ UnmonitorEpisode(o)
           \/ PersistStarted(o) \/ PersistConfirmed(o)
  <2>1. pc[o] \in ItemSteps
    BY <1>6, <1>c, <1>d DEF DeleteMovieFile, DeleteMovieRecord, DeleteEpisodeFile, UnmonitorEpisode,
       PersistStarted, PersistConfirmed
  <2>2. \/ NextItem(o)
        \/ \E s \in {"recordCheck", "recording", "recordRecheck", "phaseConfirm", "unmonitor", "epFileCheck"} :
              Goto(o, s)
    BY <1>6 DEF DeleteMovieFile, DeleteMovieRecord, DeleteEpisodeFile, UnmonitorEpisode,
       PersistStarted, PersistConfirmed
  <2>3. NextItem(o)
    BY <1>a, <1>c, <1>d, <2>2
  <2> QED
    BY <1>b, <2>1, <2>3
<1> QED
  BY <1>1, <1>2, <1>3, <1>4, <1>5, <1>6 DEF Execute

LEMMA StepAdvances ==
  ASSUME TypeOK, NEW o \in Ops, Execute(o)
  PROVE  Advances(o)
<1> USE DEF TypeOK, BatchesOK
<1>1. ASSUME NEW i \in Items, Claim(o, i) PROVE Advances(o)
  <2>1. i \in todo[o] /\ todo'[o] = todo[o] \ {i}
    BY <1>1 DEF Claim
  <2> QED
    BY <2>1 DEF Advances
<1>2. ASSUME NEW i \in Items, PickItem(o, i) \/ ExpireUnattributed(o, i) PROVE Advances(o)
  <2>1. i \in claimed[o] /\ claimed'[o] = claimed[o] \ {i} /\ todo'[o] = todo[o]
    BY <1>2 DEF PickItem, ExpireUnattributed
  <2> QED
    BY <2>1 DEF Advances
<1>3. CASE \A i \in Items : ~Claim(o, i) /\ ~PickItem(o, i) /\ ~ExpireUnattributed(o, i)
  <2>1. CASE pc[o] \in ItemSteps /\ pc'[o] \in ItemSteps
    <3>1. Rank(pc'[o]) < Rank(pc[o])
      BY <2>1, ItemPathDescends
    <3>2. pc[o] # "claiming"
      BY <2>1, Vocabulary
    <3> QED
      BY <3>1, <3>2, ListSteps DEF Advances, ClaimsNext, TakesNext, Attempts, Continues
  <2>2. CASE pc'[o] \notin ItemSteps
    <3>1. \/ pc[o] = "requested" /\ pc'[o] \in {"claiming", "done"}
          \/ pc[o] = "picking" /\ pc'[o] = "settling"
          \/ pc[o] = "settling" /\ pc'[o] = "releasing"
          \/ pc[o] = "releasing" /\ pc'[o] = "done"
          \/ pc[o] \in ItemSteps /\ pc'[o] \in {"picking", "settling"}
      BY <1>3, <2>2, OtherPath
    <3>2. pc[o] # "claiming"
      BY <3>1, Vocabulary
    <3>3. Rank(pc'[o]) < Rank(pc[o])
      <4>1. CASE pc[o] \in ItemSteps /\ pc'[o] \in {"picking", "settling"}
        BY <4>1, ItemRanks, Ranks
      <4>2. CASE ~(pc[o] \in ItemSteps /\ pc'[o] \in {"picking", "settling"})
        BY <3>1, <4>2, Ranks
      <4> QED BY <4>1, <4>2
    <3> QED
      BY <3>2, <3>3, ListSteps DEF Advances, ClaimsNext, TakesNext, Attempts, Continues
  <2> QED
    BY <1>3, <2>1, <2>2, ItemPath
<1> QED
  BY <1>1, <1>2, <1>3

\* Every step of an operation brings it nearer to its end, for any batch and
\* whatever fails, is refused or is lost on the way: with a finite set of rows,
\* no loop of the executor goes on for ever.
THEOREM OperationsWindDown == Spec => EveryStepAdvances
<1>1. TypeOK /\ [Next]_vars => [\A o \in Ops : Execute(o) => Advances(o)]_vars
  BY StepAdvances
<1> QED
  BY <1>1, TypeCorrect, PTL DEF Spec, EveryStepAdvances
=============================================================================
