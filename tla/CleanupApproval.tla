-------------------------- MODULE CleanupApproval --------------------------
(***************************************************************************)
(* The life of a library-cleanup approval: the routes that approve, reject *)
(* and retry it, the executor that claims it and carries out its deletion  *)
(* in Radarr or Sonarr, and the scheduler that recovers what a crash left  *)
(* behind (lib/library-cleanup/cleanup-executor.ts, cleanup-scheduler.ts,  *)
(* cleanup-run-lease.ts, routes/library-cleanup.ts).                       *)
(*                                                                         *)
(* A movie approval deletes the verified file and then the fileless Radarr *)
(* record.  An episode approval unmonitors the episode, records durably    *)
(* how far it got, and then deletes the verified Sonarr file.              *)
(*                                                                         *)
(* Time is abstract: `aged' says that reviewedAt is more than one hour     *)
(* old, `leaseStale' that the last lease renewal is more than two hours    *)
(* old, `lapsed' that expiresAt has passed.                                *)
(***************************************************************************)
EXTENDS Naturals, FiniteSets

CONSTANTS
  Movies,      \* approvals whose target is a Radarr movie
  Episodes,    \* approvals whose target is a Sonarr episode
  ApproveOps,  \* approve requests (single or bulk), each issued once
  RetryOps,    \* retry requests and scheduled retries, each issued once
  NoOp,        \* no token in a row, nobody holds the lease
  NoItem,      \* an operation between two items
  MayStall,    \* TRUE if a live holder may miss its heartbeats for two hours
  MaxFaults,   \* how many database writes may fail
  MaxCrashes,  \* how many times the API process may crash
  MaxMeddling  \* how many changes users make in Radarr and Sonarr

Items == Movies \cup Episodes
Ops == ApproveOps \cup RetryOps

ASSUME SetsAreDisjoint ==
  /\ Movies \cap Episodes = {}
  /\ ApproveOps \cap RetryOps = {}
  /\ NoOp \notin Ops
  /\ NoItem \notin Items

ASSUME ItemsAreFinite == IsFiniteSet(Items)

ASSUME BoundsAreNaturals ==
  /\ MayStall \in BOOLEAN
  /\ MaxFaults \in Nat
  /\ MaxCrashes \in Nat
  /\ MaxMeddling \in Nat

VARIABLES
  status,      \* LibraryCleanupApproval.status
  token,       \* executionToken, named by the operation that drew it
  note,        \* lastExecutionError, reduced to the messages the code compares
  plan,        \* safetySnapshot: does the plan still hold the verified file?
  aged,        \* reviewedAt < now - 1 hour
  lapsed,      \* expiresAt <= now
  file,        \* the file Radarr or Sonarr has for the item
  record,      \* does Radarr or Sonarr still know the item?
  monitored,   \* is it monitored there?
  leaseOwner,  \* runClaimToken
  leaseStale,  \* runClaimedAt < now - 2 hours
  pc,          \* where each operation stands
  todo,        \* items an operation has yet to claim
  claimed,     \* items it has claimed and not yet turned to
  item,        \* the item an operation works on
  route,       \* what the safety checks decided to do with that item
  lost,        \* runLeaseLost, which is never reset
  attempted,   \* mutationAttemptedApprovalIds
  faults, crashes, meddling,
  orphan,      \* history: an executor died between STARTED and CONFIRMED
  overrun      \* history: ARR calls made after the lease went to another

rowVars  == <<status, token, note, plan, aged, lapsed>>
arrVars  == <<file, record, monitored>>
leaseVars == <<leaseOwner, leaseStale>>
opVars   == <<pc, todo, claimed, item, route, lost, attempted>>
countVars == <<faults, crashes, meddling>>
historyVars == <<orphan, overrun>>
vars == <<rowVars, arrVars, leaseVars, opVars, countVars, historyVars>>

-----------------------------------------------------------------------------
Statuses == {"pending", "approved", "executing", "executed", "rejected",
             "expired", "retry_pending", "retry_executing"}
FinalStatuses == {"executed", "rejected", "expired"}
InFlightStatuses == {"approved", "executing", "retry_executing"}

\* The messages that steer recovery; every other message is "other".
Notes == {"none", "interrupted", "started", "confirmed", "other"}

Plans == {"file", "empty"}

\* Steps at which the next thing an operation does is a call that changes
\* Radarr or Sonarr.
MutationSteps ==
  {"fileDelete", "recordDelete", "recordRedelete", "unmonitor", "epDelete"}
CheckSteps ==
  {"authorize", "fileCheck", "recordCheck", "recordRecheck", "epCheck",
   "epFileCheck"}
ItemSteps == MutationSteps \cup CheckSteps \cup
             {"preflight", "phaseStart", "phaseConfirm", "recording"}
Routes == {"none", "reconcile", "act", "confirmed"}
LeaseSteps == ItemSteps \cup {"claiming", "picking", "settling", "releasing"}
Steps == LeaseSteps \cup {"idle", "requested", "done", "dead"}

ClaimStatus(o)   == IF o \in ApproveOps THEN "approved" ELSE "retry_pending"
ExecuteStatus(o) == IF o \in ApproveOps THEN "executing" ELSE "retry_executing"
RetryStatus(o)   == IF o \in ApproveOps THEN "pending" ELSE "retry_pending"

Live(o) == pc[o] \notin {"idle", "done", "dead"}

Init ==
  /\ status = [i \in Items |-> "pending"]
  /\ token = [i \in Items |-> NoOp]
  /\ note = [i \in Items |-> "none"]
  /\ plan = [i \in Items |-> "file"]
  /\ aged = [i \in Items |-> FALSE]
  /\ lapsed = [i \in Items |-> FALSE]
  /\ file = [i \in Items |-> "verified"]
  /\ record = [i \in Items |-> TRUE]
  /\ monitored = [i \in Items |-> TRUE]
  /\ leaseOwner = NoOp
  /\ leaseStale = FALSE
  /\ pc = [o \in Ops |-> "idle"]
  /\ todo = [o \in Ops |-> {}]
  /\ claimed = [o \in Ops |-> {}]
  /\ item = [o \in Ops |-> NoItem]
  /\ route = [o \in Ops |-> "none"]
  /\ lost = [o \in Ops |-> FALSE]
  /\ attempted = [o \in Ops |-> {}]
  /\ faults = 0
  /\ crashes = 0
  /\ meddling = 0
  /\ orphan = [i \in Items |-> FALSE]
  /\ overrun = [o \in Ops |-> 0]

-----------------------------------------------------------------------------
(***************************************************************************)
(* Mistakes this code could have made.  None is part of the specification: *)
(* each stands in for the operator named beside it to show that a property *)
(* below would notice.                                                     *)
(***************************************************************************)

\* Owns: an outcome written by id alone.
OwnsById(o, i) == i \in Items

\* AssertOwnership: remember the lease instead of renewing it.
AssertOwnershipByMemory(o) == ~lost[o] /\ UNCHANGED <<leaseVars, lost, faults>>

\* NextItem: the loop goes on with the previous item still in hand.
NextItemKeepsItem(o) ==
  /\ pc' = [pc EXCEPT ![o] = "picking"]
  /\ route' = [route EXCEPT ![o] = "none"]
  /\ UNCHANGED item

\* AlreadyDone: half of the deletion taken for all of it.
AlreadyDoneHalfway(i) == ~record[i] \/ file[i] = "none" \/ ~monitored[i]

\* DeletedFile: the partial result assumed before the file delete.
DeletedFileTooEarly(o) ==
  /\ pc[o] \in {"fileCheck", "recordCheck", "recordRecheck", "recordDelete"}
  /\ plan[item[o]] = "file"

\* Unprocessed: the finally block forgets the item in hand.
UnprocessedUnreached(o, i) == token[i] = o /\ i \in claimed[o]

\* Abandoned: recovery by age alone, and recovery that waits for a release.
AbandonedByAge(i) == aged[i]
AbandonedOnRelease(i) == aged[i] /\ leaseOwner = NoOp

\* StepAfterCheck, for movies: the second attempt on a record counts as the first.
StepAfterCheckRepeats(o, i) ==
  CASE pc[o] = "authorize" -> IF plan[i] = "file" THEN "fileCheck" ELSE "recordCheck"
    [] pc[o] = "fileCheck" -> "fileDelete"
    [] OTHER -> "recordDelete"

\* LeaseFree: the claim without its where clause.
LeaseFreeAlways == leaseOwner \in Ops \cup {NoOp}

-----------------------------------------------------------------------------
(***************************************************************************)
(* Building blocks of the executor.                                        *)
(***************************************************************************)

\* The where clause of every write an executor makes to an approval it claimed.
Owns(o, i) == status[i] = ExecuteStatus(o) /\ token[i] = o

\* recoverableConfigWhere and the where clause of acquireCleanupRunLease.
LeaseFree == leaseOwner = NoOp \/ leaseStale

\* recoveringInterruptedMutation
Recovering(o, i) == o \in RetryOps \/ note[i] \in {"interrupted", "confirmed"}

Goto(o, step) == pc' = [pc EXCEPT ![o] = step]

\* `continue': leave the current item and go on with the next one.
NextItem(o) ==
  /\ Goto(o, "picking")
  /\ item' = [item EXCEPT ![o] = NoItem]
  /\ route' = [route EXCEPT ![o] = "none"]

\* An error leaves the loop: the finally block is next.
Abort(o) ==
  /\ Goto(o, "settling")
  /\ item' = [item EXCEPT ![o] = NoItem]
  /\ route' = [route EXCEPT ![o] = "none"]

WriteFails ==
  /\ faults < MaxFaults
  /\ faults' = faults + 1
  /\ UNCHANGED rowVars

\* updateClaimedCleanupApproval and its variants: write the outcome of an
\* attempt if the row is still executing under this operation's token.
WriteOutcome(o, i, newStatus, newNote, newPlan) ==
  \/ /\ Owns(o, i)
     /\ status' = [status EXCEPT ![i] = newStatus]
     /\ token' = [token EXCEPT ![i] = NoOp]
     /\ note' = [note EXCEPT ![i] = newNote]
     /\ plan' = [plan EXCEPT ![i] = newPlan]
     /\ aged' = [aged EXCEPT ![i] = @ /\ newStatus # "expired"]
     /\ UNCHANGED <<lapsed, faults>>
  \/ ~Owns(o, i) /\ UNCHANGED <<rowVars, faults>>

Settle(o, i, newStatus, newNote, newPlan) ==
  WriteOutcome(o, i, newStatus, newNote, newPlan) \/ WriteFails

\* The message kept when an attempt is put back without a word about itself.
KeptNote(i) == IF note[i] \in {"started", "confirmed"} THEN note[i] ELSE "other"

\* assertOwnership succeeds: the renewal found this operation's token.
AssertOwnership(o) ==
  /\ ~lost[o]
  /\ leaseOwner = o
  /\ leaseStale' = FALSE
  /\ UNCHANGED <<leaseOwner, lost, faults>>

\* A call that changes Radarr or Sonarr is about to be made.
Attempt(o) ==
  /\ attempted' = [attempted EXCEPT ![o] = @ \cup {item[o]}]
  /\ overrun' = [overrun EXCEPT ![o] = IF leaseOwner = o THEN @ ELSE @ + 1]

-----------------------------------------------------------------------------
(***************************************************************************)
(* Requests.                                                               *)
(***************************************************************************)

\* Expired rows leave the queue, the selected pending ones become approved.
Approve(o, S) ==
  LET Lapsing(i) == status[i] = "pending" /\ lapsed[i]
      Chosen(i)  == i \in S /\ status[i] = "pending" /\ ~lapsed[i]
  IN
  /\ pc[o] = "idle"
  /\ \E i \in S : Chosen(i)
  /\ status' = [i \in Items |-> IF Lapsing(i) THEN "expired"
                                ELSE IF Chosen(i) THEN "approved" ELSE status[i]]
  /\ token' = [i \in Items |-> IF Chosen(i) THEN o ELSE token[i]]
  /\ note' = [i \in Items |-> IF Lapsing(i) THEN "other" ELSE note[i]]
  /\ aged' = [i \in Items |-> aged[i] /\ ~Lapsing(i) /\ ~Chosen(i)]
  /\ Goto(o, "requested")
  /\ todo' = [todo EXCEPT ![o] = S]
  /\ UNCHANGED <<plan, lapsed, arrVars, leaseVars, claimed, item, route, lost,
                 attempted, countVars, historyVars>>

Reject(i) ==
  /\ status[i] = "pending"
  /\ ~lapsed[i]
  /\ status' = [status EXCEPT ![i] = "rejected"]
  /\ token' = [token EXCEPT ![i] = NoOp]
  /\ aged' = [aged EXCEPT ![i] = FALSE]
  /\ UNCHANGED <<note, plan, lapsed, arrVars, leaseVars, opVars, countVars, historyVars>>

RequestRetry(o, S) ==
  /\ pc[o] = "idle"
  /\ \E i \in S : status[i] = "retry_pending"
  /\ Goto(o, "requested")
  /\ todo' = [todo EXCEPT ![o] = S]
  /\ UNCHANGED <<rowVars, arrVars, leaseVars, claimed, item, route, lost,
                 attempted, countVars, historyVars>>

\* releaseUnclaimedApprovals
ReleaseUnclaimed(o) ==
  LET Left(i) == status[i] = "approved" /\ token[i] = o IN
  /\ status' = [i \in Items |-> IF Left(i) THEN "pending" ELSE status[i]]
  /\ token' = [i \in Items |-> IF Left(i) THEN NoOp ELSE token[i]]
  /\ note' = [i \in Items |-> IF Left(i) THEN "other" ELSE note[i]]
  /\ UNCHANGED <<plan, aged, lapsed>>

AcquireLease(o) ==
  /\ pc[o] = "requested"
  /\ LeaseFree
  /\ leaseOwner' = o
  /\ leaseStale' = FALSE
  /\ Goto(o, "claiming")
  /\ UNCHANGED <<rowVars, arrVars, todo, claimed, item, route, lost, attempted,
                 countVars, historyVars>>

\* Another operation holds the lease, or it could not be written: the request
\* is undone, unless that write fails as well, and refused.
LeaseRefused(o) ==
  LET failed == IF LeaseFree THEN 1 ELSE 0 IN
  /\ pc[o] = "requested"
  /\ \/ /\ ReleaseUnclaimed(o)
        /\ faults' = faults + failed
     \/ /\ o \in ApproveOps
        /\ UNCHANGED rowVars
        /\ faults' = faults + failed + 1
  /\ faults' <= MaxFaults
  /\ Goto(o, "done")
  /\ todo' = [todo EXCEPT ![o] = {}]
  /\ UNCHANGED <<arrVars, leaseVars, claimed, item, route, lost, attempted,
                 crashes, meddling, historyVars>>

-----------------------------------------------------------------------------
(***************************************************************************)
(* The executor: claim every row, then take them one at a time.            *)
(***************************************************************************)

Claim(o, i) ==
  LET claimable == /\ status[i] = ClaimStatus(o)
                   /\ o \in ApproveOps => token[i] = o /\ ~lapsed[i]
  IN
  /\ pc[o] = "claiming"
  /\ i \in todo[o]
  /\ todo' = [todo EXCEPT ![o] = @ \ {i}]
  /\ Goto(o, IF todo[o] = {i} THEN "picking" ELSE "claiming")
  /\ \/ /\ claimable
        /\ status' = [status EXCEPT ![i] = ExecuteStatus(o)]
        /\ token' = [token EXCEPT ![i] = o]
        /\ aged' = [aged EXCEPT ![i] = FALSE]
        /\ claimed' = [claimed EXCEPT ![o] = @ \cup {i}]
        /\ UNCHANGED <<note, plan, lapsed, faults>>
     \/ ~claimable /\ UNCHANGED <<rowVars, claimed, faults>>
     \/ WriteFails /\ UNCHANGED claimed
  /\ UNCHANGED <<arrVars, leaseVars, item, route, lost, attempted, crashes,
                 meddling, historyVars>>

PickItem(o, i) ==
  /\ pc[o] = "picking"
  /\ i \in claimed[o]
  /\ ~(o \in RetryOps /\ i \in Episodes /\ note[i] = "started")
  /\ claimed' = [claimed EXCEPT ![o] = @ \ {i}]
  /\ item' = [item EXCEPT ![o] = i]
  /\ Goto(o, "preflight")
  /\ UNCHANGED <<rowVars, arrVars, leaseVars, todo, route, lost, attempted,
                 countVars, historyVars>>

\* A retry never continues an episode whose unmonitor cannot be attributed.  A
\* row that cannot be expired ends the whole batch.
ExpireUnattributed(o, i) ==
  /\ pc[o] = "picking"
  /\ i \in claimed[o]
  /\ o \in RetryOps /\ i \in Episodes /\ note[i] = "started"
  /\ claimed' = [claimed EXCEPT ![o] = @ \ {i}]
  /\ Settle(o, i, "expired", "started", plan[i])
  /\ IF status'[i] = "expired" THEN Goto(o, "picking") ELSE Goto(o, "settling")
  /\ UNCHANGED <<arrVars, leaseVars, todo, item, route, lost, attempted, crashes,
                 meddling, historyVars>>

NoMoreItems(o) ==
  /\ pc[o] = "picking"
  /\ claimed[o] = {}
  /\ Goto(o, "settling")
  /\ UNCHANGED <<rowVars, arrVars, leaseVars, todo, claimed, item, route, lost,
                 attempted, countVars, historyVars>>

-----------------------------------------------------------------------------
(***************************************************************************)
(* The safety checks before an item: what the approved plan says against   *)
(* what Radarr or Sonarr shows now.                                        *)
(***************************************************************************)

\* retryTargetRecordIsAbsent
AlreadyDone(i) ==
  \/ ~record[i]
  \/ i \in Episodes /\ file[i] = "none" /\ ~monitored[i]

\* The live plan equals the approved one.
PlanUnchanged(i) ==
  /\ record[i]
  /\ IF plan[i] = "file" THEN file[i] = "verified" ELSE file[i] = "none"
  /\ i \in Episodes => monitored[i]

\* idempotentEpisodeUnmonitorMatch: only the approved unmonitor has happened.
OnlyUnmonitored(i) ==
  /\ i \in Episodes
  /\ record[i] /\ file[i] = "verified" /\ ~monitored[i]

\* recoverableFileRemainder: the verified movie file is gone, nothing else.
FileAlreadyGone(i) ==
  /\ i \in Movies
  /\ record[i] /\ plan[i] = "file" /\ file[i] = "none"

Proceed(o, newRoute) ==
  /\ Goto(o, "authorize")
  /\ route' = [route EXCEPT ![o] = newRoute]
  /\ UNCHANGED <<arrVars, leaseVars, todo, claimed, item, lost, attempted,
                 crashes, meddling, historyVars>>

PreflightReconciles(o) ==
  /\ pc[o] = "preflight"
  /\ Recovering(o, item[o])
  /\ AlreadyDone(item[o])
  /\ Proceed(o, "reconcile")
  /\ UNCHANGED <<rowVars, faults>>

PreflightProceeds(o) ==
  LET i == item[o] IN
  /\ pc[o] = "preflight"
  /\ ~(Recovering(o, i) /\ AlreadyDone(i))
  /\ \/ PlanUnchanged(i) /\ Proceed(o, IF note[i] = "confirmed" THEN "confirmed" ELSE "act")
     \/ Recovering(o, i) /\ OnlyUnmonitored(i) /\ Proceed(o, "confirmed")
  /\ UNCHANGED <<rowVars, faults>>

\* The remainder is written to the approval before anything else is deleted.
PreflightAdoptsRemainder(o) ==
  LET i == item[o] IN
  /\ pc[o] = "preflight"
  /\ Recovering(o, i)
  /\ FileAlreadyGone(i)
  /\ Owns(o, i)
  /\ plan' = [plan EXCEPT ![i] = "empty"]
  /\ note' = [note EXCEPT ![i] = "other"]
  /\ Proceed(o, "act")
  /\ UNCHANGED <<status, token, aged, lapsed, faults>>

\* The checks can fail closed at any time: a service that does not answer, a
\* changed identity, withdrawn provider evidence.
PreflightRefuses(o) ==
  LET i == item[o] IN
  /\ pc[o] = "preflight"
  /\ \/ Settle(o, i, RetryStatus(o), "other", plan[i])
     \/ Settle(o, i, RetryStatus(o), KeptNote(i), plan[i])
     \/ Settle(o, i, "expired", "other", plan[i])
  /\ NextItem(o)
  /\ UNCHANGED <<arrVars, leaseVars, todo, claimed, lost, attempted, crashes,
                 meddling, historyVars>>

\* The provider check renews the lease too, outside the item's own handler.
PreflightLosesLease(o) ==
  /\ pc[o] = "preflight"
  /\ lost[o]
  /\ Abort(o)
  /\ UNCHANGED <<rowVars, arrVars, leaseVars, todo, claimed, lost, attempted,
                 countVars, historyVars>>

-----------------------------------------------------------------------------
(***************************************************************************)
(* Before every call that changes Radarr or Sonarr the target is read      *)
(* again and assertMutationAuthority renews the lease.                     *)
(***************************************************************************)

\* What must hold of the target at each check.
Verified(o, i) ==
  CASE pc[o] = "authorize" -> Owns(o, i)
    [] pc[o] = "fileCheck" -> record[i] /\ file[i] = "verified"
    [] pc[o] \in {"recordCheck", "recordRecheck"} -> record[i] /\ file[i] = "none"
    [] pc[o] = "epCheck" -> record[i] /\ file[i] = "verified"
    [] pc[o] = "epFileCheck" -> record[i] /\ file[i] = "verified" /\ ~monitored[i]

StepAfterCheck(o, i) ==
  CASE pc[o] = "authorize" -> IF route[o] = "reconcile" THEN "recording"
                              ELSE IF i \in Episodes THEN "epCheck"
                              ELSE IF plan[i] = "file" THEN "fileCheck" ELSE "recordCheck"
    [] pc[o] = "fileCheck" -> "fileDelete"
    [] pc[o] = "recordCheck" -> "recordDelete"
    [] pc[o] = "recordRecheck" -> "recordRedelete"
    [] pc[o] = "epCheck" -> IF route[o] = "confirmed" THEN "epFileCheck" ELSE "phaseStart"
    [] pc[o] = "epFileCheck" -> "epDelete"

\* The first check also moves reviewedAt forward in the row it still owns.
CheckPasses(o) ==
  LET i == item[o] IN
  /\ pc[o] \in CheckSteps
  /\ AssertOwnership(o)
  /\ Verified(o, i)
  /\ Goto(o, StepAfterCheck(o, i))
  /\ aged' = [aged EXCEPT ![i] = @ /\ pc[o] # "authorize"]
  /\ UNCHANGED <<status, token, note, plan, lapsed, arrVars, todo, claimed, item,
                 route, attempted, crashes, meddling, historyVars>>

\* Another operation took the row over: the item is left to it.
AuthorizeDefers(o) ==
  /\ pc[o] = "authorize"
  /\ AssertOwnership(o)
  /\ ~Owns(o, item[o])
  /\ NextItem(o)
  /\ UNCHANGED <<rowVars, arrVars, todo, claimed, attempted, crashes, meddling,
                 historyVars>>

\* What was to be deleted vanished meanwhile.  The code finds the record gone
\* before it asks for authority, the file after it was refused.
AlreadyGone(o) ==
  LET i == item[o] IN
  /\ \/ pc[o] \in {"recordCheck", "recordRecheck"} /\ ~record[i] /\ Goto(o, "recording")
     \/ /\ pc[o] = "fileCheck"
        /\ ~record[i] \/ file[i] = "none"
        /\ Goto(o, "recordCheck")
  /\ UNCHANGED <<rowVars, arrVars, leaseVars, todo, claimed, item, route, lost,
                 attempted, countVars, historyVars>>

\* Does this attempt know that it deleted the movie file itself?
DeletedFile(o) ==
  /\ pc[o] \in {"recordCheck", "recordRecheck", "recordDelete", "recordRedelete"}
  /\ plan[item[o]] = "file"

\* The target changed, or it could not be read.
CheckFails(o) ==
  LET i == item[o] IN
  /\ pc[o] \in CheckSteps
  /\ \/ /\ pc[o] \in CheckSteps \ {"epFileCheck"}
        /\ Settle(o, i, RetryStatus(o), "other", plan[i])
     \/ /\ pc[o] = "epFileCheck"
        /\ \/ monitored[i] /\ Settle(o, i, RetryStatus(o), "other", plan[i])
           \/ Settle(o, i, "retry_pending", "confirmed", plan[i])
  /\ NextItem(o)
  /\ UNCHANGED <<arrVars, leaseVars, todo, claimed, lost, attempted, crashes,
                 meddling, historyVars>>

\* The rule, the policy or the provider evidence no longer authorizes the step.
\* What is already known to have happened upstream stays retryable.
AuthorityChanges(o) ==
  LET i == item[o]
      preserved == route[o] = "confirmed" \/ note[i] = "confirmed"
  IN
  /\ pc[o] \in CheckSteps
  /\ \/ DeletedFile(o) /\ Settle(o, i, RetryStatus(o), "other", "empty")
     \/ pc[o] = "epFileCheck" /\ Settle(o, i, "retry_pending", "confirmed", plan[i])
     \/ /\ ~DeletedFile(o)
        /\ pc[o] = "epFileCheck" => monitored[i]
        /\ IF preserved
           THEN Settle(o, i, "retry_pending",
                       IF note[i] = "none" THEN "confirmed" ELSE note[i], plan[i])
           ELSE Settle(o, i, "expired", "other", plan[i])
  /\ NextItem(o)
  /\ UNCHANGED <<arrVars, leaseVars, todo, claimed, lost, attempted, crashes,
                 meddling, historyVars>>

\* assertOwnership throws.  That ends the batch, except after a movie file is
\* gone: the partial result is kept and the next item meets the lost lease.
CheckLosesLease(o) ==
  LET i == item[o]
      resumable == pc[o] = "epFileCheck" /\ ~monitored[i]
  IN
  /\ pc[o] \in CheckSteps
  /\ lost[o]
  /\ \/ /\ pc[o] = "fileCheck"
        /\ Settle(o, i, RetryStatus(o), "other", plan[i])
        /\ NextItem(o)
     \/ /\ DeletedFile(o)
        /\ Settle(o, i, RetryStatus(o), "other", "empty")
        /\ NextItem(o)
     \/ /\ ~DeletedFile(o)
        /\ Settle(o, i, IF resumable THEN "retry_pending" ELSE RetryStatus(o),
                  IF resumable THEN "confirmed" ELSE KeptNote(i), plan[i])
        /\ Abort(o)
  /\ UNCHANGED <<arrVars, leaseVars, todo, claimed, lost, attempted, crashes,
                 meddling, historyVars>>

-----------------------------------------------------------------------------
(***************************************************************************)
(* The calls.  Radarr or Sonarr may apply one or not, and what the code    *)
(* reads back may be the result or nothing at all.                         *)
(***************************************************************************)

\* radarr.movieFile.delete by file id, then inspectRadarrFileState.
DeleteMovieFile(o) ==
  LET i == item[o] IN
  /\ pc[o] = "fileDelete"
  /\ Attempt(o)
  /\ \/ file' = [file EXCEPT ![i] = IF @ = "verified" THEN "none" ELSE @]
     \/ UNCHANGED file
  /\ \/ /\ ~record[i] \/ file'[i] = "none"
        /\ Goto(o, "recordCheck")
        /\ UNCHANGED <<rowVars, faults, item, route>>
     \/ \* still there, replaced, or unknown
        /\ Settle(o, i, RetryStatus(o), "other", plan[i])
        /\ NextItem(o)
  /\ UNCHANGED <<record, monitored, leaseVars, todo, claimed, lost, crashes,
                 meddling, orphan>>

\* radarr.movie.delete, at most twice, and a read of the record if it fails.
DeleteMovieRecord(o) ==
  LET i == item[o] IN
  /\ pc[o] \in {"recordDelete", "recordRedelete"}
  /\ Attempt(o)
  /\ \/ record' = [record EXCEPT ![i] = FALSE]
     \/ UNCHANGED record
  /\ \/ /\ ~record'[i]
        /\ Goto(o, "recording")
        /\ UNCHANGED <<rowVars, faults, item, route>>
     \/ /\ record'[i]
        /\ pc[o] = "recordDelete"
        /\ Goto(o, "recordRecheck")
        /\ UNCHANGED <<rowVars, faults, item, route>>
     \/ /\ record'[i]
        /\ pc[o] = "recordRedelete"
        /\ Settle(o, i, RetryStatus(o), "other", "empty")
        /\ NextItem(o)
     \/ \* the outcome cannot be read
        /\ Settle(o, i, RetryStatus(o), "other", plan[i])
        /\ NextItem(o)
  /\ UNCHANGED <<file, monitored, leaseVars, todo, claimed, lost, crashes,
                 meddling, orphan>>

\* persistEpisodeUnmonitorPhase(STARTED), before Sonarr is contacted.
PersistStarted(o) ==
  LET i == item[o] IN
  /\ pc[o] = "phaseStart"
  /\ \/ /\ Owns(o, i)
        /\ note' = [note EXCEPT ![i] = "started"]
        /\ Goto(o, "unmonitor")
        /\ UNCHANGED <<status, token, plan, aged, lapsed, faults, item, route>>
     \/ \* the row changed hands, or the write failed: Sonarr is not called
        /\ ~Owns(o, i) \/ faults < MaxFaults
        /\ Settle(o, i, "retry_pending", "other", plan[i])
        /\ NextItem(o)
  /\ UNCHANGED <<arrVars, leaseVars, todo, claimed, lost, attempted, crashes,
                 meddling, historyVars>>

\* sonarr.episode.setMonitored(false) and its readback.
UnmonitorEpisode(o) ==
  LET i == item[o] IN
  /\ pc[o] = "unmonitor"
  /\ Attempt(o)
  /\ \/ record[i] /\ monitored' = [monitored EXCEPT ![i] = FALSE]
     \/ UNCHANGED monitored
  /\ \/ /\ record[i] /\ ~monitored'[i]
        /\ Goto(o, "phaseConfirm")
        /\ UNCHANGED <<rowVars, faults, item, route>>
     \/ /\ ~record[i] \/ monitored'[i]
        /\ Settle(o, i, RetryStatus(o), "other", plan[i])
        /\ NextItem(o)
     \/ \* the readback is unavailable
        /\ Settle(o, i, "retry_pending", "started", plan[i])
        /\ NextItem(o)
  /\ UNCHANGED <<file, record, leaseVars, todo, claimed, lost, crashes,
                 meddling, orphan>>

\* persistEpisodeUnmonitorPhase(CONFIRMED), before the file is touched.
PersistConfirmed(o) ==
  LET i == item[o] IN
  /\ pc[o] = "phaseConfirm"
  /\ \/ /\ Owns(o, i)
        /\ note' = [note EXCEPT ![i] = "confirmed"]
        /\ Goto(o, "epFileCheck")
        /\ UNCHANGED <<status, token, plan, aged, lapsed, faults, item, route>>
     \/ /\ ~Owns(o, i) \/ faults < MaxFaults
        /\ Settle(o, i, "retry_pending", "started", plan[i])
        /\ NextItem(o)
  /\ UNCHANGED <<arrVars, leaseVars, todo, claimed, lost, attempted, crashes,
                 meddling, historyVars>>

\* sonarr.episodeFile.bulkDelete and the check of what remains.
DeleteEpisodeFile(o) ==
  LET i == item[o] IN
  /\ pc[o] = "epDelete"
  /\ Attempt(o)
  /\ \/ file' = [file EXCEPT ![i] = IF @ = "verified" THEN "none" ELSE @]
     \/ UNCHANGED file
  /\ \/ /\ file'[i] = "none"
        /\ Goto(o, "recording")
        /\ UNCHANGED <<rowVars, faults, item, route>>
     \/ /\ file'[i] = "verified"
        /\ \/ monitored[i] /\ Settle(o, i, RetryStatus(o), "other", plan[i])
           \/ Settle(o, i, "retry_pending", "confirmed", plan[i])
        /\ NextItem(o)
     \/ \* replaced, response lost, or unknown
        /\ Settle(o, i, "retry_pending", "other", plan[i])
        /\ NextItem(o)
  /\ UNCHANGED <<record, monitored, leaseVars, todo, claimed, lost, crashes,
                 meddling, orphan>>

\* The executed state is written, and written again if that fails.
RecordExecuted(o) ==
  /\ pc[o] = "recording"
  /\ \/ WriteOutcome(o, item[o], "executed", "none", plan[item[o]])
     \/ faults + 1 < MaxFaults /\ faults' = faults + 2 /\ UNCHANGED rowVars
  /\ NextItem(o)
  /\ UNCHANGED <<arrVars, leaseVars, todo, claimed, lost, attempted, crashes,
                 meddling, historyVars>>

-----------------------------------------------------------------------------
(***************************************************************************)
(* The end of a batch: the finally blocks.                                 *)
(***************************************************************************)

\* releaseUnprocessedExecutions
Unprocessed(o, i) == Owns(o, i) /\ i \notin attempted[o]

\* Rows claimed but never attempted become retryable again, approved ones that
\* were not claimed become pending; writes for the rows in `Kept' fail.
SettleBatch(o) ==
  LET Unclaimed(i) == o \in ApproveOps /\ status[i] = "approved" /\ token[i] = o
  IN
  /\ pc[o] = "settling"
  /\ \E Kept \in SUBSET Items :
       LET Back(i) == i \notin Kept /\ (Unprocessed(o, i) \/ Unclaimed(i)) IN
       /\ Cardinality(Kept) + faults <= MaxFaults
       /\ \A i \in Kept : Unprocessed(o, i) \/ Unclaimed(i)
       /\ faults' = faults + Cardinality(Kept)
       /\ status' = [i \in Items |-> IF Back(i) THEN RetryStatus(o) ELSE status[i]]
       /\ token' = [i \in Items |-> IF Back(i) THEN NoOp ELSE token[i]]
       /\ note' = [i \in Items |-> IF Back(i)
                                   THEN IF Unclaimed(i) THEN "other" ELSE KeptNote(i)
                                   ELSE note[i]]
  /\ Goto(o, "releasing")
  /\ claimed' = [claimed EXCEPT ![o] = {}]
  /\ UNCHANGED <<plan, aged, lapsed, arrVars, leaseVars, todo, item, route, lost,
                 attempted, crashes, meddling, historyVars>>

ReleaseLease(o) ==
  /\ pc[o] = "releasing"
  /\ IF leaseOwner = o
     THEN \/ leaseOwner' = NoOp /\ leaseStale' = FALSE /\ UNCHANGED faults
          \/ faults < MaxFaults /\ faults' = faults + 1 /\ UNCHANGED leaseVars
     ELSE UNCHANGED <<leaseVars, faults>>
  /\ Goto(o, "done")
  /\ UNCHANGED <<rowVars, arrVars, todo, claimed, item, route, lost, attempted,
                 crashes, meddling, historyVars>>

-----------------------------------------------------------------------------
(***************************************************************************)
(* The lease and the clock.                                                *)
(***************************************************************************)

\* The heartbeat of a live operation.
Heartbeat(o) ==
  /\ pc[o] \in LeaseSteps
  /\ AssertOwnership(o)
  /\ leaseStale
  /\ UNCHANGED <<rowVars, arrVars, pc, todo, claimed, item, route, attempted,
                 crashes, meddling, historyVars>>

\* A renewal, by the heartbeat or before a step, that failed or found the
\* token replaced.
LoseOwnership(o) ==
  /\ pc[o] \in LeaseSteps
  /\ ~lost[o]
  /\ \/ leaseOwner # o /\ UNCHANGED faults
     \/ faults < MaxFaults /\ faults' = faults + 1
  /\ lost' = [lost EXCEPT ![o] = TRUE]
  /\ UNCHANGED <<rowVars, arrVars, leaseVars, pc, todo, claimed, item, route,
                 attempted, crashes, meddling, historyVars>>

\* Two hours pass without a renewal.
LeaseGoesStale ==
  /\ leaseOwner # NoOp
  /\ ~leaseStale
  /\ MayStall \/ pc[leaseOwner] \notin LeaseSteps
  /\ leaseStale' = TRUE
  /\ UNCHANGED <<rowVars, arrVars, leaseOwner, opVars, countVars, historyVars>>

\* One hour passes after reviewedAt.
RowAges(i) ==
  /\ status[i] \in InFlightStatuses
  /\ ~aged[i]
  /\ aged' = [aged EXCEPT ![i] = TRUE]
  /\ UNCHANGED <<status, token, note, plan, lapsed, arrVars, leaseVars, opVars,
                 countVars, historyVars>>

\* expiresAt passes.
ApprovalLapses(i) ==
  /\ status[i] \in {"pending", "approved"}
  /\ ~lapsed[i]
  /\ lapsed' = [lapsed EXCEPT ![i] = TRUE]
  /\ UNCHANGED <<status, token, note, plan, aged, arrVars, leaseVars, opVars,
                 countVars, historyVars>>

-----------------------------------------------------------------------------
(***************************************************************************)
(* The scheduler's recovery, every minute.  Each write stands alone: one   *)
(* that fails is logged and the next is tried.                             *)
(***************************************************************************)

Recover(i, newStatus, newNote) ==
  /\ status' = [status EXCEPT ![i] = newStatus]
  /\ token' = [token EXCEPT ![i] = NoOp]
  /\ note' = [note EXCEPT ![i] = newNote]
  /\ aged' = [aged EXCEPT ![i] = FALSE]
  /\ UNCHANGED <<plan, lapsed, arrVars, leaseVars, opVars, countVars, historyVars>>

Abandoned(i) == aged[i] /\ LeaseFree

ExpirePending(i) ==
  /\ status[i] = "pending"
  /\ lapsed[i]
  /\ status' = [status EXCEPT ![i] = "expired"]
  /\ note' = [note EXCEPT ![i] = "other"]
  /\ aged' = [aged EXCEPT ![i] = FALSE]
  /\ UNCHANGED <<token, plan, lapsed, arrVars, leaseVars, opVars, countVars, historyVars>>

RecoverApproved(i) ==
  /\ status[i] = "approved"
  /\ Abandoned(i)
  /\ Recover(i, "pending", "other")

\* A bug: an interrupted unmonitor is taken for a confirmed one.
RecoverStartedAsConfirmed(i) ==
  /\ status[i] \in {"executing", "retry_executing"}
  /\ note[i] = "started"
  /\ Abandoned(i)
  /\ Recover(i, "retry_pending", "confirmed")

\* recoverInterruptedSonarrEpisodePhases
RecoverStarted(i) ==
  /\ status[i] \in {"executing", "retry_executing"}
  /\ note[i] = "started"
  /\ Abandoned(i)
  /\ Recover(i, "expired", note[i])

RecoverConfirmed(i) ==
  /\ status[i] \in {"executing", "retry_executing"}
  /\ note[i] = "confirmed"
  /\ Abandoned(i)
  /\ Recover(i, "retry_pending", note[i])

OutsidePhases(i) == note[i] \notin {"started", "confirmed"}

RecoverExecuting(i) ==
  /\ status[i] = "executing"
  /\ OutsidePhases(i)
  /\ Abandoned(i)
  /\ Recover(i, "pending", "interrupted")

RecoverRetryExecuting(i) ==
  /\ status[i] = "retry_executing"
  /\ OutsidePhases(i)
  /\ Abandoned(i)
  /\ Recover(i, "retry_pending", "other")

-----------------------------------------------------------------------------
(***************************************************************************)
(* The world outside.                                                      *)
(***************************************************************************)

\* The API process dies.  What was in memory is gone, the rows stay.
Crash ==
  /\ crashes < MaxCrashes
  /\ \E o \in Ops : Live(o)
  /\ crashes' = crashes + 1
  /\ orphan' = [i \in Items |-> orphan[i] \/
                  \E o \in Ops : item[o] = i /\ Owns(o, i)
                                 /\ pc[o] \in {"unmonitor", "phaseConfirm"}]
  /\ pc' = [o \in Ops |-> IF Live(o) THEN "dead" ELSE pc[o]]
  /\ todo' = [o \in Ops |-> {}]
  /\ claimed' = [o \in Ops |-> {}]
  /\ item' = [o \in Ops |-> NoItem]
  /\ route' = [o \in Ops |-> "none"]
  /\ lost' = [o \in Ops |-> FALSE]
  /\ attempted' = [o \in Ops |-> {}]
  /\ UNCHANGED <<rowVars, arrVars, leaseVars, faults, meddling, overrun>>

\* Users and downloads change Radarr and Sonarr on their own.
Meddle(i) ==
  /\ meddling < MaxMeddling
  /\ meddling' = meddling + 1
  /\ record[i]
  /\ \/ /\ file[i] # "other"          \* an upgrade or a new import
        /\ file' = [file EXCEPT ![i] = "other"]
        /\ UNCHANGED <<record, monitored>>
     \/ /\ file[i] # "none"           \* a file deleted by hand
        /\ file' = [file EXCEPT ![i] = "none"]
        /\ UNCHANGED <<record, monitored>>
     \/ /\ i \in Episodes /\ ~monitored[i]
        /\ monitored' = [monitored EXCEPT ![i] = TRUE]
        /\ UNCHANGED <<file, record>>
     \/ /\ record' = [record EXCEPT ![i] = FALSE]
        /\ file' = [file EXCEPT ![i] = "none"]
        /\ UNCHANGED monitored
  /\ UNCHANGED <<rowVars, leaseVars, opVars, faults, crashes, historyVars>>

-----------------------------------------------------------------------------
\* One step of an operation that is under way.
Execute(o) ==
  \/ AcquireLease(o) \/ LeaseRefused(o)
  \/ \E i \in Items : Claim(o, i) \/ PickItem(o, i) \/ ExpireUnattributed(o, i)
  \/ NoMoreItems(o)
  \/ PreflightReconciles(o) \/ PreflightProceeds(o) \/ PreflightAdoptsRemainder(o)
  \/ PreflightRefuses(o) \/ PreflightLosesLease(o)
  \/ CheckPasses(o) \/ AuthorizeDefers(o) \/ AlreadyGone(o)
  \/ CheckFails(o) \/ AuthorityChanges(o) \/ CheckLosesLease(o)
  \/ DeleteMovieFile(o) \/ DeleteMovieRecord(o)
  \/ PersistStarted(o) \/ UnmonitorEpisode(o) \/ PersistConfirmed(o)
  \/ DeleteEpisodeFile(o) \/ RecordExecuted(o)
  \/ SettleBatch(o) \/ ReleaseLease(o)

Operate(o) == Execute(o) \/ Heartbeat(o) \/ LoseOwnership(o)

Schedule(i) ==
  \/ ExpirePending(i) \/ RecoverApproved(i) \/ RecoverStarted(i)
  \/ RecoverConfirmed(i) \/ RecoverExecuting(i) \/ RecoverRetryExecuting(i)

Next ==
  \/ \E o \in ApproveOps, S \in SUBSET Items : Approve(o, S)
  \/ \E o \in RetryOps, S \in SUBSET Items : RequestRetry(o, S)
  \/ \E o \in Ops : Operate(o)
  \/ \E i \in Items : Reject(i) \/ Schedule(i) \/ RowAges(i) \/ ApprovalLapses(i)
                      \/ Meddle(i)
  \/ LeaseGoesStale
  \/ Crash

Spec == Init /\ [][Next]_vars

(***************************************************************************)
(* An operation that runs takes its next step, time passes, and the        *)
(* scheduler's interval fires: setInterval in cleanup-scheduler.ts.        *)
(* Requests, users, failures and crashes are under nobody's control.       *)
(***************************************************************************)
Fairness ==
  /\ \A o \in Ops : WF_vars(Execute(o))
  /\ \A i \in Items : WF_vars(RowAges(i)) /\ WF_vars(Schedule(i))
  /\ WF_vars(LeaseGoesStale)

FairSpec == Spec /\ Fairness

-----------------------------------------------------------------------------
(***************************************************************************)
(* What is checked.                                                        *)
(***************************************************************************)

RowsOK ==
  /\ status \in [Items -> Statuses]
  /\ token \in [Items -> Ops \cup {NoOp}]
  /\ note \in [Items -> Notes]
  /\ plan \in [Items -> Plans]
  /\ aged \in [Items -> BOOLEAN]
  /\ lapsed \in [Items -> BOOLEAN]

ArrOK ==
  /\ file \in [Items -> {"verified", "other", "none"}]
  /\ record \in [Items -> BOOLEAN]
  /\ monitored \in [Items -> BOOLEAN]

LeaseOK == leaseOwner \in Ops \cup {NoOp} /\ leaseStale \in BOOLEAN

\* An operation has an item in hand exactly while it works on one.
StepsOK ==
  /\ pc \in [Ops -> Steps]
  /\ item \in [Ops -> Items \cup {NoItem}]
  /\ route \in [Ops -> Routes]
  /\ \A o \in Ops : item[o] # NoItem <=> pc[o] \in ItemSteps

BatchesOK ==
  /\ todo \in [Ops -> SUBSET Items]
  /\ claimed \in [Ops -> SUBSET Items]
  /\ lost \in [Ops -> BOOLEAN]
  /\ attempted \in [Ops -> SUBSET Items]

CountsOK == faults \in Nat /\ crashes \in Nat /\ meddling \in Nat

HistoryOK == orphan \in [Items -> BOOLEAN] /\ overrun \in [Ops -> Nat]

\* Every variable has its type, and an operation holds an item exactly while it
\* works on one.
TypeOK ==
  RowsOK /\ ArrOK /\ LeaseOK /\ StepsOK /\ BatchesOK /\ CountsOK /\ HistoryOK

\* An operation about to change Radarr or Sonarr holds the run lease, and the
\* item's approval is executing under that operation's token: no approval that
\* was rejected, expired, put back or taken over is acted upon, and no two
\* operations act at the same time.  Holds while holders renew in time.
MutatesUnderOwnership ==
  \A o \in Ops : pc[o] \in MutationSteps => Owns(o, item[o]) /\ leaseOwner = o

\* An approval says `executed' only if the movie's record, or the episode's
\* verified file, is really gone, however many attempts, crashes and failed
\* writes it took.
ExecutedIsTrue ==
  \A i \in Items : status[i] = "executed" =>
    IF i \in Movies THEN ~record[i] ELSE file[i] # "verified"

\* A plan reduced to the bare record (buildPostPartialRetrySnapshot, and the
\* remainder adopted after a crash) is never stored while the verified file
\* still exists.
EmptyPlanMeansFileGone ==
  \A i \in Items : plan[i] = "empty" => file[i] # "verified"

\* An episode whose unmonitor was interrupted before it was confirmed cannot
\* be attributed: cleanup never deletes its file afterwards, whoever approves or
\* retries, which is what the recorded message tells the operator.
UnattributedNeverDeleted ==
  \A o \in Ops : pc[o] = "epDelete" => ~orphan[item[o]]

\* Executed, rejected and expired are final, also for an executor that stalled
\* for hours and writes its outcome late.
FinalIsFinal ==
  [][\A i \in Items : status[i] \in FinalStatuses => status'[i] = status[i]]_vars

\* An operation whose lease went to another finishes the call it had already
\* authorized and makes no further one.
AtMostOneOverrun ==
  \A o \in Ops : overrun[o] <= 1

\* An operation that ends leaves no approval executing or approved in its name,
\* unless the write that would have settled it failed: whatever happened to the
\* lease, the handlers of the loop and the finally block cover the whole batch.
BatchSettlesItsRows ==
  \A o \in Ops, i \in Items :
    pc[o] = "done" /\ faults = 0 =>
      ~Owns(o, i) /\ ~(status[i] = "approved" /\ token[i] = o)

\* How far a step is from the end of the batch, leaving aside the rows that are
\* still to be claimed or turned to.
Rank(s) ==
  CASE s = "requested" -> 20
    [] s = "claiming" -> 19
    [] s = "preflight" -> 18
    [] s = "authorize" -> 17
    [] s \in {"fileCheck", "epCheck"} -> 16
    [] s \in {"fileDelete", "phaseStart"} -> 15
    [] s \in {"recordCheck", "unmonitor"} -> 14
    [] s \in {"recordDelete", "phaseConfirm"} -> 13
    [] s \in {"recordRecheck", "epFileCheck"} -> 12
    [] s \in {"recordRedelete", "epDelete"} -> 11
    [] s = "recording" -> 10
    [] s = "picking" -> 3
    [] s = "settling" -> 2
    [] s = "releasing" -> 1
    [] OTHER -> 0

Advances(o) ==
  /\ todo'[o] \subseteq todo[o]
  /\ todo'[o] = todo[o] => claimed'[o] \subseteq claimed[o]
  /\ todo'[o] = todo[o] /\ claimed'[o] = claimed[o] => Rank(pc'[o]) < Rank(pc[o])

\* An operation ends after finitely many steps of its own, whatever fails, is
\* refused or is lost on the way: each of them claims a row, turns to one, or
\* comes nearer to the end of the item in hand and of the batch.  No retry of a
\* call and no handler of the loop goes back to what was already done.
EveryStepAdvances ==
  [][\A o \in Ops : Execute(o) => Advances(o)]_vars

\* No approval stays approved or executing for ever: the operation settles it,
\* or the scheduler recovers it once the lease is free.
InFlightSettles ==
  \A i \in Items : status[i] \in InFlightStatuses ~> status[i] \notin InFlightStatuses

Lock == INSTANCE RunLock WITH
          holder <- leaseOwner,
          relying <- {o \in Ops : pc[o] \in LeaseSteps}

\* From the claim of its rows to its last write an operation relies on the
\* lease, and nobody takes it meanwhile.  Holds while holders renew in time,
\* which CleanupRunLease derives from the heartbeat.
ImplementsRunLock == Lock!Spec
=============================================================================
