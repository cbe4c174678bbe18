# A formal model of arr-dashboard

arr-dashboard is one API process (`src/apps/api`, Fastify and Prisma) with a web
front end (`src/apps/web`).  It looks after Radarr, Sonarr and the media servers
around them: it deletes what nobody watches, deploys the quality profiles of the TRaSH
guides, passes requests on to Seerr, hunts for missing releases, and backs itself up.  Most of its
code reads, filters and formats.  What is hard to get right is the small part
that *changes other systems* on behalf of a stored decision, while timers,
requests, failures and restarts interleave.  This directory models that part: library
cleanup, the only subsystem that deletes media; the deployment of TRaSH templates and
its recovery, which rewrites the configuration of an endpoint in many calls; and the
circuit breaker through which every request to Seerr passes.

Paths below are relative to `src/apps/api/src` unless they start with `src/`.

## 1. Inventory

| component | state it keeps | operations | what makes it hard |
|---|---|---|---|
| cleanup approvals and executor (`lib/library-cleanup/cleanup-executor.ts`, `routes/library-cleanup.ts`) | `LibraryCleanupApproval` rows: status, executionToken, safetySnapshot, lastExecutionError, reviewedAt, expiresAt | approve, reject, retry, bulk, claim, check, delete, record, release | two services and a database, no common transaction; partial deletion; response lost; crash between any two steps |
| run lease (`cleanup-run-lease.ts`) | `runClaimToken`, `runClaimedAt` of the configuration row | acquire, renew, release | time, overlapping renewals, stalled holders |
| maintenance gate (`cleanup-maintenance-gate.ts`) | three variables in memory | shared, exclusive and maintenance guards | nesting, failure, restart, more than one process |
| cleanup scheduler (`cleanup-scheduler.ts`) | a timer, a flag | expire, recover five kinds of interrupted rows, start due runs | recovery races the executor it believes dead |
| media-server rescans (`media-server-rescan.ts`) | scan jobs, one lease per physical operation | prepare, claim, dispatch, record, retry with backoff, prune | ambiguous dispatch, coalescing of jobs |
| rules, planner, safety evidence (`rule-evaluators.ts`, `selection-planner.ts`, `shared-plex-safety.ts`, ...) | none of their own | evaluate, plan, verify | size; stale evidence |
| audit (`cleanup-audit.ts`) | append-only events | append | best effort |
| scheduler registry (`lib/scheduler-registry`) | per job: state, counters | track, markDisabled, markEnabled | overlap of ticks |
| lifecycle (`lib/lifecycle`, `src/docker`) | a flag, exit codes | restart, shutdown | supervision by a shell script |
| backup (`lib/backup`) | archives, the whole database | create, restore | restore replaces the tables others work on |
| TRaSH deployment (`lib/trash-guides/deployment-*`, `routes/trash-guides/sync-routes.ts`, `deployment-history-routes.ts`) | `TrashBackup` (the ledger), `TrashSyncHistory`, `TemplateDeploymentHistory` with four status columns, an in-memory set of endpoints | deploy, roll back, undeploy, delete a history, reconcile at startup | several upstream writes per deployment, two routes for one recovery, ownership shared between deployments |
| TRaSH synchronisation (`lib/trash-guides/*-scheduler.ts`, ...) | templates, caches | fetch, merge, update | mostly data processing |
| Seerr client (`lib/seerr`) | circuit per instance, in memory | check, report, retry, clean up | answers out of order, reports to a circuit that has moved on |
| auto-tag, label-sync (`lib/auto-tag`, `lib/label-sync`) | rules, in-flight set | run, tag | read-modify-write upstream |
| hunting, queue cleaner (`lib/hunting`, `lib/queue-cleaner`) | caps, cooldowns, strikes | tick, manual run | limits across ticks |
| Plex, Jellyfin, Tautulli (`lib/plex`, ...) | caches with generations, authority | refresh, publish, withdraw | evidence used after it was withdrawn |
| qui (`lib/qui`) | torrent state, hash index, mutation guard | sync, resolve | external ownership of files |
| notifications (`lib/notifications`) | channels, aggregation buffers | send, retry | outside the core |
| services, identity, auth (`lib/services`, `lib/arr`, `lib/auth`) | connections, fingerprints, sessions | edit, verify, sign in | outside the core |
| routes, plugins, web, shared packages, generated client | none | wiring, presentation | |

`PROJECT.json` lists each with its status.  They interact through the database
(every status is a row, every transition a conditional `updateMany`), through two
locks (the run lease in the database, the gate in memory) and through HTTP calls
to Radarr and Sonarr, which other people change at the same time.

What must be true of library cleanup, in the order of importance:

1. Nothing is deleted for an approval that is not in force, and nothing is
   deleted by two operations at once.
2. The recorded outcome is true: `executed` means deleted, and a stored plan
   never claims that less is left than there is.
3. A mutation whose author is unknown is never continued.
4. Nothing is lost: an approval in flight always becomes final or comes back to
   the operator, and a final one stays final.
5. A restore of the database is alone.
6. A media server is told of every deletion, after the deletion, and is not sent
   again at once what it has acknowledged.

Of a TRaSH deployment: what it changed is on record before it is changed; nobody works
on an endpoint whose state is in doubt; a deployment counts as undone only when all of
it is; a recovery that stopped can be asked for again.  Of the circuit breaker: no
counted failure is lost, nobody is refused without a recent failure, and an instance
that is back is used again.

## 2. The modules

| module | models | stands for |
|---|---|---|
| `RunLock` | the abstract lock with crash recovery | what the run lease promises |
| `CleanupRunLease` | the lease row with its clock | `cleanup-run-lease.ts` |
| `CleanupApproval` | approvals, executor, recovery, Radarr and Sonarr | `cleanup-executor.ts`, `cleanup-scheduler.ts`, `routes/library-cleanup.ts` |
| `CleanupMaintenanceGate` | the gate and its users | `cleanup-maintenance-gate.ts`, restarts |
| `MediaServerRescan` | scan jobs and the leases of their operations | `media-server-rescan.ts` |
| `TrashLedger` | the ledger of a deployment, and what is decided from ledgers alone | `deployment-backup-state.ts`, `deployment-*-state.ts`, parts of `deployment-active-ownership.ts` |
| `TrashDeployment` | deployments to one endpoint, their recovery and the restart | `deployment-executor.ts`, `deployment-operation-gate.ts`, `sync-routes.ts`, `deployment-history-routes.ts` |
| `SeerrCircuitBreaker` | one circuit and the requests that go through it | `seerr-circuit-breaker.ts`, `seerr-client.ts`, `seerr-retry.ts` |
| `RunLock_proofs`, `CleanupRunLease_proofs`, `CleanupApproval_proofs`, `CleanupApprovalOutcome_proofs`, `CleanupMaintenanceGate_proofs`, `MediaServerRescan_proofs`, `TrashDeployment_proofs`, `SeerrCircuitBreaker_proofs` | theorems | |
| `MC...` | model values and symmetry for TLC | |

`CleanupApproval`, `CleanupRunLease` and `MediaServerRescan` contain an instance of
`RunLock`.  The run lease, with its clock, implements the lock, and the executor, with
time reduced to booleans, uses it as one; the lease of a scan operation is a second
lock of the same kind.  The first two meet in one assumption, *a holder
that runs renews in time*: in `CleanupApproval` it is `MayStall = FALSE`, in
`CleanupRunLease` it is `Timely`, from which the lease is shown to protect.

### CleanupApproval

State.  `status`, `token`, `note`, `plan`, `aged`, `lapsed` are the columns
status, executionToken, lastExecutionError, safetySnapshot, reviewedAt and
expiresAt of a row; `file`, `record`, `monitored` are what Radarr or Sonarr has;
`leaseOwner` and `leaseStale` the lease; `pc`, `todo`, `claimed`, `item`, `route`,
`lost`, `attempted` the local variables of a request under way (`lost` is
`runLeaseLost`, `attempted` is `mutationAttemptedApprovalIds`).  `orphan` and
`overrun` are history variables, read by properties only.

A request is an element of `ApproveOps` or `RetryOps`.  Its steps follow the code:
`Approve` or `RequestRetry` (the routes), `AcquireLease` or `LeaseRefused`, one
`Claim` per row, then for every claimed row `PickItem`, a `Preflight...` action (the
comparison of the approved plan with what the services show), and a sequence of
checks and calls.  Each call is preceded by a check step (`CheckPasses`,
`CheckFails`, `AuthorityChanges`, `CheckLosesLease`, `AlreadyGone`) that reads the
target and renews the lease, because between the check and the call everybody
else may act.  A call (`DeleteMovieFile`, `DeleteMovieRecord`,
`UnmonitorEpisode`, `DeleteEpisodeFile`) may be applied or not, and what is read
back may be the truth or nothing.  Every handler of an error is part of the
action that meets the error: `Settle` is the outcome written by the catch block,
applied to a row only if the operation still owns it (`Owns`), or lost if the
write itself fails.  `SettleBatch` and `ReleaseLease` are the finally blocks.

The scheduler's writes (`ExpirePending` and five `Recover...` actions) are single
conditional updates, as in the code, and may happen at any moment.  `Crash` stops
every request at once and keeps the rows and the lease.

Abstractions, each of which loses detail and no control:

- Approvals are those with the action `delete` of a movie with a verified file
  (`verified_radarr`) or of one episode (`verified_sonarr_episode`).  Whole series
  and the actions unmonitor and delete_files take the same path with other calls.
- Time is three booleans that may turn true at any moment; `RowAges` and
  `LeaseGoesStale` are the only way.
- `note` keeps the messages the code compares with: `interrupted`, `started` and
  `confirmed` (the two confirmed messages count as one, as
  `isSonarrEpisodeUnmonitorConfirmedRecovery` treats them); all others are `other`.
- The rules, the policy, the provider evidence and the identity fingerprints are
  the nondeterministic success or failure of a check.
- A write that fails is not applied here; that a failed lease write may have been
  applied is modelled in `CleanupRunLease`.
- The operation reads `note` from the row instead of its copy of the row: while it
  owns the row nobody else writes to it, and when it does not, its writes do nothing.
- The mutation budget (`maxRemovalsPerRun`) is assumed not to bind.  The return
  that is taken when nothing was claimed passes through the empty loop instead.
- The gate is left out: the operations modelled here share it.

### CleanupRunLease

The row `runClaimToken`, `runClaimedAt`, and updates that carry the time of their
call and are applied up to `Delay` later, in any order.  `CallRenewal` stands for
the heartbeat and for `assertOwnership` before each step, which overlap: renewals
are a set of call times.  A renewal that finds another token, or fails, sets
`runLeaseLost` for good.  `Refused` includes the acquisition that was applied and
answered by an error.  `Tick` is held back by `Timely`.

### CleanupMaintenanceGate

`activeCleanupOperations`, `maintenanceActive`, `exclusiveCleanupOperationActive` per
process, and the operations that pass: scheduler ticks, which hold a guard while
their executor takes another, writes, deletions of a service, backups, restores.
A second call of a release does nothing in the code; no caller makes one.
`Restart` is any end of a process: after a restore, on request, or a crash.

### MediaServerRescan

A deletion that asks for it leaves one row per media server (`Prepare`, before the
first call to Radarr or Sonarr), and the rows are worked off after the deletion and
its audit are on record (`Execute`): by the call that executed the approval
(`FollowUp`) and by the scheduler (`Sweep`), each under the run lease of its user
(`running`).  Rows that need the same refresh of the same server share an operation
(`OperationOf`, the value of `rescanOperationKey`), also across users.

A call (`worker`) opens one approval after the other, and for each operation of the
approval it takes the lease of the operation, reads the rows that wait for it
(`Select`), claims them (`Claim`), reads them back (`Confirm`), and tries them in turn
as the one that speaks for the server (`TryCandidate`).  It sends one `Refresh` per
section of the plan, with a write of the progress and an assertion of both leases
between them, and records one outcome for all claimed rows (`Record`).  An error before
anything was acknowledged is `Fail`, which puts the rows back for a later try, with the
lease released by `Release`, the finally block; an error after a refresh was acknowledged is
`OutcomeOpen`, `RefreshFails` or `AuthorityFails` and leaves the rows claimed and the lease
in place.  A refresh that times out or is answered with an error (`RefreshFails`) is taken by
the code as not dispatched, whether or not the server carried it out: the next candidate, or
another call after the backoff of a minute, may send it again at once.  `RecordFinal` removes the rows of an approval once all
are settled and the audit has them; a removed row is `pruned`.

`covered`, `unsettled` and `strays` are history: which sections the server refreshed
since the deletion of a scan, under which token a refresh was acknowledged that has no
recorded outcome and whose lease is fresh, and how many refreshes a worker sent after
it had lost its lease.

Abstractions: the plan and the key of an operation are constants (they are stored
with the row, before the deletion, and not changed); `completedSectionIds` and
`attemptCount` are left out, the code writes them and decides nothing by them except
the length of the backoff, which is the flag `due`; the choice among the sections of a
plan is free, where the code sorts them; the deletion itself is three steps here and
`CleanupApproval` has the rest; an approval whose deletion fails stays where it is,
with its rows pending, and a second preparation finds the rows of the first.  A call
that ends on an error while it holds a lease first releases it (`FailUnread`).

### TrashDeployment

`upstream` is what the endpoint has: custom formats, one quality profile, the naming
configuration, each with one value, which tells who wrote it last.  `ledger` is the
stored backup of each deployment, `mem` the deployment's own copy of it, which it stores
as a whole (`Persist`); `row` the two history rows with their status, their undo status
(`rollbackStatus`, `undeployStatus`), the time stamp of the attempt, `rolledBack` and the
progress of a recovery; `holder` whoever holds the endpoint.  `wrote` and `lost` are
history; `lost` has the requests that ended and left a claim behind, because the releasing
write failed or because it put back the claim of another request (`PutsBackClaim`).

A deployment begins with `Begin` (the endpoint is free, the gate
`assertNoPendingDeploymentOperation` is open, the endpoint is read), `CreateBackup` and
`CreateHistory`.  Each resource is then read again and compared with the first reading
(`Changed`), its intent stored (`Intend`), written (`Write`, `WriteFails`), read back and
stored as applied (`Verify`); a resource that is created goes through `Identify` first,
and a new profile through `Identify` and `Recheck`, as it is created as a draft and then
updated.  `Capture` stores the identities of the managed formats; `Finalize`, `Fail` and
their failing forms record the outcome.  Any database write that fails may have been
applied, and so may a failing call.

A recovery request (`Undos`) claims one of the two rows (`LookUp`, `Claim`), enters the
endpoint (`Enter`), checks one resource after the other and reports each to both rows
(`CheckResource`), and concludes (`Finish`); every error leads to `Release`, which compares
the time stamp of the claim.  The routes change nothing upstream: they verify that the
user has restored what the ledger names, or that a surviving owner of the resource
expects what is there (`Outcome`), and ask to try again otherwise.  `CheckDelete` and
`Delete` are the two halves of the deletion of a history.  `Restart` is a stop at any
point together with `reconcileInterruptedDeploymentHistories` at the next start.  `Edit`
and `Restore` are the user.

Abstractions: `Begin` merges the gate and the first reading, and `Enter` the first report,
between which nobody but the user acts; a shared resource whose owner's value the target could
restore fails, because the routines the routes call for it refuse every upstream write
(there is no conditional update upstream) and the value is not there yet; ledgers
always parse, so the fallback of an ownership that cannot be verified is not there; a claim
whose write is applied and answered by an error is not modelled; the lease of the endpoint
has no heartbeat, but the in-memory set keeps deployments and recoveries of one process
apart, so `holder` is exclusive.  Parent rows of a synchronisation, the gate on saved score
overrides, connections that are aliases of one endpoint, orphaned formats and the preview
are left out; a bulk deployment is one deployment after another.

### SeerrCircuitBreaker

`circuit` is the entry of the map for one instance, `request` what each caller is doing,
`up` whether the instance answers.  An attempt that was begun while the instance was down, or
that an outage overtakes, carries `mayFail`: it may fail or time out also when the instance
is back, so a circuit may be opened once more after that.  `Check` is the first statement of `request()`; `Retry`,
`Answer`, `Refresh` and `Again` are the loop of `withSeerrRetry`, its last attempt, and the
branch that renews the CSRF credentials after a 403 and sends the request once more.
A request asks the breaker once and reports once at most, so that reports reach a circuit
that has moved on: `reportSuccess` closes an open circuit, and failures of old requests
open it anew.  `Cleanup` is the periodic one, `Restart` the process.

The circuit keeps time stamps, the model their distance from now, which is all the code
computes of them; it stops growing where no comparison can tell it apart, so the instance
has no bound on time.  Waits have no length, and which credentials a refresh finds is
left open.  `evidence` and `sinceFailure` are history.

## 3. What the runs check

| run | instance | shows |
|---|---|---|
| `approval` | 1 movie, 2 approve requests, 1 retry; 2 failed writes, 1 crash, 1 change by a user, fairness | `MutatesUnderOwnership`, `EmptyPlanMeansFileGone`, refinement of `RunLock`, `EveryStepAdvances`, `InFlightSettles` |
| `approval_stall` | 1 movie and 1 episode, 1 approve request, 1 retry; holders may stall, 1 failed write, 1 crash | `ExecutedIsTrue` for both kinds of rows, `UnattributedNeverDeleted`, `AtMostOneOverrun`, `BatchSettlesItsRows`, `FinalIsFinal`, types |
| `run_lease` | 2 operations, lease 4, heartbeat 2, delay 1, 9 ticks | `HolderLooksAlive`, refinement of `RunLock` |
| `rescan` | 1 user, 2 approvals, 2 scans of the same 2 Plex sections, 2 workers, 4 tokens; 1 failure or crash, 2 stalls | `RecordedMeansRefreshed`, `AtMostOneStray`, `NoEarlyReissue`, `EveryStepDescends`, types |
| `rescan_live` | 2 users, 2 scans of the same Jellyfin server; 2 failures or crashes, no stall, fairness | `Settles`, refinement of `RunLock` by the lease of an operation |
| `gate_one_process` | 2 ticks, 1 write, 1 deletion, 1 backup, 1 restore, 2 restarts | `GateMatchesOperations`, `NestedGuardIsGranted`, `RestoreIsAlone`, `DeletionIsAlone` |
| `gate_two_processes` | 2 processes, 1 tick, 1 restore | that `RestoreIsAlone` fails |
| `trash_deploy` | 2 deployments of 2 templates, 1 format that the second keeps, an endpoint that has neither format nor profile, 1 undeploy; 1 failure, 1 restart | `WriteAhead`, `NoWorkOnUncertain`, `RolledBackIsComplete`, `WorkRunsOut`, types |
| `trash_recover` | 1 deployment, a rollback, an undeploy and a deletion of its history; 1 failure, 1 restart, 1 change by a user | `RolledBackTogether`, `EnteredIsClaimed`, `UndeployCanBeRetried` |
| `trash_undeploy` | 1 deployment of a format, the profile and the naming that exist, 1 undeploy repeated at will; 2 failures, 1 restart, fairness | `RecoveryEnds` |
| `trash_stamp` | the same by the rollback route; 1 failure | that `ReleasedCanBeRetried` fails |
| `seerr` | 3 callers, threshold 3, window 4, cooldown 2, 3 attempts, fairness | `EvidenceCounts`, `RefusalIsRecent`, `CleanupIsInvisible`, `AttemptsRunOut`, `Recovers`, `EveryRequestEnds`, types |

Every property has a mutant in `PROJECT.json`: a definition replaced by one of the
mistakes listed in the module (recovery by age alone, an outcome written by id, a
lease remembered instead of renewed, an intent kept in memory, ...), which TLC must find.

*Bounds.*  Each row is guarded by its own token, so rows interact only through
the lease and through the batch of one operation: one row with three competing
operations, and two rows in one batch, are the two shapes there are.  A failure, a
crash and a change by a user must each be possible between any two steps; two
failed writes let the retry of the last write fail as well.  A movie's remainder is
adopted only by a second approval after a recovery, which takes two approve requests.
`InFlightSettles` also holds for `Movies = {m1}`, `Episodes = {e1}` with two approve
requests, no retry, one failed write and one crash (1.2 million states, four and a half
minutes), which is too slow to be a run.  The lease run is long
enough for an acquisition, the expiry of the lease, a second acquisition, and the
late release of the first.  A request is issued once; a later one is another
operation.  For the scans, two sections are the least for which an attempt can be cut
short in the middle, two scans the least for which one can join the attempt of the
other, two stalls let both workers lose a lease; there is a token for every attempt
that can be under way or left over, and an attempt without a free token waits.  Two
deployments are the least that can own a resource in common, and one of them that keeps
what the other wrote is the way they come to; a format, the profile and the naming are
one resource of each kind; recovery requests can be repeated without bound.  In `seerr`
three callers reach a threshold of three while all are in flight, the window is longer
than the cooldown as in the code, and time, requests and outages have no bound.
`MaxFaults`, `MaxStalls`, `MaxCrashes`, `MaxMeddling`, `MaxEdits`, `MaxRestarts` and
`MaxClock` are the only bounds on counters.

*Deadlock* is checked in `seerr`, where somebody can always issue a request.  In the other
runs it is not: requests are finite, faults are bounded, and a state in which all requests
have ended is an end of the run.

*Fairness.*  `approval` assumes that a request that is running takes its next
step (every await in the executor is answered or fails), that time passes, and
that the scheduler's interval fires (`setInterval`, once a minute, whose writes are
each caught and logged so that a failing one does not stop the others).  Nothing is
assumed of requests, users, failures and crashes, and no fairness for the lease
heartbeat.  `rescan_live` assumes that a call takes its next step, that leases and
backoffs run out, and that the scheduler's tick, which starts with
`retryAllPendingMediaServerRescans`, reaches a user again and again while there is
something to open (strong fairness: the run lease of the user is free between calls).
Nothing is assumed of follow-ups, deletions and failures; failures are bounded, so
`Settles` says what happens once they cease.  `trash_undeploy` assumes that a deployment
and a recovery under way are carried on by the event loop, and a user who follows the
messages: who restores what the ledger recorded and asks for the recovery again and again
(strong fairness for `Enter`, as the endpoint is not refused to every try).  `seerr`
assumes that time passes and that an attempt is answered, by its timeout if by nothing
else; nobody is obliged to issue a request, and the cleanup need not run.

*Stalls.*  A process that is suspended for more than two hours loses the lease
without knowing it.  The database cannot prevent that; `approval_stall` states what
the code still guarantees: the call that was authorized before the stall is made,
no further one is (`AtMostOneOverrun`), and its late write cannot reopen a row that
is final (`FinalIsFinal`).  The lease of a scan operation has no heartbeat and lasts ten
minutes, so a single slow request is a stall; `rescan` allows two of them.  What holds
then is `AtMostOneStray`, and `RecordedMeansRefreshed` holds without any exception.
`NoEarlyReissue` protects acknowledged refreshes only: until the outcome is recorded or the
lease is ten minutes old, no holder of another lease sends one for that server, be it
answered or not.  A refresh without an acknowledgement protects nothing, as the code gives
the lease back (`media-server-rescan.ts:753`, `:769`, `:939`).

### Findings

*Two processes.*  `cleanup-maintenance-gate.ts` rests its in-memory design on a lease that
"guarantees one live API process per database".  There is no such lease in the code
or the start scripts.  `gate_two_processes` shows what follows for an installation
that runs two.

*The second time stamp.*  The rollback route stamps its claim, and takes another stamp
inside the leased section for its reports.  If the section throws after a report, the
release compares the first one, changes nothing, and the row refuses every later rollback
and every later deployment until a restart, although a comment promises the retry.
`trash_stamp` shows it.  The undeploy route has one stamp and passes.

Some formulas of `TrashDeployment` state what one would expect and TLC refutes; they are
kept as a description, and a reader sees the behaviour by adding them to a configuration:

- `FinalStaysFinal` (with `TrashDeployment_undeploy.cfg`): an undeploy claims the row of a
  deployment that is still running, cannot enter the endpoint, and its release writes back
  the status read before the claim, `IN_PROGRESS`, over the final one
  (`deployment-history-routes.ts:558`).  A restart repairs it.
- `DeletedIsSettled` (with `TrashDeployment_recover.cfg`): a recovery by the other route
  claims the sync row after the deletion has checked it; what is deleted is conditional on
  the deployment row only (`deployment-history-routes.ts:385`, `:427`).
- `RestartReclassifies` (with `TrashDeployment_recover.cfg`): of a row whose status and undo
  status are both in progress the reconciliation corrects the second only, and a sync row
  whose deployment row it has classified keeps an interrupted rollback in progress
  (`deployment-operation-gate.ts:389`, `:433`).  The next restart continues.
- `NoClaimIsPutBack` (with `TrashDeployment_recover.cfg`, or with `Undos = {u1, u2}` in
  `TrashDeployment_undeploy.cfg`): an undeploy looks the row up while another request has it
  claimed; that one is released, the undeploy claims, cannot enter, and its release writes
  back what it read, an `IN_PROGRESS` nobody stands for, which refuses every later undeploy
  until a restart.  The comment at `deployment-history-routes.ts:558` means the state before
  the claim; what is restored is the one before the look.  `UndeployCanBeRetried` excepts
  exactly this and a releasing write that failed (both are in `lost`), and the second time
  stamp above.
- `ReleasedCanBeRetried` with an undeploy and a deletion of the history (`Deletable = {d1}` in
  `TrashDeployment_undeploy.cfg`): the deletion passes its checks before the claim and removes
  the deployment row after the release, and the first report, which failed but was applied,
  leaves the sync row in progress, which the undeploy route no longer reaches.
- `RecoveryEnds` with `Initial <- FormatsNew` and a restart: a creation was cut off before
  its identity was stored; no recovery can then prove that the object is gone, and the
  endpoint stays blocked.  The code says as much (`deployment-operation-gate.ts:314`).

Two remarks on what holds.  The header of `seerr-circuit-breaker.ts` speaks of a single
probe request; in the half-open state every request passes, and `Recovers` does not need
the restriction.  And after a shared resource was left to its other owner, and that owner
is undone later, the endpoint keeps the value of the first deployment: each recovery
verifies its own ledger, and no ledger remembers both.

## 4. What is proved

All for any sets of movies, episodes, operations, processes, workers, deployments,
resources, requests and callers, and for any bounds.  Every safety property of every run
that is expected to pass is stated by a theorem.

**Cleanup.**

- `LockExcludes`: the abstract lock excludes.  Its invariant is inductive as it is.
- `LeaseTyped`, `HolderNeverLooksAbandoned` and `LeaseIsALock`: `TypeOK`, `HolderLooksAlive`
  and `ImplementsRunLock` of `CleanupRunLease`, for every lease that is at least a heartbeat
  and two delays long; the types of the lease need no run beside the theorem.
  `HolderLooksAlive` is not inductive, because renewals overtake each
  other and an old one may set the time stamp back.  `LeaseInv` adds *InTime*, what is in
  flight is a delay old at most and the last call a heartbeat; *NotSetBack*, the stored
  time is a delay behind the latest renewal applied, at most; and *NoGap*, from that
  renewal on each call but the last is followed by one in flight within a heartbeat.  A heartbeat and
  twice the delay add up to the lease.
- `TypeCorrect`: `TypeOK` of `CleanupApproval`, which includes that an operation has an
  item in hand exactly while it works on one.
- `ActsUnderOwnership` (assuming `MayStall = FALSE`): `MutatesUnderOwnership`.  It is
  not inductive: the step that makes an operation act on a row was taken before.
  The invariant is `OwnershipInv`: types; *LeaseHeld*, every operation between claim and
  release owns the lease and, when the lease is stale, nobody does; and
  *ActsOnOwnRow*, every step after the authorization of an item is on a row that is
  executing under its operation's token.  The argument: recovery writes only when the
  lease is free or stale, which `LeaseHeld` excludes while an operation is under way;
  other operations write only to rows under their own tokens; and the operation gives
  its row up only by leaving the item.
- `ApprovalUsesTheLock` (assuming `MayStall = FALSE`): `ImplementsRunLock`, from the
  same invariant; every step of the lifecycle is a step of the lock or none.

- `OutcomesAreFinal`, `ExecutedMeansGone`, `ReducedPlansAreTrue`, `OverrunsAreBounded`,
  `UnattributedIsLeftAlone` and `BatchesAreSettled`: `FinalIsFinal`, `ExecutedIsTrue`,
  `EmptyPlanMeansFileGone`, `AtMostOneOverrun`, `UnattributedNeverDeleted` and
  `BatchSettlesItsRows`.  None of them assumes that holders renew in time.  They rest on
  one classification of what a step does to a row (`RowStep`: untouched, concluded,
  progressed, claimed, put back, and the writes of the routes and of recovery).
  `OutcomeInv` is what a step knows of its target and cannot lose without a lease, since
  what is gone stays gone: *FileGone* and *TargetGone*.  `OverrunStops` says where an
  operation stands after a call without the lease, `OrphanInv` that an episode whose
  unmonitor was interrupted is expired, or still executing for an operation that is dead,
  and on nobody's list; `BatchInv` that the lists of an operation are disjoint and that,
  as long as no write failed, an attempted row it still owns is the one in hand.
- `OperationsWindDown`: `EveryStepAdvances`.  The measure is, in this order, the rows still
  to be turned to, the rows claimed, and a rank of the step on the item in hand.  Failed
  calls and writes, the second look after a deletion that failed and a lost lease all come
  down in it; a step that repeats the check of an item would not.
- `GateIsExact` and `NestedIsGranted`: `GateMatchesOperations` and `NestedGuardIsGranted` of
  `CleanupMaintenanceGate`, for any processes.  `GateInv` adds *DepthOfStep*, the guards an
  operation holds at each step, *Counted*, the counter of a process is the number of guards
  held in it, *Flagged* and *Alone*, exclusive work is alone in its process.
- `RestoresAreAlone` and `DeletionsAreAlone`: `RestoreIsAlone` and `DeletionIsAlone`, from the
  same invariant, assuming that all operations have one process as their home
  (`OneProcess`).  `gate_two_processes` shows that the assumption is needed.

**Media-server rescans.**

- `TypeCorrect` of `MediaServerRescan`: `TypeOK`, with stalls and any number of failures.
- `RecordsAreTrue`: `RecordedMeansRefreshed`, with stalls as well.  The invariant adds
  *WorkKnown*, what a worker knows of its claim and cannot lose with it: the deletions of
  its scans have happened, the sections it has completed are refreshed since, it has
  completed nothing before its first refresh, and everything when it verifies.  A worker
  may record a scan that others have claimed in between only under its own token; and
  what it knows is stable, since deletions and refreshes are not undone.
- `StraysAreBounded` and `AcknowledgedIsNotRepeatedEarly`: `AtMostOneStray` and
  `NoEarlyReissue`, with stalls.  One invariant, *LeaseKnown*, carries both: tokens of
  different workers differ; an acknowledged refresh that is not recorded is protected by a fresh
  lease under its token; a worker that sent a refresh without its lease has lost the lease for good
  and is not about to send another; a worker that holds its lease and has sent nothing,
  or recorded everything, has nothing open, which is why it may release the lease.
- `CallsWindDown`: `EveryStepDescends`, with stalls and failures.  The measure nests the
  loops of a call: approvals, operations, scans to be tried, sections to be refreshed, and
  the part of the call it is in.  It needs one more invariant, *CandidatesNew*: a scan that
  is about to be tried is none of those that were, although the candidates are read again
  from the database while others join.  The one step that is excepted is an error that
  leaves the loops altogether.
- `OperationLeaseIsALock` (assuming `MaxStalls = 0`): `ImplementsOperationLock`, the lease of
  every operation refines `RunLock`.  `FirmInv` adds to `LeaseInv` that whoever is in an
  operation has its lease, and the lease is fresh; without stalls only its holder gives it
  up.  With them this is false, and `StraysAreBounded` is what remains.

**TRaSH deployments.**

- `WritesAhead`: `WriteAhead` of `TrashDeployment`, for any deployments, resources,
  failures, restarts and changes by users.  The invariant `WriteAheadInv` adds the types
  of the ledgers; *ItemKnown*, the resource a deployment is working on has its intent in
  memory and in the store; and *MemoryKnows*, a deployment that is under way has
  everything it wrote in memory, which is why storing its copy as a whole loses nothing.
  Every step is shown to extend the ledger: an entry, once there, is never dropped.
- `NothingOnUncertain`, `RowsAgree` and `ClaimsLast`: `NoWorkOnUncertain`,
  `RolledBackTogether` and `EnteredIsClaimed` of `TrashDeployment`.  One invariant,
  `RowInv`, carries all three and needs `WriteAheadInv`.  Its parts: *Exclusive*, who
  holds the endpoint is at work and nobody else is; *Certain*, while a deployment is at
  work, nothing of the others is both unverified and recoverable; *Together*, a
  deployment row comes after its sync row and agrees with it on being rolled back;
  *Early*, until the second row is written there is none and the first is not rolled
  back; *DeletingKnown* and *PriorKnown*, what a deletion and a recovery request have
  read before they act was a row that existed.  The argument: most steps are *gentle*,
  they change what is noted in a row and neither whether it exists nor whether it is
  rolled back, and a gentle step keeps what the parts say of rows.  Four steps are not:
  the two that add a row (nobody was inside and the row was not there), the end of a
  recovery (it marks every row there is, while nobody else is inside) and the deletion
  (nothing becomes recoverable by it).  `Certain` starts with the gate: `WriteAhead`
  says that an unverified change is recorded, hence pending, which the gate refuses.

- `RollbacksAreComplete`: `RolledBackIsComplete`.  `CompleteInv` adds *Working*, a request
  that has entered has in its progress, as finished or still to be checked, everything
  the deployment wrote, and a failed check is in it until the end; *Sealed*, what is rolled
  back is over, exists and has everything finished; *Unwritten*, a deployment that has
  just begun has no row.  It rests on `WriteAhead`: a request works from the ledger.
- `DeploymentTyped`: `TypeOK`, from all the invariants above and `RestInv`, for a finite set of
  deployments (the type bounds `age` by their number).
- `UndeploysAreRetried`: `UndeployCanBeRetried`, for any number of requests of both routes for
  one deployment, deletions, failures and restarts.  `RetryInv`: *InHand*, the undo status of a
  deployment row that is not rolled back is one that can be claimed, or it is in progress and
  *Explained*: an undeploy of it is under way and the stamp is its own, one that ended left a
  claim behind, or the stamp is that of a rollback's report; *ReadBack*, what an undeploy has
  read and may put back is a status that can be claimed, or in progress, never the end of a
  recovery.  A release that puts back "in progress" puts its request into `lost`, which is the
  second explanation; every other step leaves the explanations of other requests alone.
- `WorkWindsDown`: `WorkRunsOut`.  A deployment counts the formats it has to come to and the
  steps from where it is; a request counts its resources and its steps.  The second write
  of a profile comes back to an earlier step, so the invariant `InSteps` is needed: a
  profile that is checked again has its identity in memory, which makes the second write
  the last, and a format in hand is still on the list it is struck from.

**The circuit breaker.**

- `RefusalsAreRecent` and `CleanupsAreInvisible`: `RefusalIsRecent` and `CleanupIsInvisible`, from
  `BreakerInv`: a circuit that still refuses was opened by a failure, at or after it.
- `BreakerTyped` and `EvidenceIsCounted`: `TypeOK` and `EvidenceCounts`.  `CountInv` says that the
  evidence is what the list of failures holds once it is pruned, and that the list is
  ordered by time and shorter than the threshold.  The lemmas show that pruning drops a
  prefix of such a list (`CutExists`, `RecentIs`) and commutes with adding a failure and with
  the passing of time (`RecentOfAdded`, `RecentOfOlder`), so it does not matter that the code
  prunes only when it adds.  That there is a prefix to drop is an induction over its length;
  `SetInduction` states induction as a fact about sets, from the well-foundedness of the
  natural numbers.

- `RequestsRunOut`: `AttemptsRunOut`.  An admitted request has at most two more steps than
  it has attempts left, and each outcome, the refused credentials included, takes one.

The four theorems named after winding down and running out are the part of liveness that
needs no fairness: no step goes back, so over finite sets of rows, scans, formats and
resources no operation, call, deployment, recovery or request takes steps for ever.  What
`InFlightSettles`, `Settles`, `RecoveryEnds` and `EveryRequestEnds` add is that the steps
are taken, and what the scheduler and the users do afterwards.

The proofs rest on the ASSUMEs of the modules (disjoint sets, finite items and deployments,
natural bounds, `KindsAreDisjoint` of the gate, `AbsentIsNoCircuit` of the breaker), which
TLC evaluates in every run, and on the hypotheses named above: `MayStall = FALSE`,
`OneProcess`, `MaxStalls = 0`.  The runs `approval`, `gate_one_process` and
`rescan_live` are instances that meet them.

Model-checked only: liveness (`InFlightSettles`, `Settles`, `RecoveryEnds`, `Recovers`,
`EveryRequestEnds`), which needs fairness and ENABLED and so is beyond the prover used; and
the two runs that expect a violation.

## 5. Plan

In this order, most important first.

1. `MediaServerRescan`: model the preparation that finds rows of an earlier attempt, and
   starvation by an approval whose audit record can never be written.
2. `TrashDeployment`: model the parent rows of a synchronisation and the gate on saved score
   overrides.
3. `SchedulerRegistry`, `AutoTagLock`: small state machines with concurrent callers.
4. The cleanup run itself: the mutation budget, the queueing of approvals, rejection
   memory, topology and policy writes under the lease without a heartbeat.
5. Later: provider evidence and its withdrawal, hunting limits, queue-cleaner strikes,
   notification retry.

Not planned, because a model would restate data processing or wiring: rule
evaluation, template merging, formatting, routes, the web interface, the generated
client.
