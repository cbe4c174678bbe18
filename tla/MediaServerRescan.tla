------------------------ MODULE MediaServerRescan ------------------------
(***************************************************************************)
(* The library scans a media server runs after a cleanup deletion          *)
(* (lib/library-cleanup/media-server-rescan.ts).  A scan is a durable row  *)
(* written before its deletion and worked off afterwards by whichever      *)
(* worker comes first.  Scans that need the same refresh of the same       *)
(* server share an operation: a worker takes the lease of the operation,   *)
(* claims every scan of its user that waits for it, refreshes the sections *)
(* of the plan one by one, and records one outcome for all of them.        *)
(*                                                                         *)
(* What the server did cannot be taken back or asked: once it has          *)
(* acknowledged a refresh, a failure leaves the scans claimed and the      *)
(* lease in place, and the work is done again after the lease has expired. *)
(* A refresh that times out or is answered with an error counts as not     *)
(* sent, though the server may have carried it out: if nothing was         *)
(* acknowledged before it, the next candidate is tried at once, or the     *)
(* scans fail, the lease is released, and they are tried again after the   *)
(* backoff.                                                                *)
(***************************************************************************)
EXTENDS FiniteSets, Integers

CONSTANTS
  Users, NoUser,
  Approvals,         \* numbers, for the order in which approvals are read
  Scans, NoScan,
  Operations, NoOperation,
  Workers, NoWorker, \* calls that work off scans: sweeps and executions
  Tokens, NoToken,   \* execution tokens: randomUUID()
  UserOf,            \* the user of an approval
  ApprovalOf,        \* the approval of a scan
  OperationOf,       \* rescanOperationKey of a scan
  Plan,              \* plannedSectionIds of an operation; one library elsewhere
  PlexOperations,    \* operations of Plex servers; the others refresh it all
  MaxFaults,         \* failing requests, failing writes and crashes
  MaxStalls          \* leases that expire although their worker lives

ASSUME ScansAreWellFormed ==
  /\ UserOf \in [Approvals -> Users]
  /\ ApprovalOf \in [Scans -> Approvals]
  /\ OperationOf \in [Scans -> Operations]

\* Servers other than Plex are refreshed as a whole, by one request.
ASSUME OneLibraryElsewhere ==
  \A o \in Operations \ PlexOperations : \E x \in Plan[o] : Plan[o] = {x}

ASSUME SentinelsAreDistinct ==
  /\ NoUser \notin Users
  /\ NoScan \notin Scans
  /\ NoOperation \notin Operations
  /\ NoToken \notin Tokens
  /\ NoWorker \notin Workers

ASSUME BoundsAreNumbers == Approvals \subseteq Nat /\ {MaxFaults, MaxStalls} \subseteq Nat

VARIABLES
  approval,   \* "queued", "prepared", "deleted" or "executed"
  audited,    \* approvals whose terminalAuditRecordedAt is set
  scan,       \* rows of library_cleanup_media_server_scans
  lease,      \* rows of library_cleanup_media_server_scan_leases
  running,    \* the worker whose cleanup run holds a user's run lease
  worker,     \* the local state of each call
  faults, stalls,
  covered,    \* history: sections refreshed since the deletion of a scan
  unsettled,  \* history: whose acknowledged refresh of an operation has no
              \* recorded outcome, while the lease it was sent under is fresh
  strays      \* history: refreshes a worker sent after its lease was reclaimed

vars == <<approval, audited, scan, lease, running, worker, faults, stalls,
          covered, unsettled, strays>>

history == <<covered, unsettled, strays>>

Sections == UNION {Plan[o] : o \in Operations}

Idle == [pc |-> "idle", user |-> NoUser, todo |-> {}, operations |-> {},
         operation |-> NoOperation, token |-> NoToken, claimed |-> {},
         tried |-> {}, candidate |-> NoScan, completed |-> {},
         authorityFailed |-> FALSE, affected |-> {}]

Absent == [status |-> "absent", token |-> NoToken, due |-> TRUE]

NoLease == [token |-> NoToken, stale |-> FALSE]

Init ==
  /\ approval = [a \in Approvals |-> "queued"]
  /\ audited = {}
  /\ scan = [s \in Scans |-> Absent]
  /\ lease = [o \in Operations |-> NoLease]
  /\ running = [u \in Users |-> NoWorker]
  /\ worker = [w \in Workers |-> Idle]
  /\ faults = MaxFaults
  /\ stalls = MaxStalls
  /\ covered = [s \in Scans |-> {}]
  /\ unsettled = [o \in Operations |-> NoToken]
  /\ strays = [w \in Workers |-> 0]

-----------------------------------------------------------------------------
\* What the code reads of the scans.

ScansOf(a) == {s \in Scans : ApprovalOf[s] = a}

\* A mistake: scans a crashed worker left behind are not taken up.
WaitingUnclaimed == {"pending", "failed"}

Waiting == {"pending", "failed", "triggering"}

\* candidateScanWhere
Candidate(s) == scan[s].status \in Waiting

\* filterDatabaseEligibleScans
Eligible(s) == Candidate(s) /\ (scan[s].status = "failed" => scan[s].due)

Settled(s) == scan[s].status \in {"triggered", "skipped"}

Owned(s, t) == scan[s].status = "triggering" /\ scan[s].token = t

\* A mistake: scans that only wait for their deletion are claimed with the rest.
DeletedOrPlanned(s, u) == UserOf[ApprovalOf[s]] = u /\ scan[s].status # "absent"

\* A scan of this user whose deletion has happened and is on record.
Deleted(s, u) ==
  LET a == ApprovalOf[s]
  IN UserOf[a] = u /\ approval[a] = "executed" /\ a \in audited

\* equivalentTargets
Equivalent(o, u) ==
  {s \in Scans : OperationOf[s] = o /\ Eligible(s) /\ Deleted(s, u)}

\* The approvals a call opens: those with nothing left but their clean-up,
\* and for each operation the first approval that waits for it.
ApprovalsToOpen(as) ==
  LET waiting == {s \in Scans : ApprovalOf[s] \in as /\ Eligible(s)}
      first(o) == {ApprovalOf[s] : s \in {x \in waiting : OperationOf[x] = o}}
  IN {a \in as : (\E s \in ScansOf(a) : Settled(s))
                   /\ \A s \in ScansOf(a) : Settled(s)}
       \cup {a \in as : \E o \in Operations :
               a \in first(o) /\ \A b \in first(o) : a <= b}

-----------------------------------------------------------------------------
\* The deletions that ask for scans, as the executor performs them.

\* prepareMediaServerRescans, before the first request to Radarr or Sonarr.
Prepare(a) ==
  /\ approval[a] = "queued"
  /\ approval' = [approval EXCEPT ![a] = "prepared"]
  /\ scan' = [s \in Scans |-> IF s \in ScansOf(a)
                THEN [status |-> "pending", token |-> NoToken, due |-> TRUE] ELSE scan[s]]
  /\ UNCHANGED <<audited, lease, running, worker, faults, stalls, history>>

Delete(a) ==
  /\ approval[a] = "prepared"
  /\ approval' = [approval EXCEPT ![a] = "deleted"]
  /\ UNCHANGED <<audited, scan, lease, running, worker, faults, stalls, history>>

\* The outcome is written, and its audit record follows if it can.
Execute(a) ==
  /\ approval[a] = "deleted"
  /\ approval' = [approval EXCEPT ![a] = "executed"]
  /\ \/ audited' = audited \cup {a}
     \/ UNCHANGED audited
  /\ UNCHANGED <<scan, lease, running, worker, faults, stalls, history>>

-----------------------------------------------------------------------------
\* Leases.

Alive(w, u) == worker[w].pc # "idle" /\ worker[w].user = u

\* The token of the operation the worker is in.
Works(w, o) == worker[w].pc # "idle" /\ worker[w].operation = o

HoldsLease(w) == lease[worker[w].operation].token = worker[w].token

\* A mistake: the worker trusts the lease it was once given.
LeasesRemembered(w) == worker[w].token # NoToken

\* assertExecutionLease and assertRescanOperationLease
LeasesHeld(w) == running[worker[w].user] = w /\ HoldsLease(w)

Renew(w) == lease' = [lease EXCEPT ![worker[w].operation].stale = FALSE]

\* Mistakes: the lease of a call that has ended is taken at once; any is.
LeaseFreeIfEnded(o) == \A w \in Workers : ~Works(w, o)
LeaseFreeAlways(o) == o \in Operations

LeaseFree(o) == lease[o].token = NoToken \/ lease[o].stale

\* Ten minutes pass without a renewal; for a worker that lives, in a stall.
LeaseExpires(o) ==
  /\ lease[o].token # NoToken
  /\ ~lease[o].stale
  /\ LET stalled == \E w \in Workers : Works(w, o) /\ worker[w].token = lease[o].token
     IN /\ stalled => stalls > 0
        /\ stalls' = IF stalled THEN stalls - 1 ELSE stalls
  /\ lease' = [lease EXCEPT ![o].stale = TRUE]
  /\ unsettled' = [unsettled EXCEPT ![o] = NoToken]
  /\ UNCHANGED <<approval, audited, scan, running, worker, faults, covered, strays>>

BackoffElapses(s) ==
  /\ scan[s].status = "failed"
  /\ ~scan[s].due
  /\ scan' = [scan EXCEPT ![s].due = TRUE]
  /\ UNCHANGED <<approval, audited, lease, running, worker, faults, stalls, history>>

-----------------------------------------------------------------------------
\* One call: the approvals of a user, one after the other.

Executed(u) == {a \in Approvals : UserOf[a] = u /\ approval[a] = "executed"}

\* Under the run lease of the user, which a live run loses only in a stall.
Start(w, u, as) ==
  /\ worker[w].pc = "idle"
  /\ LET stalled == running[u] # NoWorker /\ Alive(running[u], u)
     IN /\ stalled => stalls > 0
        /\ stalls' = IF stalled THEN stalls - 1 ELSE stalls
  /\ ApprovalsToOpen(as) # {}
  /\ running' = [running EXCEPT ![u] = w]
  /\ worker' = [worker EXCEPT ![w] =
       [Idle EXCEPT !.pc = "next", !.user = u, !.todo = ApprovalsToOpen(as)]]
  /\ UNCHANGED <<approval, audited, scan, lease, faults, history>>

\* retryPendingMediaServerRescans
Sweep(w, u) == Start(w, u, Executed(u))

\* triggerCoalescedMediaServerRescans, for the approvals just executed
FollowUp(w, u) == \E as \in SUBSET Executed(u) : Start(w, u, as)

\* ensureTerminalAuditRecorded succeeds, and the scans of the approval are read.
Open(w, a) ==
  LET eligible == {s \in ScansOf(a) : Eligible(s)}
      none == eligible = {}
  IN /\ worker[w].pc = "next"
     /\ ~worker[w].authorityFailed
     /\ a \in worker[w].todo
     /\ audited' = audited \cup {a}
     /\ worker' = [worker EXCEPT
          ![w].todo = @ \ {a},
          ![w].operations = {OperationOf[s] : s \in eligible},
          ![w].affected = IF none THEN {a} ELSE {},
          ![w].pc = IF none THEN "final" ELSE "operation"]
     /\ UNCHANGED <<approval, scan, lease, running, faults, stalls, history>>

AuditUnavailable(w, a) ==
  /\ worker[w].pc = "next"
  /\ ~worker[w].authorityFailed
  /\ a \in worker[w].todo \ audited
  /\ faults > 0
  /\ faults' = faults - 1
  /\ worker' = [worker EXCEPT ![w].todo = @ \ {a}]
  /\ UNCHANGED <<approval, audited, scan, lease, running, stalls, history>>

\* recordFinalRescanState: rows that are all settled are removed, once the
\* audit has them.
RecordFinal(w, a) ==
  /\ worker[w].pc = "final"
  /\ a \in worker[w].affected
  /\ worker' = [worker EXCEPT ![w].affected = @ \ {a}]
  /\ \/ /\ \A s \in ScansOf(a) : Settled(s)
        /\ scan' = [s \in Scans |-> IF s \in ScansOf(a)
                      THEN [scan[s] EXCEPT !.status = "pruned"] ELSE scan[s]]
        /\ UNCHANGED faults
     \/ /\ \E s \in ScansOf(a) : ~Settled(s)
        /\ UNCHANGED <<scan, faults>>
     \/ /\ faults > 0
        /\ faults' = faults - 1
        /\ UNCHANGED scan
  /\ UNCHANGED <<approval, audited, lease, running, stalls, history>>

FinalDone(w) ==
  /\ worker[w].pc = "final"
  /\ worker[w].affected = {}
  /\ worker' = [worker EXCEPT ![w].pc = "next"]
  /\ UNCHANGED <<approval, audited, scan, lease, running, faults, stalls, history>>

\* An error outside an operation ends the call; the run lease is released.
CallFails(w) ==
  /\ worker[w].pc \in {"next", "operation", "final"}
  /\ faults > 0
  /\ faults' = faults - 1
  /\ worker' = [worker EXCEPT ![w] = [Idle EXCEPT !.pc = "next", !.user = worker[w].user]]
  /\ UNCHANGED <<approval, audited, scan, lease, running, stalls, history>>

Finish(w) ==
  /\ worker[w].pc = "next"
  /\ worker[w].todo = {} \/ worker[w].authorityFailed
  /\ worker' = [worker EXCEPT ![w] = Idle]
  /\ running' = [u \in Users |->
       IF u = worker[w].user /\ running[u] = w THEN NoWorker ELSE running[u]]
  /\ UNCHANGED <<approval, audited, scan, lease, faults, stalls, history>>

Crash(w) ==
  /\ worker[w].pc # "idle"
  /\ faults > 0
  /\ faults' = faults - 1
  /\ worker' = [worker EXCEPT ![w] = Idle]
  /\ UNCHANGED <<approval, audited, scan, lease, running, stalls, history>>

-----------------------------------------------------------------------------
\* One operation: its lease, the claim of its scans, the refreshes, the record.

\* A mistake: the next operation starts under the token of the last.
LeaveWithToken(w) ==
  [worker[w] EXCEPT !.pc = "operation", !.operation = NoOperation, !.claimed = {},
                    !.tried = {}, !.candidate = NoScan, !.completed = {}]

\* The worker leaves the operation.  A call ends with the first operation whose
\* server has lost its authority.
Leave(w) ==
  [worker[w] EXCEPT !.pc = IF worker[w].authorityFailed THEN "final" ELSE "operation",
                    !.operation = NoOperation, !.token = NoToken, !.claimed = {},
                    !.tried = {}, !.candidate = NoScan, !.completed = {}]

\* The finally block keeps the lease of a dispatch that has no recorded outcome.
LeaveAmbiguous(w) == worker' = [worker EXCEPT ![w] = Leave(w)]

Unused(t) ==
  /\ \A s \in Scans : scan[s].token # t
  /\ \A o \in Operations : lease[o].token # t /\ unsettled[o] # t
  /\ \A w \in Workers : worker[w].token # t

\* acquireRescanOperationLease, under a new token
AcquireOperation(w, o, t) ==
  /\ worker[w].pc = "operation"
  /\ o \in worker[w].operations
  /\ LeaseFree(o)
  /\ Unused(t)
  /\ lease' = [lease EXCEPT ![o] = [token |-> t, stale |-> FALSE]]
  /\ worker' = [worker EXCEPT ![w].pc = "select", ![w].operation = o, ![w].token = t,
                              ![w].operations = @ \ {o}]
  /\ strays' = [strays EXCEPT ![w] = 0]
  /\ UNCHANGED <<approval, audited, scan, running, faults, stalls, covered, unsettled>>

SkipOperation(w, o) ==
  /\ worker[w].pc = "operation"
  /\ o \in worker[w].operations
  /\ ~LeaseFree(o)
  /\ worker' = [worker EXCEPT ![w].operations = @ \ {o}]
  /\ UNCHANGED <<approval, audited, scan, lease, running, faults, stalls, history>>

OperationsDone(w) ==
  /\ worker[w].pc = "operation"
  /\ worker[w].operations = {}
  /\ worker' = [worker EXCEPT ![w].pc = "final"]
  /\ UNCHANGED <<approval, audited, scan, lease, running, faults, stalls, history>>

\* The scans the operation would serve are read, ...
Select(w) ==
  LET found == Equivalent(worker[w].operation, worker[w].user)
  IN /\ worker[w].pc = "select"
     /\ worker' = [worker EXCEPT ![w].claimed = found,
                                 ![w].pc = IF found = {} THEN "release" ELSE "claim"]
     /\ UNCHANGED <<approval, audited, scan, lease, running, faults, stalls, history>>

\* ... claimed, whatever their state has become meanwhile, ...
Claim(w) ==
  LET found == {s \in worker[w].claimed : Candidate(s)}
  IN /\ worker[w].pc = "claim"
     /\ scan' = [s \in Scans |-> IF s \in found
          THEN [status |-> "triggering", token |-> worker[w].token, due |-> TRUE]
          ELSE scan[s]]
     /\ worker' = [worker EXCEPT ![w].claimed = found,
                                 ![w].pc = IF found = {} THEN "release" ELSE "confirm"]
     /\ UNCHANGED <<approval, audited, lease, running, faults, stalls, history>>

OwnsClaim(w) == \A s \in worker[w].claimed : Owned(s, worker[w].token)

\* ... and read back, with the start of the request on record.  Either can find
\* that others have claimed some of them.
Confirm(w) ==
  /\ worker[w].pc = "confirm"
  /\ \E readBack \in {worker[w].claimed, {}} :
       /\ OwnsClaim(w) => readBack = worker[w].claimed
       /\ worker' = [worker EXCEPT
            ![w].affected = @ \cup {ApprovalOf[s] : s \in readBack},
            ![w].pc = IF OwnsClaim(w) THEN "candidate" ELSE "fail"]
  /\ UNCHANGED <<approval, audited, scan, lease, running, faults, stalls, history>>

\* An error before anything was sent.
PreparationFails(w) ==
  /\ worker[w].pc \in {"select", "claim", "confirm"}
  /\ faults > 0
  /\ faults' = faults - 1
  /\ worker' = [worker EXCEPT ![w].pc = "fail"]
  /\ UNCHANGED <<approval, audited, scan, lease, running, stalls, history>>

\* A scan speaks for the operation: its server is known and both leases hold.
\* A Plex plan without sections needs no refresh.
TryCandidate(w, s) ==
  /\ worker[w].pc = "candidate"
  /\ s \in worker[w].claimed \ worker[w].tried
  /\ LeasesHeld(w)
  /\ Renew(w)
  /\ worker' = [worker EXCEPT ![w].candidate = s,
       ![w].pc = IF Plan[worker[w].operation] = {} THEN "verify" ELSE "refresh"]
  /\ UNCHANGED <<approval, audited, scan, running, faults, stalls, history>>

\* Its server or a planned section is not available: the next scan is tried.
CandidateUnavailable(w, s) ==
  /\ worker[w].pc = "candidate"
  /\ s \in worker[w].claimed \ worker[w].tried
  /\ faults > 0
  /\ faults' = faults - 1
  /\ worker' = [worker EXCEPT ![w].tried = @ \cup {s}]
  /\ UNCHANGED <<approval, audited, scan, lease, running, stalls, history>>

\* A mistake: when none is left, the scans of the operation are read again.
CandidatesReread(w) ==
  /\ worker[w].pc = "candidate"
  /\ worker[w].claimed \subseteq worker[w].tried
  /\ worker' = [worker EXCEPT ![w].pc = "select", ![w].tried = {}]
  /\ UNCHANGED <<approval, audited, scan, lease, running, faults, stalls, history>>

CandidatesExhausted(w) ==
  /\ worker[w].pc = "candidate"
  /\ worker[w].claimed \subseteq worker[w].tried
  /\ worker' = [worker EXCEPT ![w].pc = "fail"]
  /\ UNCHANGED <<approval, audited, scan, lease, running, faults, stalls, history>>

\* assertCurrentProviderScanAuthority reports every failure, also a lost lease,
\* as a change of authority.
AuthorityFails(w) ==
  /\ worker[w].pc \in {"candidate", "section"}
  /\ \/ ~LeasesHeld(w) /\ UNCHANGED faults
     \/ faults > 0 /\ faults' = faults - 1
  /\ worker' = [worker EXCEPT ![w] =
       IF worker[w].completed = {}
         THEN [worker[w] EXCEPT !.authorityFailed = TRUE, !.pc = "fail"]
         ELSE [Leave(w) EXCEPT !.authorityFailed = TRUE, !.pc = "final"]]
  /\ UNCHANGED <<approval, audited, scan, lease, running, stalls, history>>

\* The server refreshes a section: it drops what was deleted until now.  The
\* code takes a refresh as dispatched when the server has acknowledged it.
CoveredBy(o, x) ==
  [s \in Scans |-> IF OperationOf[s] = o /\ approval[ApprovalOf[s]] \in {"deleted", "executed"}
                     THEN covered[s] \cup {x} ELSE covered[s]]

Stray(w) == [strays EXCEPT ![w] = IF HoldsLease(w) THEN @ ELSE @ + 1]

Refresh(w, x) ==
  LET o == worker[w].operation
  IN /\ worker[w].pc = "refresh"
     /\ x \in Plan[o] \ worker[w].completed
     /\ covered' = CoveredBy(o, x)
     /\ unsettled' = [unsettled EXCEPT ![o] =
          IF HoldsLease(w) /\ ~lease[o].stale THEN worker[w].token ELSE @]
     /\ strays' = Stray(w)
     /\ worker' = [worker EXCEPT ![w].completed = @ \cup {x},
                     ![w].pc = IF o \in PlexOperations THEN "progress" ELSE "verify"]
     /\ UNCHANGED <<approval, audited, scan, lease, running, faults, stalls>>

\* The request times out or is answered with an error; the server may have
\* carried it out, but the code takes it as not dispatched.
RefreshFails(w, x) ==
  LET o == worker[w].operation
  IN /\ worker[w].pc = "refresh"
     /\ x \in Plan[o] \ worker[w].completed
     /\ faults > 0
     /\ faults' = faults - 1
     /\ covered' = CoveredBy(o, x) \/ UNCHANGED covered
     /\ worker' = [worker EXCEPT ![w] =
          IF worker[w].completed = {}
            THEN [worker[w] EXCEPT !.tried = worker[w].tried \cup {worker[w].candidate},
                                   !.pc = "candidate"]
            ELSE Leave(w)]
     /\ strays' = Stray(w)
     /\ UNCHANGED <<approval, audited, scan, lease, running, stalls, unsettled>>

\* The progress of the plan is written to the scan that speaks for it.
RecordProgress(w) ==
  /\ worker[w].pc = "progress"
  /\ Owned(worker[w].candidate, worker[w].token)
  /\ worker' = [worker EXCEPT ![w].pc =
       IF worker[w].completed = Plan[worker[w].operation] THEN "verify" ELSE "section"]
  /\ UNCHANGED <<approval, audited, scan, lease, running, faults, stalls, history>>

\* Before the next section both leases are asserted again.
NextSection(w) ==
  /\ worker[w].pc = "section"
  /\ LeasesHeld(w)
  /\ Renew(w)
  /\ worker' = [worker EXCEPT ![w].pc = "refresh"]
  /\ UNCHANGED <<approval, audited, scan, running, faults, stalls, history>>

\* Before the outcome is written, too.
Verify(w) ==
  /\ worker[w].pc = "verify"
  /\ LeasesHeld(w)
  /\ Renew(w)
  /\ worker' = [worker EXCEPT ![w].pc = "record"]
  /\ UNCHANGED <<approval, audited, scan, running, faults, stalls, history>>

\* Whatever fails after a dispatch leaves the outcome open.
OutcomeOpen(w) ==
  /\ \/ worker[w].pc = "progress" /\ ~Owned(worker[w].candidate, worker[w].token)
        /\ UNCHANGED faults
     \/ worker[w].pc = "verify" /\ ~LeasesHeld(w) /\ UNCHANGED faults
     \/ /\ worker[w].pc \in {"progress", "verify", "record"}
        /\ faults > 0
        /\ faults' = faults - 1
  /\ LeaveAmbiguous(w)
  /\ UNCHANGED <<approval, audited, scan, lease, running, stalls, history>>

Outcome(o) == IF Plan[o] = {} THEN "skipped" ELSE "triggered"

\* One update for all claimed scans.  If some were claimed by others meanwhile,
\* the lease stays.
Record(w) ==
  LET o == worker[w].operation
      t == worker[w].token
      mine == {s \in worker[w].claimed : Owned(s, t)}
  IN /\ worker[w].pc = "record"
     /\ scan' = [s \in Scans |-> IF s \in mine
          THEN [status |-> Outcome(o), token |-> NoToken, due |-> TRUE] ELSE scan[s]]
     /\ worker' = [worker EXCEPT ![w] =
          IF OwnsClaim(w) THEN [worker[w] EXCEPT !.pc = "release"] ELSE Leave(w)]
     /\ unsettled' = [unsettled EXCEPT ![o] = IF @ = t THEN NoToken ELSE @]
     /\ UNCHANGED <<approval, audited, lease, running, faults, stalls, covered, strays>>

\* Nothing was sent: the scans wait for their next attempt, unless even this
\* cannot be written, ...
Fail(w) ==
  LET mine == {s \in Scans : Owned(s, worker[w].token)}
  IN /\ worker[w].pc = "fail"
     /\ worker' = [worker EXCEPT ![w].pc = "release",
                     ![w].affected = @ \cup {ApprovalOf[s] : s \in mine}]
     /\ \/ /\ scan' = [s \in Scans |-> IF s \in mine
                THEN [status |-> "failed", token |-> NoToken, due |-> FALSE] ELSE scan[s]]
           /\ UNCHANGED faults
        \/ /\ faults > 0
           /\ faults' = faults - 1
           /\ UNCHANGED scan
     /\ UNCHANGED <<approval, audited, lease, running, stalls, history>>

\* ... or not even they can be read: the call ends, once its lease is released.
FailUnread(w) ==
  /\ worker[w].pc = "fail"
  /\ faults > 0
  /\ faults' = faults - 1
  /\ worker' = [worker EXCEPT ![w].pc = "release", ![w].todo = {},
                              ![w].operations = {}, ![w].affected = {}]
  /\ UNCHANGED <<approval, audited, scan, lease, running, stalls, history>>

\* releaseRescanOperationLease deletes the lease only under its own token.
Release(w) ==
  /\ worker[w].pc = "release"
  /\ \/ /\ lease' = IF HoldsLease(w)
              THEN [lease EXCEPT ![worker[w].operation] = NoLease] ELSE lease
        /\ UNCHANGED faults
     \/ /\ faults > 0
        /\ faults' = faults - 1
        /\ UNCHANGED lease
  /\ worker' = [worker EXCEPT ![w] = Leave(w)]
  /\ UNCHANGED <<approval, audited, scan, running, stalls, history>>

-----------------------------------------------------------------------------
\* What a call does by itself, and what it does when something fails.

Proceeds(w) ==
  \/ \E a \in Approvals : Open(w, a) \/ RecordFinal(w, a)
  \/ FinalDone(w) \/ Finish(w)
  \/ \E o \in Operations : (\E t \in Tokens : AcquireOperation(w, o, t)) \/ SkipOperation(w, o)
  \/ OperationsDone(w) \/ Select(w) \/ Claim(w) \/ Confirm(w)
  \/ \E s \in Scans : TryCandidate(w, s)
  \/ CandidatesExhausted(w) \/ AuthorityFails(w)
  \/ \E x \in Sections : Refresh(w, x)
  \/ RecordProgress(w) \/ NextSection(w) \/ Verify(w) \/ OutcomeOpen(w)
  \/ Record(w) \/ Fail(w) \/ Release(w)

Suffers(w) ==
  \/ \E a \in Approvals : AuditUnavailable(w, a)
  \/ CallFails(w) \/ Crash(w) \/ PreparationFails(w) \/ FailUnread(w)
  \/ \E s \in Scans : CandidateUnavailable(w, s)
  \/ \E x \in Sections : RefreshFails(w, x)

Next ==
  \/ \E a \in Approvals : Prepare(a) \/ Delete(a) \/ Execute(a)
  \/ \E o \in Operations : LeaseExpires(o)
  \/ \E s \in Scans : BackoffElapses(s)
  \/ \E w \in Workers : (\E u \in Users : FollowUp(w, u)) \/ Proceeds(w) \/ Suffers(w)

Spec == Init /\ [][Next]_vars

\* Steps of a call follow each other, the scheduler sweeps every minute, and
\* time passes.
Fairness ==
  /\ \A w \in Workers : WF_vars(Proceeds(w))
  /\ \A u \in Users : SF_vars(\E w \in Workers : Sweep(w, u))
  /\ \A o \in Operations : WF_vars(LeaseExpires(o))
  /\ \A s \in Scans : WF_vars(BackoffElapses(s))

LiveSpec == Spec /\ Fairness

-----------------------------------------------------------------------------
OperationSteps == {"select", "claim", "confirm", "candidate", "refresh", "progress",
                   "section", "verify", "record", "fail", "release"}

Steps == OperationSteps \cup {"idle", "next", "operation", "final"}

Statuses == {"absent", "pending", "triggering", "triggered", "skipped", "failed", "pruned"}

Locals ==
  [pc : Steps, user : Users \cup {NoUser}, todo : SUBSET Approvals,
   operations : SUBSET Operations, operation : Operations \cup {NoOperation},
   token : Tokens \cup {NoToken}, claimed : SUBSET Scans, tried : SUBSET Scans,
   candidate : Scans \cup {NoScan}, completed : SUBSET Sections,
   authorityFailed : BOOLEAN, affected : SUBSET Approvals]

\* A scan carries a token exactly while it is claimed.
RowsOK ==
  /\ approval \in [Approvals -> {"queued", "prepared", "deleted", "executed"}]
  /\ audited \subseteq Approvals
  /\ scan \in [Scans -> [status : Statuses, token : Tokens \cup {NoToken}, due : BOOLEAN]]
  /\ \A s \in Scans : scan[s].status = "triggering" <=> scan[s].token # NoToken
  /\ lease \in [Operations -> [token : Tokens \cup {NoToken}, stale : BOOLEAN]]
  /\ running \in [Users -> Workers \cup {NoWorker}]

\* A worker has an operation and a token exactly while it is in an operation.
WorkersOK ==
  /\ worker \in [Workers -> Locals]
  /\ \A w \in Workers :
       /\ worker[w].pc \in OperationSteps <=> worker[w].operation # NoOperation
       /\ worker[w].pc \in OperationSteps <=> worker[w].token # NoToken
       /\ worker[w].pc \in {"refresh", "progress", "section"} => worker[w].candidate # NoScan

CountsOK == faults \in 0..MaxFaults /\ stalls \in 0..MaxStalls

HistoryOK ==
  /\ covered \in [Scans -> SUBSET Sections]
  /\ unsettled \in [Operations -> Tokens \cup {NoToken}]
  /\ strays \in [Workers -> Nat]

\* Every variable keeps its type, and tokens are where they belong.
TypeOK == RowsOK /\ WorkersOK /\ CountsOK /\ HistoryOK

\* A scan that is recorded as done was done after its deletion: since then the
\* server has refreshed every section of its plan, whatever attempts were cut
\* short before and whichever approvals were joined on the way (lines 744,
\* 828-857 and 899-912 of media-server-rescan.ts).
RecordedMeansRefreshed ==
  \A s \in Scans : scan[s].status \in {"triggered", "skipped", "pruned"} =>
                     Plan[OperationOf[s]] \subseteq covered[s]

\* The requests to the server, however they end.
Sends(w) == \E x \in Sections : Refresh(w, x) \/ RefreshFails(w, x)

\* While a refresh the server has acknowledged has no recorded outcome, and the
\* lease it was sent under was renewed within ten minutes, whoever holds the
\* lease of the operation and sends a refresh, answered or not, is the worker
\* that sent the first (lines 379-393, 925-938 and 965-976).  Others send at
\* most as strays.  A refresh that timed out or was answered with an error is
\* not protected like this: see RefreshFails and Release.
NoEarlyReissue ==
  [][\A w \in Workers :
       Sends(w) /\ HoldsLease(w) =>
         unsettled[worker[w].operation] \in {NoToken, worker[w].token}]_vars

\* A worker whose lease was reclaimed in a stall sends at most the one refresh
\* it had been about to send (lines 745-753).
AtMostOneStray == \A w \in Workers : strays[w] <= 1

\* The lease of an operation as a lock, relied on by whoever is in the operation.
Lock(o) == INSTANCE RunLock WITH
  Ops <- Tokens, NoOp <- NoToken, holder <- lease[o].token,
  relying <- {worker[w].token : w \in {x \in Workers : Works(x, o)}}

LocksStart == \A o \in Operations : Lock(o)!Init

LocksStep == \A o \in Operations : [Lock(o)!Next]_(Lock(o)!vars)

\* Without stalls, the lease of an operation is a lock: nobody gets it from a
\* worker that is still in the operation (lines 353-451).
ImplementsOperationLock == LocksStart /\ [][LocksStep]_vars

\* How far a call is from its end, most significant first: the approvals it has
\* not opened, the operations it has not begun, the part of the call it is in,
\* the scans it has not tried and the sections it has not refreshed, its step
\* in the operation, and the approvals to be closed.
Shrinks(new, old) == new \subseteq old /\ new # old

Part(pc) == CASE pc = "idle" -> 0 [] pc = "next" -> 1 [] pc = "final" -> 2
              [] pc = "operation" -> 3 [] OTHER -> 4

ToGo(pc) ==
  CASE pc = "select" -> 9 [] pc = "claim" -> 8 [] pc = "confirm" -> 7
    [] pc = "candidate" -> 6 [] pc = "progress" -> 5 [] pc = "section" -> 4
    [] pc = "refresh" -> 3 [] pc = "verify" -> 2 [] pc \in {"record", "fail"} -> 1
    [] OTHER -> 0

Nearer(new, old) ==
  \/ Shrinks(old.tried, new.tried) /\ new.completed = old.completed
  \/ Shrinks(old.completed, new.completed) /\ new.tried = old.tried
  \/ /\ new.tried = old.tried /\ new.completed = old.completed
     /\ \/ ToGo(new.pc) < ToGo(old.pc)
        \/ new.pc = old.pc /\ Shrinks(new.affected, old.affected)

Descends(new, old) ==
  \/ Shrinks(new.todo, old.todo)
  \/ new.todo = old.todo /\ Shrinks(new.operations, old.operations)
  \/ /\ new.todo = old.todo /\ new.operations = old.operations
     /\ \/ Part(new.pc) < Part(old.pc)
        \/ Part(new.pc) = Part(old.pc) /\ Nearer(new, old)

\* Whatever a call does brings it nearer to its end: no failure, no lost lease
\* and no scan of others that joins on the way sends it back to work it has
\* done, so it cannot try the same scan or refresh the same section twice
\* (lines 796-966).  The exception is an error that throws away its lists.
EveryStepDescends ==
  [][\A w \in Workers :
       worker[w].pc # "idle" =>
         \/ worker'[w] = worker[w]
         \/ CallFails(w)
         \/ Descends(worker'[w], worker[w])]_vars

\* Every scan whose deletion is on record is done in the end, whatever failed or
\* crashed on the way, once failures cease (lines 1113-1235).
Settles ==
  \A s \in Scans : approval[ApprovalOf[s]] = "executed"
                     ~> scan[s].status \in {"triggered", "skipped", "pruned"}
=============================================================================
