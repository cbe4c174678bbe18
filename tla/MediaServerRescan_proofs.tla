-------------------- MODULE MediaServerRescan_proofs --------------------
(***************************************************************************)
(* Theorems about MediaServerRescan, for any users, approvals, scans,      *)
(* operations and workers and any bounds.                                  *)
(***************************************************************************)
EXTENDS MediaServerRescan, TLAPS

-----------------------------------------------------------------------------
(***************************************************************************)
(* Lemmas on the local state of a worker.                                  *)
(***************************************************************************)

\* A local state has an operation and a token exactly at an operation step.
WellPlaced(k) ==
  /\ k \in Locals
  /\ k.pc \in OperationSteps <=> k.operation # NoOperation
  /\ k.pc \in OperationSteps <=> k.token # NoToken
  /\ k.pc \in {"refresh", "progress", "section"} => k.candidate # NoScan

\* Replacing the state of one worker by a well-placed one keeps them so.
LEMMA UpdateTypes ==
  ASSUME WorkersOK, NEW w \in Workers, NEW k, WellPlaced(k),
         worker' = [worker EXCEPT ![w] = k]
  PROVE  WorkersOK'
  BY DEF WorkersOK, WellPlaced

\* An idle worker is in no operation.
LEMMA IdlePlaced == WellPlaced(Idle)
  BY SentinelsAreDistinct DEF WellPlaced, Idle, Locals, Steps, OperationSteps

\* A worker that leaves its operation is in none.
LEMMA LeavePlaced ==
  ASSUME WorkersOK, NEW w \in Workers
  PROVE  /\ WellPlaced(Leave(w))
         /\ WellPlaced([Leave(w) EXCEPT !.authorityFailed = TRUE, !.pc = "final"])
<1> DEFINE k == worker[w]
<1>1. k \in Locals
  BY DEF WorkersOK
<1>2. Leave(w) \in Locals
  <2>1. {"final", "operation"} \subseteq Steps
    BY DEF Steps
  <2>2. ASSUME NEW p \in {"final", "operation"}
        PROVE  [k EXCEPT !.pc = p, !.operation = NoOperation, !.token = NoToken, !.claimed = {},
                         !.tried = {}, !.candidate = NoScan, !.completed = {}] \in Locals
    BY ONLY <1>1, <2>1, <2>2 DEF Locals
  <2>3. Leave(w) = [k EXCEPT !.pc = IF k.authorityFailed THEN "final" ELSE "operation",
                             !.operation = NoOperation, !.token = NoToken, !.claimed = {},
                             !.tried = {}, !.candidate = NoScan, !.completed = {}]
    BY DEF Leave
  <2>4. (IF k.authorityFailed THEN "final" ELSE "operation") \in {"final", "operation"}
    OBVIOUS
  <2> HIDE DEF k
  <2> QED
    BY ONLY <2>2, <2>3, <2>4
<1>3. /\ Leave(w).pc \in {"final", "operation"}
      /\ Leave(w).operation = NoOperation
      /\ Leave(w).token = NoToken
  BY <1>1 DEF Leave, Locals
<1>4. {"final", "operation"} \cap OperationSteps = {}
  BY DEF OperationSteps
<1>5. WellPlaced(Leave(w))
  BY <1>2, <1>3, <1>4 DEF WellPlaced
<1>6. ASSUME NEW r \in Locals, r.operation = NoOperation, r.token = NoToken
      PROVE  WellPlaced([r EXCEPT !.authorityFailed = TRUE, !.pc = "final"])
  BY ZenonT(40), <1>6 DEF WellPlaced, Locals, Steps, OperationSteps
<1> QED
  BY <1>2, <1>3, <1>5, <1>6

\* The approvals of scans, and the operations of scans, are what they should be.
LEMMA Maps ==
  /\ \A S \in SUBSET Scans : {ApprovalOf[s] : s \in S} \in SUBSET Approvals
  /\ \A S \in SUBSET Scans : {OperationOf[s] : s \in S} \in SUBSET Operations
  /\ \A as \in SUBSET Approvals : ApprovalsToOpen(as) \in SUBSET Approvals
  /\ \A u : Executed(u) \in SUBSET Approvals
<1>1. \A s \in Scans : ApprovalOf[s] \in Approvals /\ OperationOf[s] \in Operations
  BY ScansAreWellFormed
<1> QED
  BY <1>1 DEF ApprovalsToOpen, Executed

-----------------------------------------------------------------------------
(***************************************************************************)
(* Type correctness.                                                       *)
(***************************************************************************)

LEMMA InitTypes == Init => TypeOK
<1> SUFFICES ASSUME Init PROVE TypeOK
  OBVIOUS
<1>1. RowsOK
  BY DEF Init, RowsOK, Absent, NoLease, Statuses
<1>2. WorkersOK
  BY IdlePlaced DEF Init, WorkersOK, WellPlaced
<1>3. CountsOK /\ HistoryOK
  BY BoundsAreNumbers DEF Init, CountsOK, HistoryOK
<1> QED
  BY <1>1, <1>2, <1>3 DEF TypeOK

\* Deletions write approvals and rows, time writes rows and leases.
LEMMA EnvironmentTypes ==
  ASSUME TypeOK
  PROVE  /\ \A a \in Approvals : Prepare(a) \/ Delete(a) \/ Execute(a) => TypeOK'
         /\ \A o \in Operations : LeaseExpires(o) => TypeOK'
         /\ \A s \in Scans : BackoffElapses(s) => TypeOK'
<1> USE DEF TypeOK
<1>1. ASSUME NEW a \in Approvals, Prepare(a) PROVE TypeOK'
  <2>2. RowsOK'
    BY <1>1 DEF Prepare, RowsOK, Statuses
  <2> QED
    BY <1>1, <2>2 DEF Prepare, WorkersOK, CountsOK, HistoryOK, history
<1>2. ASSUME NEW a \in Approvals, Delete(a) \/ Execute(a) PROVE TypeOK'
  BY <1>2 DEF Delete, Execute, RowsOK, WorkersOK, CountsOK, HistoryOK, history
<1>3. ASSUME NEW o \in Operations, LeaseExpires(o) PROVE TypeOK'
  <2>1. RowsOK' /\ HistoryOK'
    BY <1>3 DEF LeaseExpires, RowsOK, HistoryOK
  <2>2. CountsOK'
    BY <1>3, BoundsAreNumbers DEF LeaseExpires, CountsOK
  <2> QED
    BY <1>3, <2>1, <2>2 DEF LeaseExpires, WorkersOK
<1>4. ASSUME NEW s \in Scans, BackoffElapses(s) PROVE TypeOK'
  <2>1. /\ scan' = [scan EXCEPT ![s].due = TRUE]
        /\ UNCHANGED <<approval, audited, lease, running, worker, faults, stalls, history>>
    BY <1>4 DEF BackoffElapses
  <2>2. /\ scan \in [Scans -> [status : Statuses, token : Tokens \cup {NoToken}, due : BOOLEAN]]
        /\ \A r \in Scans : scan[r].status = "triggering" <=> scan[r].token # NoToken
    BY DEF RowsOK
  <2>3. scan' \in [Scans -> [status : Statuses, token : Tokens \cup {NoToken}, due : BOOLEAN]]
    BY ONLY <2>1, <2>2
  <2>4. \A r \in Scans : scan'[r].status = scan[r].status /\ scan'[r].token = scan[r].token
    BY ONLY <2>1, <2>2
  <2>5. \A r \in Scans : scan'[r].status = "triggering" <=> scan'[r].token # NoToken
    BY ONLY <2>2, <2>4
  <2>6. RowsOK'
    BY <2>1, <2>3, <2>5 DEF RowsOK
  <2>7. WorkersOK' /\ CountsOK' /\ HistoryOK'
    BY <2>1 DEF WorkersOK, CountsOK, HistoryOK, history
  <2> QED
    BY <2>6, <2>7
<1> QED
  BY <1>1, <1>2, <1>3, <1>4

\* One failure less may happen.
LEMMA FaultTypes ==
  ASSUME CountsOK, \/ faults > 0 /\ faults' = faults - 1
                   \/ UNCHANGED faults,
         UNCHANGED stalls
  PROVE  CountsOK'
  BY BoundsAreNumbers DEF CountsOK

\* The steps of a call outside its operations.
LEMMA CallTypes ==
  ASSUME TypeOK, NEW w \in Workers
  PROVE  /\ \A u \in Users : FollowUp(w, u) => TypeOK'
         /\ \A a \in Approvals : Open(w, a) \/ AuditUnavailable(w, a) \/ RecordFinal(w, a)
                                   => TypeOK'
         /\ FinalDone(w) \/ CallFails(w) \/ Finish(w) \/ Crash(w) => TypeOK'
<1> USE DEF TypeOK
<1>0. worker[w] \in Locals
  BY DEF WorkersOK
<1>1. ASSUME NEW u \in Users, NEW as \in SUBSET Executed(u), Start(w, u, as) PROVE TypeOK'
  <2>1. ApprovalsToOpen(as) \in SUBSET Approvals
    BY Maps
  <2> DEFINE k == [Idle EXCEPT !.pc = "next", !.user = u, !.todo = ApprovalsToOpen(as)]
  <2>2. WellPlaced(k)
    BY <2>1, SentinelsAreDistinct DEF WellPlaced, Idle, Locals, Steps, OperationSteps
  <2>3. WorkersOK'
    BY <1>1, <2>2, UpdateTypes DEF Start
  <2>4. CountsOK'
    BY <1>1, BoundsAreNumbers DEF Start, CountsOK
  <2> QED
    BY <1>1, <2>3, <2>4 DEF Start, RowsOK, HistoryOK, history
<1>2. ASSUME NEW a \in Approvals, Open(w, a) PROVE TypeOK'
  <2> DEFINE E == {s \in ScansOf(a) : Eligible(s)}
  <2>1. {OperationOf[s] : s \in E} \in SUBSET Operations
    BY Maps DEF ScansOf
  <2> DEFINE k == [worker[w] EXCEPT !.todo = worker[w].todo \ {a},
                    !.operations = {OperationOf[s] : s \in E},
                    !.affected = IF E = {} THEN {a} ELSE {},
                    !.pc = IF E = {} THEN "final" ELSE "operation"]
  <2>2. worker' = [worker EXCEPT ![w] = k]
    BY <1>2, <1>0 DEF Open, WorkersOK, Locals
  <2>3. WellPlaced(k)
    <3>1. worker[w].pc = "next"
      BY <1>2 DEF Open
    <3> HIDE DEF E
    <3> QED
      BY ZenonT(40), <3>1, <1>0, <2>1 DEF WellPlaced, WorkersOK, Locals, Steps, OperationSteps
  <2>4. WorkersOK'
    <3> HIDE DEF k
    <3> QED
      BY <2>2, <2>3, UpdateTypes
  <2> QED
    BY <1>2, <2>4 DEF Open, RowsOK, CountsOK, HistoryOK, history
<1>3. ASSUME NEW a \in Approvals, AuditUnavailable(w, a) PROVE TypeOK'
  <2> DEFINE k == [worker[w] EXCEPT !.todo = worker[w].todo \ {a}]
  <2>0. worker' = [worker EXCEPT ![w] = k]
    BY <1>3, <1>0 DEF AuditUnavailable, WorkersOK, Locals
  <2>2. k \in Locals /\ k.pc = worker[w].pc /\ k.candidate = worker[w].candidate
        /\ k.operation = worker[w].operation /\ k.token = worker[w].token
    BY <1>0 DEF Locals
  <2>3. WellPlaced(worker[w])
    BY DEF WellPlaced, WorkersOK
  <2> HIDE DEF k
  <2>4. WellPlaced(k)
    BY ONLY <2>2, <2>3 DEF WellPlaced
  <2>1. WorkersOK'
    BY ONLY WorkersOK, w \in Workers, <2>0, <2>4, UpdateTypes
  <2> QED
    BY <1>3, <2>1, FaultTypes DEF AuditUnavailable, RowsOK, HistoryOK, history
<1>4. ASSUME NEW a \in Approvals, RecordFinal(w, a) PROVE TypeOK'
  <2>1. WorkersOK'
    BY <1>4 DEF RecordFinal, WorkersOK, Locals
  <2>2. CASE UNCHANGED scan
    BY <1>4, <2>1, <2>2, FaultTypes DEF RecordFinal, RowsOK, HistoryOK, history
  <2>3. CASE /\ \A s \in ScansOf(a) : Settled(s)
             /\ scan' = [s \in Scans |-> IF s \in ScansOf(a)
                           THEN [scan[s] EXCEPT !.status = "pruned"] ELSE scan[s]]
             /\ UNCHANGED faults
    <3>1. \A s \in ScansOf(a) : scan[s].status # "triggering"
      BY <2>3 DEF Settled
    <3>2. RowsOK'
      BY <1>4, <2>3, <3>1 DEF RecordFinal, RowsOK, Statuses
    <3> QED
      BY <1>4, <2>1, <2>3, <3>2, FaultTypes DEF RecordFinal, HistoryOK, history
  <2> QED
    BY <1>4, <2>2, <2>3 DEF RecordFinal
<1>5. ASSUME FinalDone(w) PROVE TypeOK'
  <2>1. WorkersOK'
    BY <1>5 DEF FinalDone, WorkersOK, Locals, Steps, OperationSteps
  <2> QED
    BY <1>5, <2>1 DEF FinalDone, RowsOK, CountsOK, HistoryOK, history
<1>6. ASSUME CallFails(w) PROVE TypeOK'
  <2>1. WellPlaced([Idle EXCEPT !.pc = "next", !.user = worker[w].user])
    BY ZenonT(40), <1>0, SentinelsAreDistinct DEF WellPlaced, Idle, Locals, Steps, OperationSteps
  <2>2. WorkersOK'
    BY <1>6, <2>1, UpdateTypes DEF CallFails
  <2> QED
    BY <1>6, <2>2, FaultTypes DEF CallFails, RowsOK, HistoryOK, history
<1>7. ASSUME Finish(w) \/ Crash(w) PROVE TypeOK'
  <2>1. WorkersOK'
    BY <1>7, IdlePlaced, UpdateTypes DEF Finish, Crash
  <2>2. CountsOK'
    BY <1>7, FaultTypes DEF Finish, Crash
  <2> QED
    BY <1>7, <2>1, <2>2 DEF Finish, Crash, RowsOK, HistoryOK, history
<1> QED
  BY <1>1, <1>2, <1>3, <1>4, <1>5, <1>6, <1>7 DEF FollowUp

\* The steps that enter an operation, pass it by, or claim its scans.
LEMMA ClaimTypes ==
  ASSUME TypeOK, NEW w \in Workers
  PROVE  /\ \A o \in Operations, t \in Tokens : AcquireOperation(w, o, t) => TypeOK'
         /\ \A o \in Operations : SkipOperation(w, o) => TypeOK'
         /\ OperationsDone(w) \/ Select(w) \/ Claim(w) \/ Confirm(w) => TypeOK'
         /\ PreparationFails(w) \/ FailUnread(w) => TypeOK'
<1> USE DEF TypeOK
<1>0. worker[w] \in Locals
  BY DEF WorkersOK
<1>1. ASSUME NEW o \in Operations, NEW t \in Tokens, AcquireOperation(w, o, t) PROVE TypeOK'
  <2> DEFINE k == [worker[w] EXCEPT !.pc = "select", !.operation = o, !.token = t,
                                    !.operations = worker[w].operations \ {o}]
  <2>3. worker' = [worker EXCEPT ![w] = k]
    BY <1>1, <1>0 DEF AcquireOperation, WorkersOK, Locals
  <2>4. "select" \in Steps /\ "select" \in OperationSteps
    BY DEF Steps, OperationSteps
  <2>5. k \in Locals /\ k.pc = "select" /\ k.operation = o /\ k.token = t
    BY ONLY <1>0, <2>4, o \in Operations, t \in Tokens DEF Locals
  <2>6. o # NoOperation /\ t # NoToken
    BY SentinelsAreDistinct
  <2> HIDE DEF k
  <2>7. WellPlaced(k)
    BY ONLY <2>4, <2>5, <2>6 DEF WellPlaced
  <2>1. WorkersOK'
    BY ONLY WorkersOK, w \in Workers, <2>3, <2>7, UpdateTypes
  <2>2. RowsOK' /\ HistoryOK'
    BY <1>1 DEF AcquireOperation, RowsOK, HistoryOK
  <2> QED
    BY <1>1, <2>1, <2>2 DEF AcquireOperation, CountsOK
<1>2. ASSUME NEW o \in Operations, SkipOperation(w, o) PROVE TypeOK'
  <2>1. WorkersOK'
    BY <1>2 DEF SkipOperation, WorkersOK, Locals
  <2> QED
    BY <1>2, <2>1 DEF SkipOperation, RowsOK, CountsOK, HistoryOK, history
<1>3. ASSUME OperationsDone(w) PROVE TypeOK'
  <2>1. WorkersOK'
    BY <1>3 DEF OperationsDone, WorkersOK, Locals, Steps, OperationSteps
  <2> QED
    BY <1>3, <2>1 DEF OperationsDone, RowsOK, CountsOK, HistoryOK, history
<1>4. ASSUME Select(w) PROVE TypeOK'
  <2> DEFINE found == Equivalent(worker[w].operation, worker[w].user)
             k == [worker[w] EXCEPT !.claimed = found,
                     !.pc = IF found = {} THEN "release" ELSE "claim"]
  <2>1. found \in SUBSET Scans /\ worker[w].pc = "select"
    BY <1>4 DEF Select, Equivalent
  <2>2. worker' = [worker EXCEPT ![w] = k]
    BY <1>4, <1>0 DEF Select, WorkersOK, Locals
  <2>3. WellPlaced(k)
    <3> HIDE DEF found
    <3> QED
      BY <2>1, <1>0 DEF WellPlaced, WorkersOK, Locals, Steps, OperationSteps
  <2>4. WorkersOK'
    <3> HIDE DEF k
    <3> QED
      BY <2>2, <2>3, UpdateTypes
  <2> QED
    BY <1>4, <2>4 DEF Select, RowsOK, CountsOK, HistoryOK, history
<1>5. ASSUME Claim(w) PROVE TypeOK'
  <2> DEFINE found == {s \in worker[w].claimed : Candidate(s)}
             k == [worker[w] EXCEPT !.claimed = found,
                     !.pc = IF found = {} THEN "release" ELSE "confirm"]
  <2>1. /\ worker[w].claimed \in SUBSET Scans
        /\ worker[w].token \in Tokens
        /\ worker[w].pc = "claim"
    BY <1>0, <1>5 DEF Claim, Locals, WorkersOK, OperationSteps
  <2>2. worker' = [worker EXCEPT ![w] = k]
    BY <1>5, <1>0 DEF Claim, WorkersOK, Locals
  <2>3. WellPlaced(k)
    <3>1. found \in SUBSET Scans
      BY <2>1
    <3> HIDE DEF found
    <3> QED
      BY <2>1, <3>1, <1>0 DEF WellPlaced, WorkersOK, Locals, Steps, OperationSteps
  <2>4. WorkersOK'
    <3> HIDE DEF k
    <3> QED
      BY <2>2, <2>3, UpdateTypes
  <2>5. RowsOK'
    <3>1. scan' = [s \in Scans |-> IF s \in found
            THEN [status |-> "triggering", token |-> worker[w].token, due |-> TRUE]
            ELSE scan[s]]
      BY <1>5 DEF Claim
    <3> HIDE DEF found
    <3> QED
      BY <1>5, <2>1, <3>1, SentinelsAreDistinct DEF Claim, RowsOK, Statuses
  <2> QED
    BY <1>5, <2>4, <2>5 DEF Claim, CountsOK, HistoryOK, history
<1>6. ASSUME Confirm(w) PROVE TypeOK'
  <2>0. PICK readBack \in {worker[w].claimed, {}} :
          worker' = [worker EXCEPT
            ![w].affected = @ \cup {ApprovalOf[s] : s \in readBack},
            ![w].pc = IF OwnsClaim(w) THEN "candidate" ELSE "fail"]
    BY <1>6 DEF Confirm
  <2> DEFINE more == {ApprovalOf[s] : s \in readBack}
             k == [worker[w] EXCEPT !.affected = worker[w].affected \cup more,
                     !.pc = IF OwnsClaim(w) THEN "candidate" ELSE "fail"]
  <2>1. more \in SUBSET Approvals /\ worker[w].pc = "confirm"
    <3>1. readBack \subseteq Scans
      BY <1>0 DEF Locals
    <3> QED
      BY <1>6, <3>1, Maps DEF Confirm
  <2>2. worker' = [worker EXCEPT ![w] = k]
    BY <2>0, <1>0 DEF WorkersOK, Locals
  <2>3. WellPlaced(k)
    <3> HIDE DEF more
    <3> QED
      BY <2>1, <1>0 DEF WellPlaced, WorkersOK, Locals, Steps, OperationSteps
  <2>4. WorkersOK'
    <3> HIDE DEF k
    <3> QED
      BY <2>2, <2>3, UpdateTypes
  <2> QED
    BY <1>6, <2>4 DEF Confirm, RowsOK, CountsOK, HistoryOK, history
<1>7. ASSUME PreparationFails(w) PROVE TypeOK'
  <2>1. WorkersOK'
    BY <1>7 DEF PreparationFails, WorkersOK, Locals, Steps, OperationSteps
  <2> QED
    BY <1>7, <2>1, FaultTypes DEF PreparationFails, RowsOK, HistoryOK, history
<1>8. ASSUME FailUnread(w) PROVE TypeOK'
  <2>1. WorkersOK'
    <3> DEFINE k == [worker[w] EXCEPT !.pc = "release", !.todo = {},
                                     !.operations = {}, !.affected = {}]
    <3>1. worker[w].pc = "fail"
      BY <1>8 DEF FailUnread
    <3>2. worker' = [worker EXCEPT ![w] = k]
      BY <1>8, <1>0 DEF FailUnread, WorkersOK, Locals
    <3>3. WellPlaced(k)
      BY <3>1, <1>0 DEF WellPlaced, WorkersOK, Locals, Steps, OperationSteps
    <3> HIDE DEF k
    <3> QED
      BY <3>2, <3>3, UpdateTypes
  <2> QED
    BY <1>8, <2>1, FaultTypes DEF FailUnread, RowsOK, HistoryOK, history
<1> QED
  BY <1>1, <1>2, <1>3, <1>4, <1>5, <1>6, <1>7, <1>8

\* Renewing a lease keeps the leases well typed.
LEMMA RenewTypes ==
  ASSUME RowsOK, NEW w \in Workers, Renew(w), UNCHANGED <<approval, audited, scan, running>>
  PROVE  RowsOK'
  BY DEF Renew, RowsOK

\* The steps before the first section and between two sections.
LEMMA CandidateTypes ==
  ASSUME TypeOK, NEW w \in Workers
  PROVE  /\ \A s \in Scans : TryCandidate(w, s) \/ CandidateUnavailable(w, s) => TypeOK'
         /\ CandidatesExhausted(w) \/ AuthorityFails(w) => TypeOK'
         /\ RecordProgress(w) \/ NextSection(w) \/ Verify(w) => TypeOK'
<1> USE DEF TypeOK
<1>0. worker[w] \in Locals
  BY DEF WorkersOK
<1>1. ASSUME NEW s \in Scans, TryCandidate(w, s) PROVE TypeOK'
  <2> DEFINE k == [worker[w] EXCEPT !.candidate = s,
                     !.pc = IF Plan[worker[w].operation] = {} THEN "verify" ELSE "refresh"]
  <2>1. worker[w].pc = "candidate" /\ worker' = [worker EXCEPT ![w] = k]
    BY <1>1, <1>0 DEF TryCandidate, WorkersOK, Locals
  <2>2. WellPlaced(k)
    BY <2>1, <1>0, SentinelsAreDistinct DEF WellPlaced, WorkersOK, Locals, Steps, OperationSteps
  <2>3. WorkersOK'
    <3> HIDE DEF k
    <3> QED
      BY <2>1, <2>2, UpdateTypes
  <2> QED
    BY <1>1, <2>3, RenewTypes DEF TryCandidate, CountsOK, HistoryOK, history
<1>2. ASSUME NEW s \in Scans, CandidateUnavailable(w, s) PROVE TypeOK'
  <2>1. WorkersOK'
    BY <1>2 DEF CandidateUnavailable, WorkersOK, Locals
  <2> QED
    BY <1>2, <2>1, FaultTypes DEF CandidateUnavailable, RowsOK, HistoryOK, history
<1>3. ASSUME CandidatesExhausted(w) PROVE TypeOK'
  <2>1. WorkersOK'
    BY <1>3 DEF CandidatesExhausted, WorkersOK, Locals, Steps, OperationSteps
  <2> QED
    BY <1>3, <2>1 DEF CandidatesExhausted, RowsOK, CountsOK, HistoryOK, history
<1>4. ASSUME AuthorityFails(w) PROVE TypeOK'
  <2> DEFINE k == [worker[w] EXCEPT !.authorityFailed = TRUE, !.pc = "fail"]
             l == [Leave(w) EXCEPT !.authorityFailed = TRUE, !.pc = "final"]
  <2>1. \/ worker' = [worker EXCEPT ![w] = k]
        \/ worker' = [worker EXCEPT ![w] = l]
    BY <1>4 DEF AuthorityFails
  <2>2. WellPlaced(k)
    BY <1>4, <1>0 DEF AuthorityFails, WellPlaced, WorkersOK, Locals, Steps, OperationSteps
  <2>3. WellPlaced(l)
    BY LeavePlaced
  <2>4. WorkersOK'
    <3> HIDE DEF k, l
    <3> QED
      BY <2>1, <2>2, <2>3, UpdateTypes
  <2> QED
    BY <1>4, <2>4, FaultTypes DEF AuthorityFails, RowsOK, HistoryOK, history
<1>5. ASSUME RecordProgress(w) PROVE TypeOK'
  <2>1. WorkersOK'
    BY <1>5 DEF RecordProgress, WorkersOK, Locals, Steps, OperationSteps
  <2> QED
    BY <1>5, <2>1 DEF RecordProgress, RowsOK, CountsOK, HistoryOK, history
<1>6. ASSUME NextSection(w) \/ Verify(w) PROVE TypeOK'
  <2>1. \/ worker[w].pc = "section" /\ worker' = [worker EXCEPT ![w].pc = "refresh"]
        \/ worker[w].pc = "verify" /\ worker' = [worker EXCEPT ![w].pc = "record"]
    BY <1>6 DEF NextSection, Verify
  <2>2. WorkersOK'
    BY <2>1 DEF WorkersOK, Locals, Steps, OperationSteps
  <2> QED
    BY <1>6, <2>2, RenewTypes DEF NextSection, Verify, CountsOK, HistoryOK, history
<1> QED
  BY <1>1, <1>2, <1>3, <1>4, <1>5, <1>6

\* What a refresh covers are sections.
LEMMA CoverTypes ==
  ASSUME covered \in [Scans -> SUBSET Sections], NEW o, NEW x \in Sections
  PROVE  CoveredBy(o, x) \in [Scans -> SUBSET Sections]
  BY DEF CoveredBy

LEMMA StrayTypes ==
  ASSUME HistoryOK, NEW w \in Workers
  PROVE  Stray(w) \in [Workers -> Nat]
  BY DEF HistoryOK, Stray

\* The requests, and the steps that end an operation.
LEMMA OutcomeTypes ==
  ASSUME TypeOK, NEW w \in Workers
  PROVE  /\ \A x \in Sections : Refresh(w, x) \/ RefreshFails(w, x) => TypeOK'
         /\ OutcomeOpen(w) \/ Record(w) \/ Fail(w) \/ Release(w) => TypeOK'
<1> USE DEF TypeOK
<1>0. worker[w] \in Locals /\ WellPlaced(Leave(w))
  BY LeavePlaced DEF WorkersOK
<1>1. ASSUME NEW x \in Sections, Refresh(w, x) PROVE TypeOK'
  <2> DEFINE p == IF worker[w].operation \in PlexOperations THEN "progress" ELSE "verify"
             k == [worker[w] EXCEPT !.completed = worker[w].completed \cup {x}, !.pc = p]
  <2>3. worker[w].pc = "refresh" /\ worker' = [worker EXCEPT ![w] = k]
    BY <1>1, <1>0 DEF Refresh, WorkersOK, Locals
  <2>4. p \in Steps /\ p \in OperationSteps /\ "refresh" \in OperationSteps
    BY DEF Steps, OperationSteps
  <2>5. WellPlaced(worker[w])
    BY DEF WellPlaced, WorkersOK
  <2> HIDE DEF p
  <2>6. /\ k \in Locals /\ k.pc = p /\ k.candidate = worker[w].candidate
        /\ k.operation = worker[w].operation /\ k.token = worker[w].token
    BY ONLY <1>0, <2>4, x \in Sections DEF Locals
  <2> HIDE DEF k
  <2>7. WellPlaced(k)
    BY ONLY <2>3, <2>4, <2>5, <2>6 DEF WellPlaced
  <2>1. WorkersOK'
    BY ONLY WorkersOK, w \in Workers, <2>3, <2>7, UpdateTypes
  <2>2. HistoryOK'
    <3>1. covered' \in [Scans -> SUBSET Sections]
      BY <1>1, CoverTypes DEF Refresh, HistoryOK
    <3>2. unsettled' \in [Operations -> Tokens \cup {NoToken}]
      BY <1>1, <1>0 DEF Refresh, HistoryOK, Locals
    <3>3. strays' \in [Workers -> Nat]
      BY <1>1, StrayTypes DEF Refresh
    <3> QED
      BY <3>1, <3>2, <3>3 DEF HistoryOK
  <2> QED
    BY <1>1, <2>1, <2>2 DEF Refresh, RowsOK, CountsOK
<1>2. ASSUME NEW x \in Sections, RefreshFails(w, x) PROVE TypeOK'
  <2> DEFINE k == [worker[w] EXCEPT !.tried = worker[w].tried \cup {worker[w].candidate},
                                    !.pc = "candidate"]
  <2>1. \/ worker' = [worker EXCEPT ![w] = k]
        \/ worker' = [worker EXCEPT ![w] = Leave(w)]
    BY <1>2 DEF RefreshFails
  <2>2. WellPlaced(k)
    <3>0. worker[w].pc = "refresh"
      BY <1>2 DEF RefreshFails
    <3>1. worker[w].pc = "refresh" /\ worker[w].candidate \in Scans
      BY <3>0, <1>0 DEF WorkersOK, Locals
    <3>2. /\ worker[w].operation # NoOperation
          /\ worker[w].token # NoToken
      BY <3>1 DEF WorkersOK, OperationSteps
    <3> QED
      BY ZenonT(40), <3>1, <3>2, <1>0 DEF WellPlaced, Locals, Steps, OperationSteps
  <2>3. WorkersOK'
    <3> HIDE DEF k
    <3> QED
      BY <1>0, <2>1, <2>2, UpdateTypes
  <2>4. HistoryOK'
    <3>1. strays' \in [Workers -> Nat]
      BY <1>2, StrayTypes DEF RefreshFails
    <3>2. covered' \in [Scans -> SUBSET Sections]
      BY <1>2, CoverTypes DEF RefreshFails, HistoryOK
    <3> QED
      BY <1>2, <3>1, <3>2 DEF RefreshFails, HistoryOK
  <2> QED
    BY <1>2, <2>3, <2>4, FaultTypes DEF RefreshFails, RowsOK
<1>3. ASSUME OutcomeOpen(w) PROVE TypeOK'
  <2>1. WorkersOK'
    BY <1>0, <1>3, UpdateTypes DEF OutcomeOpen, LeaveAmbiguous
  <2> QED
    BY <1>3, <2>1, FaultTypes DEF OutcomeOpen, RowsOK, HistoryOK, history
<1>4. ASSUME Record(w) PROVE TypeOK'
  <2> DEFINE k == [worker[w] EXCEPT !.pc = "release"]
             mine == {s \in worker[w].claimed : Owned(s, worker[w].token)}
             o == worker[w].operation
  <2>1. \/ worker' = [worker EXCEPT ![w] = k]
        \/ worker' = [worker EXCEPT ![w] = Leave(w)]
    BY <1>4 DEF Record
  <2>2. WellPlaced(k)
    BY ZenonT(40), <1>4, <1>0 DEF Record, WellPlaced, WorkersOK, Locals, Steps, OperationSteps
  <2>3. WorkersOK'
    <3> HIDE DEF k
    <3> QED
      BY <1>0, <2>1, <2>2, UpdateTypes
  <2>4. RowsOK'
    <3>1. scan' = [s \in Scans |-> IF s \in mine
            THEN [status |-> Outcome(o), token |-> NoToken, due |-> TRUE] ELSE scan[s]]
      BY <1>4 DEF Record
    <3>2. Outcome(o) \in Statuses \ {"triggering"}
      BY DEF Outcome, Statuses
    <3> HIDE DEF mine, o
    <3> QED
      BY <1>4, <3>1, <3>2 DEF Record, RowsOK
  <2>5. HistoryOK'
    BY <1>4 DEF Record, HistoryOK
  <2> QED
    BY <1>4, <2>3, <2>4, <2>5 DEF Record, CountsOK
<1>5. ASSUME Fail(w) PROVE TypeOK'
  <2> DEFINE mine == {s \in Scans : Owned(s, worker[w].token)}
             more == {ApprovalOf[s] : s \in mine}
             k == [worker[w] EXCEPT !.pc = "release", !.affected = worker[w].affected \cup more]
  <2>1. more \in SUBSET Approvals /\ worker[w].pc = "fail"
    BY <1>5, Maps DEF Fail
  <2>2. worker' = [worker EXCEPT ![w] = k]
    BY <1>5, <1>0 DEF Fail, WorkersOK, Locals
  <2>3. WellPlaced(k)
    <3> HIDE DEF more
    <3> QED
      BY ZenonT(40), <2>1, <1>0 DEF WellPlaced, WorkersOK, Locals, Steps, OperationSteps
  <2>4. WorkersOK'
    <3> HIDE DEF k
    <3> QED
      BY <2>2, <2>3, UpdateTypes
  <2>5. \/ UNCHANGED scan
        \/ scan' = [s \in Scans |-> IF s \in mine
             THEN [status |-> "failed", token |-> NoToken, due |-> FALSE] ELSE scan[s]]
    BY <1>5 DEF Fail
  <2>6. RowsOK'
    <3> HIDE DEF mine
    <3>1. UNCHANGED <<approval, audited, lease, running>>
      BY <1>5 DEF Fail
    <3>2. CASE UNCHANGED scan
      BY <3>1, <3>2 DEF RowsOK
    <3>3. CASE scan' = [s \in Scans |-> IF s \in mine
             THEN [status |-> "failed", token |-> NoToken, due |-> FALSE] ELSE scan[s]]
      BY <3>1, <3>3 DEF RowsOK, Statuses
    <3> QED
      BY <2>5, <3>2, <3>3
  <2> QED
    BY <1>5, <2>4, <2>6, FaultTypes DEF Fail, HistoryOK, history
<1>6. ASSUME Release(w) PROVE TypeOK'
  <2>1. WorkersOK'
    BY <1>0, <1>6, UpdateTypes DEF Release
  <2>2. lease' \in [Operations -> [token : Tokens \cup {NoToken}, stale : BOOLEAN]]
    <3>1. \/ lease' = lease
          \/ lease' = [lease EXCEPT ![worker[w].operation] = NoLease]
      BY <1>6 DEF Release
    <3>2. NoLease \in [token : Tokens \cup {NoToken}, stale : BOOLEAN]
      BY DEF NoLease
    <3> QED
      BY <3>1, <3>2 DEF RowsOK
  <2> QED
    BY <1>6, <2>1, <2>2, FaultTypes DEF Release, RowsOK, HistoryOK, history
<1> QED
  BY <1>1, <1>2, <1>3, <1>4, <1>5, <1>6

LEMMA NextTypes == TypeOK /\ [Next]_vars => TypeOK'
<1> SUFFICES ASSUME TypeOK, [Next]_vars PROVE TypeOK'
  OBVIOUS
<1>1. ASSUME NEW w \in Workers, Proceeds(w) \/ Suffers(w) PROVE TypeOK'
  BY <1>1, CallTypes, ClaimTypes, CandidateTypes, OutcomeTypes DEF Proceeds, Suffers
<1>2. ASSUME NEW w \in Workers, NEW u \in Users, FollowUp(w, u) PROVE TypeOK'
  BY <1>2, CallTypes
<1>3. CASE UNCHANGED vars
  BY <1>3 DEF vars, TypeOK, RowsOK, WorkersOK, CountsOK, HistoryOK
<1> QED
  BY <1>1, <1>2, <1>3, EnvironmentTypes DEF Next

\* The rows, the local states of the calls and the leases keep their types, and
\* tokens are where they belong.
THEOREM TypeCorrect == Spec => []TypeOK
  BY InitTypes, NextTypes, PTL DEF Spec

-----------------------------------------------------------------------------
(***************************************************************************)
(* What is recorded was refreshed.  The claim of a worker may change under *)
(* its hands, and it may lose its leases; what it keeps is knowledge that  *)
(* cannot become false: the deletions of its scans have happened, and the  *)
(* sections it has sent requests for have been refreshed since.            *)
(***************************************************************************)

BeforeRefresh == {"select", "claim", "confirm", "candidate"}

\* What a local state says of the approvals and of the server.
Known(k, ap, cov) ==
  /\ \A s \in k.claimed : /\ OperationOf[s] = k.operation
                          /\ ap[ApprovalOf[s]] = "executed"
                          /\ k.completed \subseteq cov[s]
  /\ k.pc \notin OperationSteps => k.claimed = {} /\ k.completed = {}
  /\ k.pc \in BeforeRefresh => k.completed = {}
  /\ k.pc \in OperationSteps => k.completed \subseteq Plan[k.operation]
  /\ k.pc \in {"verify", "record"} => k.completed = Plan[k.operation]

WorkKnown == \A w \in Workers : Known(worker[w], approval, covered)

\* Deletions are not undone, nor are refreshes.
Later ==
  /\ \A a \in Approvals : approval[a] = "executed" => approval'[a] = "executed"
  /\ \A s \in Scans : covered[s] \subseteq covered'[s]

LEMMA LaterIfSame ==
  ASSUME UNCHANGED <<approval, covered>>
  PROVE  Later
  BY DEF Later

\* What a worker knew it still knows.
LEMMA KnownStays ==
  ASSUME Later, NEW k \in Locals, Known(k, approval, covered)
  PROVE  Known(k, approval', covered')
  BY ScansAreWellFormed DEF Known, Later, Locals

\* It is enough to look at the worker that took a step.
LEMMA OneWorkerSteps ==
  ASSUME WorkersOK, WorkKnown, Later, NEW w \in Workers,
         \A v \in Workers \ {w} : worker'[v] = worker[v],
         Known(worker'[w], approval', covered')
  PROVE  WorkKnown'
<1>1. ASSUME NEW v \in Workers, v # w PROVE Known(worker'[v], approval', covered')
  BY <1>1, KnownStays DEF WorkKnown, WorkersOK
<1> QED
  BY <1>1 DEF WorkKnown

\* A worker that goes on with the same work, ...
Moves(w) ==
  /\ worker'[w].claimed = worker[w].claimed
  /\ worker'[w].completed = worker[w].completed
  /\ worker'[w].operation = worker[w].operation
  /\ worker'[w].pc \in OperationSteps <=> worker[w].pc \in OperationSteps
  /\ worker'[w].pc \in BeforeRefresh => worker[w].completed = {}
  /\ worker'[w].pc \in {"verify", "record"} =>
       worker[w].completed = Plan[worker[w].operation]
  /\ \A v \in Workers \ {w} : worker'[v] = worker[v]

LEMMA MoveKnows ==
  ASSUME WorkersOK, WorkKnown, NEW w \in Workers, Moves(w), Later
  PROVE  WorkKnown'
<1>1. Known(worker[w], approval', covered')
  BY KnownStays DEF WorkKnown, WorkersOK
<1>2. Known(worker'[w], approval', covered')
  BY <1>1 DEF Moves, Known
<1> QED
  BY <1>2, OneWorkerSteps DEF Moves

\* ... or that drops it.
Clears(w) ==
  /\ worker'[w].claimed = {}
  /\ worker'[w].completed = {}
  /\ worker'[w].pc \notin OperationSteps
  /\ \A v \in Workers \ {w} : worker'[v] = worker[v]

LEMMA ClearKnows ==
  ASSUME WorkersOK, WorkKnown, NEW w \in Workers, Clears(w), Later
  PROVE  WorkKnown'
<1>1. Known(worker'[w], approval', covered')
  BY DEF Clears, Known, OperationSteps, BeforeRefresh
<1> QED
  BY <1>1, OneWorkerSteps DEF Clears

\* Rows that are not newly done stay as true as they were.
Done == {"triggered", "skipped", "pruned"}

LEMMA RowsStayTrue ==
  ASSUME RecordedMeansRefreshed, Later,
         \A s \in Scans : scan'[s].status \in Done => scan[s].status \in Done
  PROVE  RecordedMeansRefreshed'
  BY DEF RecordedMeansRefreshed, Later, Done

-----------------------------------------------------------------------------
Inv == TypeOK /\ WorkKnown /\ RecordedMeansRefreshed

LEMMA InitInv == Init => Inv
<1> SUFFICES ASSUME Init PROVE WorkKnown /\ RecordedMeansRefreshed
  BY InitTypes DEF Inv
<1>1. WorkKnown
  BY DEF Init, WorkKnown, Known, Idle, OperationSteps, BeforeRefresh
<1>2. RecordedMeansRefreshed
  BY DEF Init, RecordedMeansRefreshed, Absent
<1> QED
  BY <1>1, <1>2

LEMMA EnvironmentKeeps ==
  ASSUME Inv
  PROVE  /\ \A a \in Approvals : Prepare(a) \/ Delete(a) \/ Execute(a)
              => WorkKnown' /\ RecordedMeansRefreshed'
         /\ \A o \in Operations : LeaseExpires(o) => WorkKnown' /\ RecordedMeansRefreshed'
         /\ \A s \in Scans : BackoffElapses(s) => WorkKnown' /\ RecordedMeansRefreshed'
<1> USE DEF Inv, TypeOK
<1>1. ASSUME Later, UNCHANGED worker PROVE WorkKnown'
  BY <1>1, KnownStays DEF WorkKnown, WorkersOK
<1>2. ASSUME NEW a \in Approvals, Prepare(a) \/ Delete(a) \/ Execute(a)
      PROVE  WorkKnown' /\ RecordedMeansRefreshed'
  <2>1. Later /\ UNCHANGED worker
    BY <1>2 DEF Prepare, Delete, Execute, Later, RowsOK, history
  <2>2. \A s \in Scans : scan'[s].status \in Done => scan[s].status \in Done
    BY <1>2 DEF Prepare, Delete, Execute, RowsOK, Done
  <2> QED
    BY <1>1, <2>1, <2>2, RowsStayTrue
<1>3. ASSUME NEW o \in Operations, LeaseExpires(o)
      PROVE  WorkKnown' /\ RecordedMeansRefreshed'
  BY <1>1, <1>3, LaterIfSame, RowsStayTrue DEF LeaseExpires
<1>4. ASSUME NEW s \in Scans, BackoffElapses(s)
      PROVE  WorkKnown' /\ RecordedMeansRefreshed'
  <2>1. Later /\ UNCHANGED worker
    BY <1>4, LaterIfSame DEF BackoffElapses, history
  <2>2. \A x \in Scans : scan'[x].status \in Done => scan[x].status \in Done
    BY <1>4 DEF BackoffElapses, RowsOK, Done
  <2> QED
    BY <1>1, <2>1, <2>2, RowsStayTrue
<1> QED
  BY <1>2, <1>3, <1>4

LEMMA CallKeeps ==
  ASSUME Inv, NEW w \in Workers
  PROVE  /\ \A u \in Users : FollowUp(w, u) => WorkKnown' /\ RecordedMeansRefreshed'
         /\ \A a \in Approvals : Open(w, a) \/ AuditUnavailable(w, a) \/ RecordFinal(w, a)
              => WorkKnown' /\ RecordedMeansRefreshed'
         /\ FinalDone(w) \/ CallFails(w) \/ Finish(w) \/ Crash(w)
              => WorkKnown' /\ RecordedMeansRefreshed'
<1> USE DEF Inv, TypeOK
<1>1. ASSUME NEW u \in Users, NEW as, Start(w, u, as)
      PROVE  WorkKnown' /\ RecordedMeansRefreshed'
  <2>1. Clears(w)
    BY <1>1 DEF Start, Clears, WorkersOK, Idle, OperationSteps
  <2>2. Later /\ UNCHANGED scan
    BY <1>1, LaterIfSame DEF Start, history
  <2> QED
    BY <2>1, <2>2, ClearKnows, RowsStayTrue
<1>2. ASSUME NEW a \in Approvals, Open(w, a) \/ AuditUnavailable(w, a) \/ RecordFinal(w, a)
      PROVE  WorkKnown' /\ RecordedMeansRefreshed'
  <2>1. Moves(w)
    <3>1. CASE Open(w, a)
      <4> DEFINE E == {s \in ScansOf(a) : Eligible(s)}
                 ops == {OperationOf[s] : s \in E}
                 all == IF E = {} THEN {a} ELSE {}
                 step == IF E = {} THEN "final" ELSE "operation"
      <4>1. /\ worker[w].pc = "next"
            /\ worker' = [worker EXCEPT ![w].todo = @ \ {a}, ![w].operations = ops,
                                        ![w].affected = all, ![w].pc = step]
        BY <3>1 DEF Open
      <4>2. step \in {"final", "operation"}
        OBVIOUS
      <4> HIDE DEF E, ops, all, step
      <4>3. worker \in [Workers -> Locals]
        BY DEF WorkersOK
      <4>4. \A v \in Workers \ {w} : worker'[v] = worker[v]
        BY <4>1, <4>3
      <4>5. /\ worker'[w].claimed = worker[w].claimed
            /\ worker'[w].completed = worker[w].completed
            /\ worker'[w].operation = worker[w].operation
        BY <4>1, <4>3 DEF Locals
      <4>6. worker'[w].pc = step
        BY <4>1, <4>3 DEF Locals
      <4> QED
        BY <4>1, <4>2, <4>4, <4>5, <4>6 DEF Moves, OperationSteps, BeforeRefresh
    <3>2. CASE AuditUnavailable(w, a)
      BY <3>2 DEF AuditUnavailable, Moves, WorkersOK, Locals, OperationSteps, BeforeRefresh
    <3>3. CASE RecordFinal(w, a)
      BY <3>3 DEF RecordFinal, Moves, WorkersOK, Locals, OperationSteps, BeforeRefresh
    <3> QED
      BY <1>2, <3>1, <3>2, <3>3
  <2>2. Later
    BY <1>2, LaterIfSame DEF Open, AuditUnavailable, RecordFinal, history
  <2>3. \A s \in Scans : scan'[s].status \in Done => scan[s].status \in Done
    BY <1>2 DEF Open, AuditUnavailable, RecordFinal, Settled, RowsOK, Done
  <2> QED
    BY <2>1, <2>2, <2>3, MoveKnows, RowsStayTrue
<1>3. ASSUME FinalDone(w) PROVE WorkKnown' /\ RecordedMeansRefreshed'
  <2>1. Moves(w)
    BY <1>3 DEF FinalDone, Moves, WorkersOK, Locals, OperationSteps, BeforeRefresh
  <2>2. Later /\ UNCHANGED scan
    BY <1>3, LaterIfSame DEF FinalDone, history
  <2> QED
    BY <2>1, <2>2, MoveKnows, RowsStayTrue
<1>4. ASSUME CallFails(w) \/ Finish(w) \/ Crash(w) PROVE WorkKnown' /\ RecordedMeansRefreshed'
  <2>1. \/ worker' = [worker EXCEPT ![w] = Idle]
        \/ worker' = [worker EXCEPT ![w] = [Idle EXCEPT !.pc = "next", !.user = worker[w].user]]
    BY <1>4 DEF CallFails, Finish, Crash
  <2>2. Clears(w)
    <3>1. CASE worker' = [worker EXCEPT ![w] = Idle]
      BY <3>1 DEF Clears, WorkersOK, Idle, OperationSteps
    <3>2. CASE worker' = [worker EXCEPT ![w] =
                 [Idle EXCEPT !.pc = "next", !.user = worker[w].user]]
      BY <3>2 DEF Clears, WorkersOK, Idle, OperationSteps
    <3> QED
      BY <2>1, <3>1, <3>2
  <2>3. Later /\ UNCHANGED scan
    BY <1>4, LaterIfSame DEF CallFails, Finish, Crash, history
  <2> QED
    BY <2>2, <2>3, ClearKnows, RowsStayTrue
<1> QED
  BY <1>1, <1>2, <1>3, <1>4 DEF FollowUp

\* Entering an operation with nothing claimed, and claiming what is deleted.
LEMMA ClaimKeeps ==
  ASSUME Inv, NEW w \in Workers
  PROVE  /\ \A o \in Operations, t \in Tokens : AcquireOperation(w, o, t)
              => WorkKnown' /\ RecordedMeansRefreshed'
         /\ \A o \in Operations : SkipOperation(w, o) => WorkKnown' /\ RecordedMeansRefreshed'
         /\ OperationsDone(w) \/ Select(w) \/ Claim(w) \/ Confirm(w) \/ PreparationFails(w)
           \/ FailUnread(w)
              => WorkKnown' /\ RecordedMeansRefreshed'
<1> USE DEF Inv, TypeOK
<1>0. Known(worker[w], approval, covered)
  BY DEF WorkKnown
<1>1. ASSUME NEW o \in Operations, NEW t \in Tokens, AcquireOperation(w, o, t)
      PROVE  WorkKnown' /\ RecordedMeansRefreshed'
  <2>1. Later /\ UNCHANGED <<approval, covered, scan>>
    BY <1>1, LaterIfSame DEF AcquireOperation
  <2>2. /\ worker[w].pc = "operation"
        /\ worker'[w].pc = "select"
        /\ worker'[w].claimed = worker[w].claimed
        /\ worker'[w].completed = worker[w].completed
        /\ \A v \in Workers \ {w} : worker'[v] = worker[v]
    BY <1>1 DEF AcquireOperation, WorkersOK, Locals
  <2>3. worker[w].claimed = {} /\ worker[w].completed = {}
    BY <1>0, <2>2 DEF Known, OperationSteps
  <2>4. Known(worker'[w], approval', covered')
    BY <2>2, <2>3 DEF Known, OperationSteps
  <2> QED
    BY <2>1, <2>2, <2>4, OneWorkerSteps, RowsStayTrue
<1>2. ASSUME NEW o \in Operations, SkipOperation(w, o)
      PROVE  WorkKnown' /\ RecordedMeansRefreshed'
  <2>1. Moves(w)
    BY <1>2 DEF SkipOperation, Moves, WorkersOK, Locals, OperationSteps, BeforeRefresh
  <2> QED
    BY <1>2, <2>1, LaterIfSame, MoveKnows, RowsStayTrue DEF SkipOperation, history
<1>3. ASSUME OperationsDone(w) PROVE WorkKnown' /\ RecordedMeansRefreshed'
  <2>1. Moves(w)
    BY <1>3 DEF OperationsDone, Moves, WorkersOK, Locals, OperationSteps, BeforeRefresh
  <2> QED
    BY <1>3, <2>1, LaterIfSame, MoveKnows, RowsStayTrue DEF OperationsDone, history
<1>4. ASSUME Select(w) PROVE WorkKnown' /\ RecordedMeansRefreshed'
  <2> DEFINE found == Equivalent(worker[w].operation, worker[w].user)
  <2>1. Later /\ UNCHANGED <<approval, covered, scan>>
    BY <1>4, LaterIfSame DEF Select, history
  <2>2. \A s \in found : /\ OperationOf[s] = worker[w].operation
                         /\ approval[ApprovalOf[s]] = "executed"
    BY DEF Equivalent, Deleted
  <2>3. worker[w].pc = "select"
    BY <1>4 DEF Select
  <2>4. worker' = [worker EXCEPT ![w].claimed = found,
                                 ![w].pc = IF found = {} THEN "release" ELSE "claim"]
    BY <1>4 DEF Select
  <2>5. /\ worker'[w].pc \in {"claim", "release"}
        /\ worker'[w].claimed = found
        /\ worker'[w].completed = worker[w].completed
        /\ worker'[w].operation = worker[w].operation
        /\ \A v \in Workers \ {w} : worker'[v] = worker[v]
    <3> HIDE DEF found
    <3> QED
      BY <2>4 DEF WorkersOK, Locals
  <2>6. worker[w].completed = {}
    BY <1>0, <2>3 DEF Known, BeforeRefresh
  <2>7. Known(worker'[w], approval', covered')
    <3> HIDE DEF found
    <3> QED
      BY <2>1, <2>2, <2>5, <2>6 DEF Known, OperationSteps
  <2> QED
    BY <2>1, <2>5, <2>7, OneWorkerSteps, RowsStayTrue
<1>5. ASSUME Claim(w) PROVE WorkKnown' /\ RecordedMeansRefreshed'
  <2> DEFINE found == {s \in worker[w].claimed : Candidate(s)}
  <2>1. Later /\ UNCHANGED <<approval, covered>>
    BY <1>5, LaterIfSame DEF Claim, history
  <2>2. worker[w].pc = "claim"
    BY <1>5 DEF Claim
  <2>3. worker' = [worker EXCEPT ![w].claimed = found,
                                 ![w].pc = IF found = {} THEN "release" ELSE "confirm"]
    BY <1>5 DEF Claim
  <2>4. /\ worker'[w].pc \in {"confirm", "release"}
        /\ worker'[w].claimed = found
        /\ worker'[w].completed = worker[w].completed
        /\ worker'[w].operation = worker[w].operation
        /\ \A v \in Workers \ {w} : worker'[v] = worker[v]
    <3> HIDE DEF found
    <3> QED
      BY <2>3 DEF WorkersOK, Locals
  <2>5. worker[w].completed = {}
    BY <1>0, <2>2 DEF Known, BeforeRefresh
  <2>6. Known(worker'[w], approval', covered')
    <3>1. \A s \in found : s \in worker[w].claimed
      OBVIOUS
    <3> HIDE DEF found
    <3> QED
      BY <1>0, <2>1, <2>4, <2>5, <3>1 DEF Known, OperationSteps
  <2>7. \A s \in Scans : scan'[s].status \in Done => scan[s].status \in Done
    BY <1>5 DEF Claim, RowsOK, Done
  <2> QED
    BY <2>1, <2>4, <2>6, <2>7, OneWorkerSteps, RowsStayTrue
<1>6. ASSUME Confirm(w) PROVE WorkKnown' /\ RecordedMeansRefreshed'
  <2>1. worker[w].pc = "confirm" /\ worker'[w].pc \in {"candidate", "fail"}
    BY <1>6 DEF Confirm, WorkersOK, Locals
  <2>2. /\ worker'[w].claimed = worker[w].claimed
        /\ worker'[w].completed = worker[w].completed
        /\ worker'[w].operation = worker[w].operation
        /\ \A v \in Workers \ {w} : worker'[v] = worker[v]
    BY <1>6 DEF Confirm, WorkersOK, Locals
  <2>3. Moves(w)
    BY <1>0, <2>1, <2>2 DEF Moves, Known, OperationSteps, BeforeRefresh
  <2> QED
    BY <1>6, <2>3, LaterIfSame, MoveKnows, RowsStayTrue DEF Confirm, history
<1>7. ASSUME PreparationFails(w) PROVE WorkKnown' /\ RecordedMeansRefreshed'
  <2>1. Moves(w)
    BY <1>7 DEF PreparationFails, Moves, WorkersOK, Locals, OperationSteps, BeforeRefresh
  <2> QED
    BY <1>7, <2>1, LaterIfSame, MoveKnows, RowsStayTrue DEF PreparationFails, history
<1>8. ASSUME FailUnread(w) PROVE WorkKnown' /\ RecordedMeansRefreshed'
  <2>1. Moves(w)
    BY <1>8 DEF FailUnread, Moves, WorkersOK, Locals, OperationSteps, BeforeRefresh
  <2> QED
    BY <1>8, <2>1, LaterIfSame, MoveKnows, RowsStayTrue DEF FailUnread, history
<1> QED
  BY <1>1, <1>2, <1>3, <1>4, <1>5, <1>6, <1>7, <1>8

\* A plan that counts as completed is completed.
LEMMA CandidateKeeps ==
  ASSUME Inv, NEW w \in Workers
  PROVE  /\ \A s \in Scans : TryCandidate(w, s) \/ CandidateUnavailable(w, s)
              => WorkKnown' /\ RecordedMeansRefreshed'
         /\ CandidatesExhausted(w) \/ AuthorityFails(w) => WorkKnown' /\ RecordedMeansRefreshed'
         /\ RecordProgress(w) \/ NextSection(w) \/ Verify(w)
              => WorkKnown' /\ RecordedMeansRefreshed'
<1> USE DEF Inv, TypeOK
<1>0. Known(worker[w], approval, covered)
  BY DEF WorkKnown
<1>1. ASSUME NEW s \in Scans, TryCandidate(w, s) PROVE WorkKnown' /\ RecordedMeansRefreshed'
  <2>1. worker[w].pc = "candidate"
    BY <1>1 DEF TryCandidate
  <2>2. worker[w].completed = {}
    BY <1>0, <2>1 DEF Known, BeforeRefresh
  <2>3. worker'[w].pc = IF Plan[worker[w].operation] = {} THEN "verify" ELSE "refresh"
    BY <1>1 DEF TryCandidate, WorkersOK, Locals
  <2>4. /\ worker'[w].claimed = worker[w].claimed
        /\ worker'[w].completed = worker[w].completed
        /\ worker'[w].operation = worker[w].operation
        /\ \A v \in Workers \ {w} : worker'[v] = worker[v]
    BY <1>1 DEF TryCandidate, WorkersOK, Locals
  <2>5. Moves(w)
    BY <2>1, <2>2, <2>3, <2>4 DEF Moves, OperationSteps, BeforeRefresh
  <2> QED
    BY <1>1, <2>5, LaterIfSame, MoveKnows, RowsStayTrue DEF TryCandidate, history
<1>2. ASSUME NEW s \in Scans, CandidateUnavailable(w, s)
      PROVE  WorkKnown' /\ RecordedMeansRefreshed'
  <2>1. Moves(w)
    BY <1>0, <1>2 DEF CandidateUnavailable, Moves, Known, WorkersOK, Locals, OperationSteps,
                      BeforeRefresh
  <2> QED
    BY <1>2, <2>1, LaterIfSame, MoveKnows, RowsStayTrue DEF CandidateUnavailable, history
<1>3. ASSUME CandidatesExhausted(w) PROVE WorkKnown' /\ RecordedMeansRefreshed'
  <2>1. Moves(w)
    BY <1>3 DEF CandidatesExhausted, Moves, WorkersOK, Locals, OperationSteps, BeforeRefresh
  <2> QED
    BY <1>3, <2>1, LaterIfSame, MoveKnows, RowsStayTrue DEF CandidatesExhausted, history
<1>4. ASSUME AuthorityFails(w) PROVE WorkKnown' /\ RecordedMeansRefreshed'
  <2>1. CASE worker' = [worker EXCEPT ![w] =
               [worker[w] EXCEPT !.authorityFailed = TRUE, !.pc = "fail"]]
    <3>1. worker[w].pc \in OperationSteps
      BY <1>4 DEF AuthorityFails, OperationSteps
    <3>2. worker'[w].pc = "fail"
      BY <2>1 DEF WorkersOK, Locals
    <3>3. /\ worker'[w].claimed = worker[w].claimed
          /\ worker'[w].completed = worker[w].completed
          /\ worker'[w].operation = worker[w].operation
          /\ \A v \in Workers \ {w} : worker'[v] = worker[v]
      BY <2>1 DEF WorkersOK, Locals
    <3>4. Moves(w)
      BY <3>1, <3>2, <3>3 DEF Moves, OperationSteps, BeforeRefresh
    <3> QED
      BY <1>4, <3>4, LaterIfSame, MoveKnows, RowsStayTrue DEF AuthorityFails, history
  <2>2. CASE worker' = [worker EXCEPT ![w] =
               [Leave(w) EXCEPT !.authorityFailed = TRUE, !.pc = "final"]]
    <3>1. Clears(w)
      BY <2>2 DEF Clears, Leave, WorkersOK, Locals, OperationSteps
    <3> QED
      BY <1>4, <3>1, LaterIfSame, ClearKnows, RowsStayTrue DEF AuthorityFails, history
  <2> QED
    BY <1>4, <2>1, <2>2 DEF AuthorityFails
<1>5. ASSUME RecordProgress(w) PROVE WorkKnown' /\ RecordedMeansRefreshed'
  <2>1. worker[w].pc = "progress"
    BY <1>5 DEF RecordProgress
  <2>2. worker'[w].pc = IF worker[w].completed = Plan[worker[w].operation]
                          THEN "verify" ELSE "section"
    BY <1>5 DEF RecordProgress, WorkersOK, Locals
  <2>3. /\ worker'[w].claimed = worker[w].claimed
        /\ worker'[w].completed = worker[w].completed
        /\ worker'[w].operation = worker[w].operation
        /\ \A v \in Workers \ {w} : worker'[v] = worker[v]
    BY <1>5 DEF RecordProgress, WorkersOK, Locals
  <2>4. Moves(w)
    BY <2>1, <2>2, <2>3 DEF Moves, OperationSteps, BeforeRefresh
  <2> QED
    BY <1>5, <2>4, LaterIfSame, MoveKnows, RowsStayTrue DEF RecordProgress, history
<1>6. ASSUME NextSection(w) PROVE WorkKnown' /\ RecordedMeansRefreshed'
  <2>1. Moves(w)
    BY <1>6 DEF NextSection, Moves, WorkersOK, Locals, OperationSteps, BeforeRefresh
  <2> QED
    BY <1>6, <2>1, LaterIfSame, MoveKnows, RowsStayTrue DEF NextSection, history
<1>7. ASSUME Verify(w) PROVE WorkKnown' /\ RecordedMeansRefreshed'
  <2>1. Moves(w)
    BY <1>0, <1>7 DEF Verify, Moves, Known, WorkersOK, Locals, OperationSteps, BeforeRefresh
  <2> QED
    BY <1>7, <2>1, LaterIfSame, MoveKnows, RowsStayTrue DEF Verify, history
<1> QED
  BY <1>1, <1>2, <1>3, <1>4, <1>5, <1>6, <1>7

\* The scans of an operation that were claimed had been deleted: a refresh
\* covers them all.
LEMMA RefreshCovers ==
  ASSUME Inv, NEW w \in Workers, NEW x,
         covered' = CoveredBy(worker[w].operation, x), UNCHANGED approval
  PROVE  /\ Later
         /\ \A s \in worker[w].claimed :
              worker[w].completed \cup {x} \subseteq covered'[s]
<1> USE DEF Inv, TypeOK
<1>1. Later
  BY DEF Later, CoveredBy, HistoryOK
<1>2. ASSUME NEW s \in worker[w].claimed
      PROVE  worker[w].completed \cup {x} \subseteq covered'[s]
  <2>1. /\ s \in Scans
        /\ OperationOf[s] = worker[w].operation
        /\ approval[ApprovalOf[s]] = "executed"
        /\ worker[w].completed \subseteq covered[s]
    BY <1>2 DEF WorkKnown, Known, WorkersOK, Locals
  <2>2. covered'[s] = covered[s] \cup {x}
    BY <2>1 DEF CoveredBy
  <2> QED
    BY <2>1, <2>2
<1> QED
  BY <1>1, <1>2

LEMMA RefreshKeeps ==
  ASSUME Inv, NEW w \in Workers, NEW x \in Sections, Refresh(w, x)
  PROVE  WorkKnown' /\ RecordedMeansRefreshed'
<1> USE DEF Inv, TypeOK
<1> DEFINE o == worker[w].operation
<1>0. Known(worker[w], approval, covered) /\ worker[w].pc = "refresh"
  BY DEF WorkKnown, Refresh
<1>1. /\ Later
      /\ UNCHANGED <<approval, scan>>
      /\ \A s \in worker[w].claimed : worker[w].completed \cup {x} \subseteq covered'[s]
  BY RefreshCovers DEF Refresh
<1>2. /\ worker'[w].claimed = worker[w].claimed
      /\ worker'[w].operation = o
      /\ worker'[w].completed = worker[w].completed \cup {x}
      /\ worker'[w].pc = IF o \in PlexOperations THEN "progress" ELSE "verify"
      /\ \A v \in Workers \ {w} : worker'[v] = worker[v]
  BY DEF Refresh, WorkersOK, Locals
<1>3. /\ worker[w].completed \subseteq Plan[o]
      /\ x \in Plan[o] \ worker[w].completed
      /\ o \in Operations
  BY <1>0 DEF Known, Refresh, OperationSteps, WorkersOK, Locals
<1>4. o \notin PlexOperations => Plan[o] = worker[w].completed \cup {x}
  BY <1>3, OneLibraryElsewhere
<1>5. Known(worker'[w], approval', covered')
  <2>1. \A s \in worker'[w].claimed : /\ OperationOf[s] = worker'[w].operation
                                      /\ approval'[ApprovalOf[s]] = "executed"
                                      /\ worker'[w].completed \subseteq covered'[s]
    BY <1>0, <1>1, <1>2 DEF Known
  <2>2. worker'[w].pc \in OperationSteps \ BeforeRefresh
    BY <1>2 DEF OperationSteps, BeforeRefresh
  <2>3. worker'[w].completed \subseteq Plan[worker'[w].operation]
    BY <1>2, <1>3
  <2>4. worker'[w].pc \in {"verify", "record"} =>
          worker'[w].completed = Plan[worker'[w].operation]
    BY <1>2, <1>4
  <2> QED
    BY <2>1, <2>2, <2>3, <2>4 DEF Known
<1> QED
  BY <1>1, <1>2, <1>5, OneWorkerSteps, RowsStayTrue

\* An outcome is recorded only for a completed plan.
LEMMA OutcomeKeeps ==
  ASSUME Inv, NEW w \in Workers
  PROVE  /\ \A x \in Sections : RefreshFails(w, x) => WorkKnown' /\ RecordedMeansRefreshed'
         /\ OutcomeOpen(w) \/ Record(w) \/ Fail(w) \/ Release(w)
              => WorkKnown' /\ RecordedMeansRefreshed'
<1> USE DEF Inv, TypeOK
<1>0. Known(worker[w], approval, covered)
  BY DEF WorkKnown
<1>a. ASSUME worker' = [worker EXCEPT ![w] = Leave(w)] PROVE Clears(w)
  BY <1>a DEF Clears, Leave, WorkersOK, Locals, OperationSteps
<1>1. ASSUME NEW x \in Sections, RefreshFails(w, x)
      PROVE  WorkKnown' /\ RecordedMeansRefreshed'
  <2>1. Later /\ UNCHANGED scan
    BY <1>1, RefreshCovers, LaterIfSame DEF RefreshFails
  <2>2. CASE worker' = [worker EXCEPT ![w] = Leave(w)]
    BY <1>a, <2>1, <2>2, ClearKnows, RowsStayTrue
  <2>3. CASE /\ worker[w].completed = {}
             /\ worker' = [worker EXCEPT ![w] =
                  [worker[w] EXCEPT !.tried = worker[w].tried \cup {worker[w].candidate},
                                    !.pc = "candidate"]]
    <3>1. worker[w].pc = "refresh"
      BY <1>1 DEF RefreshFails
    <3>2. Moves(w)
      BY <2>3, <3>1 DEF Moves, WorkersOK, Locals, OperationSteps, BeforeRefresh
    <3> QED
      BY <2>1, <3>2, MoveKnows, RowsStayTrue
  <2> QED
    BY <1>1, <2>2, <2>3 DEF RefreshFails
<1>2. ASSUME OutcomeOpen(w) PROVE WorkKnown' /\ RecordedMeansRefreshed'
  <2>1. Clears(w)
    BY <1>a, <1>2 DEF OutcomeOpen, LeaveAmbiguous
  <2> QED
    BY <1>2, <2>1, LaterIfSame, ClearKnows, RowsStayTrue DEF OutcomeOpen, history
<1>3. ASSUME Record(w) PROVE WorkKnown' /\ RecordedMeansRefreshed'
  <2> DEFINE mine == {s \in worker[w].claimed : Owned(s, worker[w].token)}
  <2>1. Later /\ UNCHANGED <<approval, covered>> /\ worker[w].pc = "record"
    BY <1>3, LaterIfSame DEF Record
  <2>2. WorkKnown'
    <3>1. CASE worker' = [worker EXCEPT ![w] = Leave(w)]
      BY <1>a, <2>1, <3>1, ClearKnows
    <3>2. CASE worker' = [worker EXCEPT ![w] = [worker[w] EXCEPT !.pc = "release"]]
      <4>1. Moves(w)
        BY <2>1, <3>2 DEF Moves, WorkersOK, Locals, OperationSteps, BeforeRefresh
      <4> QED
        BY <2>1, <4>1, MoveKnows
    <3> QED
      BY <1>3, <3>1, <3>2 DEF Record
  <2>3. ASSUME NEW s \in Scans, scan'[s].status \in Done
        PROVE  Plan[OperationOf[s]] \subseteq covered'[s]
    <3>1. CASE s \in mine
      BY <1>0, <2>1, <3>1 DEF Known
    <3>2. CASE s \notin mine
      <4>1. scan'[s] = scan[s]
        BY <1>3, <3>2 DEF Record
      <4> QED
        BY <2>1, <2>3, <4>1 DEF RecordedMeansRefreshed, Done
    <3> QED
      BY <3>1, <3>2
  <2> QED
    BY <2>2, <2>3 DEF RecordedMeansRefreshed, Done
<1>4. ASSUME Fail(w) PROVE WorkKnown' /\ RecordedMeansRefreshed'
  <2>1. worker[w].pc = "fail" /\ worker'[w].pc = "release"
    BY <1>4 DEF Fail, WorkersOK, Locals
  <2>2. /\ worker'[w].claimed = worker[w].claimed
        /\ worker'[w].completed = worker[w].completed
        /\ worker'[w].operation = worker[w].operation
        /\ \A v \in Workers \ {w} : worker'[v] = worker[v]
    BY <1>4 DEF Fail, WorkersOK, Locals
  <2>3. Moves(w)
    BY <2>1, <2>2 DEF Moves, OperationSteps, BeforeRefresh
  <2>4. \A s \in Scans : scan'[s].status \in Done => scan[s].status \in Done
    BY <1>4 DEF Fail, RowsOK, Done
  <2> QED
    BY <1>4, <2>3, <2>4, LaterIfSame, MoveKnows, RowsStayTrue DEF Fail, history
<1>5. ASSUME Release(w) PROVE WorkKnown' /\ RecordedMeansRefreshed'
  <2>1. Clears(w)
    BY <1>a, <1>5 DEF Release
  <2> QED
    BY <1>5, <2>1, LaterIfSame, ClearKnows, RowsStayTrue DEF Release, history
<1> QED
  BY <1>1, <1>2, <1>3, <1>4, <1>5

LEMMA NextKeepsInv == Inv /\ [Next]_vars => Inv'
<1> SUFFICES ASSUME Inv, [Next]_vars PROVE WorkKnown' /\ RecordedMeansRefreshed'
  BY NextTypes DEF Inv
<1>1. ASSUME NEW w \in Workers, Proceeds(w) \/ Suffers(w)
      PROVE  WorkKnown' /\ RecordedMeansRefreshed'
  BY <1>1, CallKeeps, ClaimKeeps, CandidateKeeps, RefreshKeeps, OutcomeKeeps
     DEF Proceeds, Suffers
<1>2. ASSUME NEW w \in Workers, NEW u \in Users, FollowUp(w, u)
      PROVE  WorkKnown' /\ RecordedMeansRefreshed'
  BY <1>2, CallKeeps
<1>3. CASE UNCHANGED vars
  BY <1>3 DEF vars, Inv, WorkKnown, RecordedMeansRefreshed
<1> QED
  BY <1>1, <1>2, <1>3, EnvironmentKeeps DEF Next

\* A scan that is recorded as done was done after its deletion, whatever failed,
\* crashed or stalled on the way.
THEOREM RecordsAreTrue == Spec => []RecordedMeansRefreshed
<1>1. Inv => RecordedMeansRefreshed
  BY DEF Inv
<1> QED
  BY <1>1, InitInv, NextKeepsInv, PTL DEF Spec

-----------------------------------------------------------------------------
(***************************************************************************)
(* What the lease of an operation guarantees although it may be lost: a    *)
(* worker sends at most one refresh too many, and nobody repeats a refresh *)
(* whose outcome is unknown while its lease is fresh.  Both follow from    *)
(* one invariant, which says what a lease, the token of a worker and an    *)
(* unrecorded refresh know of each other.                                  *)
(***************************************************************************)

InOperation(w) == worker[w].pc \in OperationSteps

\* Two workers never have the same token.
TokensApart ==
  \A v, w \in Workers : v # w /\ InOperation(v) /\ InOperation(w) =>
                          worker[v].token # worker[w].token

\* An unrecorded refresh is protected by a fresh lease under its token.
UnsettledIsLeased ==
  \A o \in Operations : unsettled[o] # NoToken =>
    lease[o].token = unsettled[o] /\ ~lease[o].stale

\* A worker that has sent a refresh too many has lost its lease and is not
\* about to send another one.
StrayStops(w) ==
  /\ strays[w] <= 1
  /\ InOperation(w) /\ strays[w] # 0 => ~HoldsLease(w) /\ worker[w].pc # "refresh"

\* A worker that holds its lease and has nothing sent, or everything recorded,
\* has no refresh whose outcome is unknown.
NothingOpen(w) ==
  InOperation(w) /\ HoldsLease(w) /\ (worker[w].completed = {} \/ worker[w].pc = "release")
    => unsettled[worker[w].operation] = NoToken

\* An attempt that is recorded as failed has sent nothing.
FailsEmpty(w) == worker[w].pc = "fail" => worker[w].completed = {}

LeaseKnown ==
  /\ TokensApart
  /\ UnsettledIsLeased
  /\ \A w \in Workers : StrayStops(w) /\ NothingOpen(w) /\ FailsEmpty(w)

LeaseInv == Inv /\ LeaseKnown

LEMMA InitLeaseInv == Init => LeaseInv
<1> SUFFICES ASSUME Init PROVE LeaseKnown
  BY InitInv DEF LeaseInv
<1> QED
  BY DEF Init, Idle, LeaseKnown, TokensApart, UnsettledIsLeased, StrayStops, NothingOpen,
         FailsEmpty, InOperation, OperationSteps

-----------------------------------------------------------------------------
(***************************************************************************)
(* Most steps keep all this because they change no token and send nothing. *)
(***************************************************************************)

\* The leases keep their tokens, and none expires.
LeasesStay ==
  \A o \in Operations : /\ lease'[o].token = lease[o].token
                        /\ lease'[o].stale => lease[o].stale

\* The worker stays in its operation, if it is in one afterwards.
GoesOn(w) ==
  worker'[w].pc \in OperationSteps =>
    /\ worker[w].pc \in OperationSteps
    /\ worker'[w].operation = worker[w].operation
    /\ worker'[w].token = worker[w].token
    /\ worker'[w].pc = "refresh" => strays[w] = 0
    /\ worker'[w].completed = {} \/ worker'[w].pc = "release" => worker[w].completed = {}
    /\ worker'[w].pc = "fail" => worker'[w].completed = {}

OthersStay(w) == \A v \in Workers \ {w} : worker'[v] = worker[v]

LEMMA CalmStepKeeps ==
  ASSUME Inv, LeaseKnown, NEW w \in Workers, LeasesStay, GoesOn(w), OthersStay(w),
         UNCHANGED <<unsettled, strays>>
  PROVE  LeaseKnown'
<1> USE DEF InOperation
<1>0. worker \in [Workers -> Locals]
  BY DEF Inv, TypeOK, WorkersOK
<1>1. ASSUME NEW v \in Workers, InOperation(v)'
      PROVE  /\ InOperation(v)
             /\ worker'[v].operation = worker[v].operation
             /\ worker'[v].token = worker[v].token
             /\ worker[v].operation \in Operations
             /\ HoldsLease(v)' => HoldsLease(v)
  <2>1. /\ InOperation(v)
        /\ worker'[v].operation = worker[v].operation
        /\ worker'[v].token = worker[v].token
    BY <1>1 DEF GoesOn, OthersStay
  <2>2. worker[v].operation \in Operations
    BY <1>0, <2>1 DEF Inv, TypeOK, WorkersOK, Locals
  <2> QED
    BY <2>1, <2>2 DEF LeasesStay, HoldsLease
<1>2. TokensApart'
  BY <1>1 DEF LeaseKnown, TokensApart
<1>3. UnsettledIsLeased'
  BY DEF LeaseKnown, UnsettledIsLeased, LeasesStay
<1>4. ASSUME NEW v \in Workers PROVE StrayStops(v)'
  BY <1>1 DEF LeaseKnown, StrayStops, GoesOn, OthersStay
<1>5. ASSUME NEW v \in Workers PROVE NothingOpen(v)'
  BY <1>1 DEF LeaseKnown, NothingOpen, GoesOn, OthersStay
<1>6. ASSUME NEW v \in Workers PROVE FailsEmpty(v)'
  BY DEF LeaseKnown, FailsEmpty, GoesOn, OthersStay, OperationSteps
<1> QED
  BY <1>2, <1>3, <1>4, <1>5, <1>6 DEF LeaseKnown

\* The leases do not change when a step leaves them alone or renews one.
LEMMA LeasesStayIfSame ==
  ASSUME UNCHANGED lease PROVE LeasesStay
  BY DEF LeasesStay

LEMMA LeasesStayIfRenewed ==
  ASSUME Inv, NEW w \in Workers, Renew(w)
  PROVE  LeasesStay
  BY DEF Inv, TypeOK, RowsOK, Renew, LeasesStay

\* Before its first refresh a worker has sent nothing.
LEMMA NothingSent ==
  ASSUME Inv, NEW w \in Workers
  PROVE  /\ worker[w].pc \in BeforeRefresh => worker[w].completed = {}
         /\ worker[w].pc \notin OperationSteps => worker[w].completed = {}
  BY DEF Inv, WorkKnown, Known

-----------------------------------------------------------------------------
\* The environment, and the steps of a call outside its operations.
LEMMA EnvironmentKeepsLeases ==
  ASSUME LeaseInv
  PROVE  /\ \A a \in Approvals : Prepare(a) \/ Delete(a) \/ Execute(a) => LeaseKnown'
         /\ \A s \in Scans : BackoffElapses(s) => LeaseKnown'
         /\ \A o \in Operations : LeaseExpires(o) => LeaseKnown'
<1> USE DEF LeaseInv
<1>1. ASSUME UNCHANGED <<worker, lease, unsettled, strays>> PROVE LeaseKnown'
  BY <1>1 DEF LeaseKnown, TokensApart, UnsettledIsLeased, StrayStops, NothingOpen, FailsEmpty,
              InOperation, HoldsLease
<1>2. ASSUME NEW a \in Approvals, Prepare(a) \/ Delete(a) \/ Execute(a) PROVE LeaseKnown'
  BY <1>1, <1>2 DEF Prepare, Delete, Execute, history
<1>3. ASSUME NEW s \in Scans, BackoffElapses(s) PROVE LeaseKnown'
  BY <1>1, <1>3 DEF BackoffElapses, history
<1>4. ASSUME NEW o \in Operations, LeaseExpires(o) PROVE LeaseKnown'
  <2>1. /\ UNCHANGED <<worker, strays>>
        /\ \A p \in Operations : lease'[p].token = lease[p].token
        /\ \A p \in Operations \ {o} : lease'[p] = lease[p] /\ unsettled'[p] = unsettled[p]
        /\ unsettled'[o] = NoToken
    BY <1>4 DEF LeaseExpires, Inv, TypeOK, RowsOK, HistoryOK
  <2>2. ASSUME NEW v \in Workers, InOperation(v)
        PROVE  worker[v].operation \in Operations /\ (HoldsLease(v)' <=> HoldsLease(v))
    BY <2>1, <2>2 DEF InOperation, HoldsLease, Inv, TypeOK, WorkersOK, Locals
  <2>3. TokensApart'
    BY <2>1 DEF LeaseKnown, TokensApart, InOperation
  <2>4. UnsettledIsLeased'
    BY <2>1 DEF LeaseKnown, UnsettledIsLeased
  <2>5. ASSUME NEW v \in Workers PROVE StrayStops(v)' /\ NothingOpen(v)' /\ FailsEmpty(v)'
    BY <2>1, <2>2 DEF LeaseKnown, StrayStops, NothingOpen, FailsEmpty, InOperation
  <2> QED
    BY <2>3, <2>4, <2>5 DEF LeaseKnown
<1> QED
  BY <1>2, <1>3, <1>4

\* A call that is in no operation afterwards.
LEMMA OutsideKeeps ==
  ASSUME LeaseInv, NEW w \in Workers, worker'[w].pc \notin OperationSteps, OthersStay(w),
         UNCHANGED <<lease, unsettled, strays>>
  PROVE  LeaseKnown'
  BY CalmStepKeeps, LeasesStayIfSame DEF LeaseInv, GoesOn

LEMMA CallKeepsLeases ==
  ASSUME LeaseInv, NEW w \in Workers
  PROVE  /\ \A u \in Users : FollowUp(w, u) => LeaseKnown'
         /\ \A a \in Approvals : Open(w, a) \/ AuditUnavailable(w, a) \/ RecordFinal(w, a)
              => LeaseKnown'
         /\ FinalDone(w) \/ CallFails(w) \/ Finish(w) \/ Crash(w) => LeaseKnown'
         /\ \A o \in Operations : SkipOperation(w, o) => LeaseKnown'
         /\ OperationsDone(w) => LeaseKnown'
<1>0. worker \in [Workers -> Locals]
  BY DEF LeaseInv, Inv, TypeOK, WorkersOK
<1>1. ASSUME NEW u \in Users, FollowUp(w, u) PROVE LeaseKnown'
  <2>1. /\ worker'[w].pc \notin OperationSteps
        /\ OthersStay(w)
        /\ UNCHANGED <<lease, unsettled, strays>>
    BY <1>0, <1>1 DEF FollowUp, Start, Idle, OthersStay, OperationSteps, history
  <2> QED
    BY <2>1, OutsideKeeps
<1>2. ASSUME NEW a \in Approvals, Open(w, a) \/ AuditUnavailable(w, a) \/ RecordFinal(w, a)
      PROVE  LeaseKnown'
  <2>1. /\ worker'[w].pc \notin OperationSteps
        /\ OthersStay(w)
    <3>1. CASE Open(w, a)
      <4>1. worker'[w].pc \in {"final", "operation"} /\ OthersStay(w)
        BY <1>0, <3>1 DEF Open, Locals, OthersStay
      <4> QED
        BY <4>1 DEF OperationSteps
    <3>2. CASE AuditUnavailable(w, a)
      BY <1>0, <3>2 DEF AuditUnavailable, Locals, OthersStay, OperationSteps
    <3>3. CASE RecordFinal(w, a)
      <4>1. /\ worker[w].pc = "final"
            /\ worker' = [worker EXCEPT ![w].affected = @ \ {a}]
        BY <3>3 DEF RecordFinal
      <4> QED
        BY <1>0, <4>1 DEF Locals, OthersStay, OperationSteps
    <3> QED
      BY <1>2, <3>1, <3>2, <3>3
  <2>2. UNCHANGED <<lease, unsettled, strays>>
    BY <1>2 DEF Open, AuditUnavailable, RecordFinal, history
  <2> QED
    BY <2>1, <2>2, OutsideKeeps
<1>3. ASSUME FinalDone(w) \/ CallFails(w) \/ Finish(w) \/ Crash(w) PROVE LeaseKnown'
  <2>1. /\ worker'[w].pc \notin OperationSteps
        /\ OthersStay(w)
    <3>1. CASE FinalDone(w)
      BY <1>0, <3>1 DEF FinalDone, Locals, OthersStay, OperationSteps
    <3>2. CASE CallFails(w)
      <4>1. worker'[w].pc = "next" /\ OthersStay(w)
        BY <1>0, <3>2 DEF CallFails, Idle, OthersStay
      <4> QED
        BY <4>1 DEF OperationSteps
    <3>3. CASE Finish(w) \/ Crash(w)
      <4>1. worker' = [worker EXCEPT ![w] = Idle]
        BY <3>3 DEF Finish, Crash
      <4> QED
        BY <1>0, <4>1 DEF Idle, OthersStay, OperationSteps
    <3> QED
      BY <1>3, <3>1, <3>2, <3>3
  <2>2. UNCHANGED <<lease, unsettled, strays>>
    BY <1>3 DEF FinalDone, CallFails, Finish, Crash, history
  <2> QED
    BY <2>1, <2>2, OutsideKeeps
<1>4. ASSUME NEW o \in Operations, SkipOperation(w, o) \/ OperationsDone(w) PROVE LeaseKnown'
  <2>1. /\ worker'[w].pc \notin OperationSteps
        /\ OthersStay(w)
    BY <1>0, <1>4 DEF SkipOperation, OperationsDone, Locals, OthersStay, OperationSteps
  <2>2. UNCHANGED <<lease, unsettled, strays>>
    BY <1>4 DEF SkipOperation, OperationsDone, history
  <2> QED
    BY <2>1, <2>2, OutsideKeeps
<1>5. ASSUME OperationsDone(w) PROVE LeaseKnown'
  <2>1. /\ worker'[w].pc \notin OperationSteps
        /\ OthersStay(w)
    BY <1>0, <1>5 DEF OperationsDone, Locals, OthersStay, OperationSteps
  <2> QED
    BY <1>5, <2>1, OutsideKeeps DEF OperationsDone, history
<1> QED
  BY <1>1, <1>2, <1>3, <1>4, <1>5

-----------------------------------------------------------------------------
\* A new lease has a new token, and is taken only where nothing is open.
LEMMA AcquireKeepsLeases ==
  ASSUME LeaseInv, NEW w \in Workers, NEW o \in Operations, NEW t \in Tokens,
         AcquireOperation(w, o, t)
  PROVE  LeaseKnown'
<1> USE DEF LeaseInv, InOperation
<1>0. /\ worker \in [Workers -> Locals]
      /\ lease \in [Operations -> [token : Tokens \cup {NoToken}, stale : BOOLEAN]]
      /\ strays \in [Workers -> Nat]
  BY DEF Inv, TypeOK, RowsOK, WorkersOK, HistoryOK
<1>1. /\ worker'[w].pc = "select"
      /\ worker'[w].operation = o
      /\ worker'[w].token = t
      /\ worker'[w].completed = worker[w].completed
      /\ OthersStay(w)
  BY <1>0 DEF AcquireOperation, Locals, OthersStay
<1>2. /\ lease'[o].token = t
      /\ ~lease'[o].stale
      /\ \A p \in Operations \ {o} : lease'[p] = lease[p]
      /\ UNCHANGED unsettled
  BY <1>0 DEF AcquireOperation
<1>3. /\ strays'[w] = 0
      /\ \A v \in Workers \ {w} : strays'[v] = strays[v]
  BY <1>0 DEF AcquireOperation
<1>4. \A v \in Workers : worker[v].token # t
  BY DEF AcquireOperation, Unused
<1>5. unsettled[o] = NoToken
  BY DEF LeaseKnown, UnsettledIsLeased, AcquireOperation, LeaseFree
<1>6. ASSUME NEW v \in Workers \ {w}, InOperation(v)
      PROVE  HoldsLease(v)' => HoldsLease(v)
  <2>1. worker[v].operation \in Operations
    BY <1>6 DEF Inv, TypeOK, WorkersOK, Locals
  <2> QED
    BY <1>1, <1>2, <1>4, <2>1 DEF HoldsLease, OthersStay
<1>7. TokensApart'
  BY <1>1, <1>4 DEF LeaseKnown, TokensApart, OthersStay
<1>8. UnsettledIsLeased'
  BY <1>2, <1>5 DEF LeaseKnown, UnsettledIsLeased
<1>9. StrayStops(w)' /\ NothingOpen(w)' /\ FailsEmpty(w)'
  BY <1>1, <1>2, <1>3, <1>5 DEF StrayStops, NothingOpen, FailsEmpty
<1>10. ASSUME NEW v \in Workers \ {w}
       PROVE  StrayStops(v)' /\ NothingOpen(v)' /\ FailsEmpty(v)'
  BY <1>1, <1>2, <1>3, <1>6 DEF LeaseKnown, StrayStops, NothingOpen, FailsEmpty, OthersStay
<1> QED
  BY <1>7, <1>8, <1>9, <1>10 DEF LeaseKnown

\* The steps up to the first refresh, and those that end an attempt.
LEMMA AttemptKeepsLeases ==
  ASSUME LeaseInv, NEW w \in Workers
  PROVE  /\ Select(w) \/ Claim(w) \/ Confirm(w) \/ PreparationFails(w) \/ FailUnread(w)
              => LeaseKnown'
         /\ CandidatesExhausted(w) \/ Fail(w) => LeaseKnown'
         /\ \A s \in Scans : TryCandidate(w, s) \/ CandidateUnavailable(w, s) => LeaseKnown'
<1> USE DEF LeaseInv
<1>0. worker \in [Workers -> Locals]
  BY DEF Inv, TypeOK, WorkersOK
<1>a. ASSUME worker[w].pc \in BeforeRefresh \cup {"fail"},
             worker'[w].pc \in OperationSteps \ {"refresh"},
             worker'[w].operation = worker[w].operation,
             worker'[w].token = worker[w].token,
             worker'[w].completed = worker[w].completed,
             OthersStay(w), UNCHANGED <<lease, unsettled, strays>>
      PROVE  LeaseKnown'
  <2>1. worker[w].completed = {}
    BY <1>a, NothingSent DEF LeaseKnown, FailsEmpty
  <2>2. GoesOn(w)
    BY <1>a, <2>1 DEF GoesOn, BeforeRefresh, OperationSteps
  <2> QED
    BY <1>a, <2>2, CalmStepKeeps, LeasesStayIfSame
<1>1. ASSUME Select(w) PROVE LeaseKnown'
  <2>1. /\ worker[w].pc = "select"
        /\ worker'[w].pc \in {"release", "claim"}
        /\ worker'[w].operation = worker[w].operation
        /\ worker'[w].token = worker[w].token
        /\ worker'[w].completed = worker[w].completed
        /\ OthersStay(w)
    BY <1>0, <1>1 DEF Select, Locals, OthersStay
  <2> QED
    BY <1>1, <1>a, <2>1 DEF Select, history, BeforeRefresh, OperationSteps
<1>2. ASSUME Claim(w) PROVE LeaseKnown'
  <2>1. /\ worker[w].pc = "claim"
        /\ worker'[w].pc \in {"release", "confirm"}
        /\ worker'[w].operation = worker[w].operation
        /\ worker'[w].token = worker[w].token
        /\ worker'[w].completed = worker[w].completed
        /\ OthersStay(w)
    BY <1>0, <1>2 DEF Claim, Locals, OthersStay
  <2> QED
    BY <1>2, <1>a, <2>1 DEF Claim, history, BeforeRefresh, OperationSteps
<1>3. ASSUME Confirm(w) PROVE LeaseKnown'
  <2>1. /\ worker[w].pc = "confirm"
        /\ worker'[w].pc \in {"candidate", "fail"}
        /\ worker'[w].operation = worker[w].operation
        /\ worker'[w].token = worker[w].token
        /\ worker'[w].completed = worker[w].completed
        /\ OthersStay(w)
    BY <1>0, <1>3 DEF Confirm, Locals, OthersStay
  <2> QED
    BY <1>3, <1>a, <2>1 DEF Confirm, history, BeforeRefresh, OperationSteps
<1>4. ASSUME PreparationFails(w) \/ CandidatesExhausted(w) PROVE LeaseKnown'
  <2>1. /\ worker[w].pc \in BeforeRefresh
        /\ worker'[w].pc = "fail"
        /\ worker'[w].operation = worker[w].operation
        /\ worker'[w].token = worker[w].token
        /\ worker'[w].completed = worker[w].completed
        /\ OthersStay(w)
    BY <1>0, <1>4 DEF PreparationFails, CandidatesExhausted, Locals, OthersStay, BeforeRefresh
  <2>2. UNCHANGED <<lease, unsettled, strays>>
    BY <1>4 DEF PreparationFails, CandidatesExhausted, history
  <2> QED
    BY <1>a, <2>1, <2>2 DEF OperationSteps
<1>5. ASSUME Fail(w) \/ FailUnread(w) PROVE LeaseKnown'
  <2>1. /\ worker[w].pc = "fail"
        /\ worker'[w].pc = "release"
        /\ worker'[w].operation = worker[w].operation
        /\ worker'[w].token = worker[w].token
        /\ worker'[w].completed = worker[w].completed
        /\ OthersStay(w)
    BY <1>0, <1>5 DEF Fail, FailUnread, Locals, OthersStay
  <2>2. UNCHANGED <<lease, unsettled, strays>>
    BY <1>5 DEF Fail, FailUnread, history
  <2> QED
    BY <1>a, <2>1, <2>2 DEF OperationSteps
<1>6. ASSUME NEW s \in Scans, CandidateUnavailable(w, s) PROVE LeaseKnown'
  <2>1. /\ worker[w].pc = "candidate"
        /\ worker'[w].pc = "candidate"
        /\ worker'[w].operation = worker[w].operation
        /\ worker'[w].token = worker[w].token
        /\ worker'[w].completed = worker[w].completed
        /\ OthersStay(w)
    BY <1>0, <1>6 DEF CandidateUnavailable, Locals, OthersStay
  <2> QED
    BY <1>6, <1>a, <2>1 DEF CandidateUnavailable, history, BeforeRefresh, OperationSteps
<1>7. ASSUME NEW s \in Scans, TryCandidate(w, s) PROVE LeaseKnown'
  <2>1. /\ worker[w].pc = "candidate"
        /\ worker'[w].pc \in {"verify", "refresh"}
        /\ worker'[w].operation = worker[w].operation
        /\ worker'[w].token = worker[w].token
        /\ worker'[w].completed = worker[w].completed
        /\ OthersStay(w)
    BY <1>0, <1>7 DEF TryCandidate, Locals, OthersStay
  <2>2. strays[w] = 0
    BY <1>7, <2>1 DEF TryCandidate, LeasesHeld, LeaseKnown, StrayStops, InOperation,
                      OperationSteps
  <2>3. GoesOn(w)
    BY <2>1, <2>2 DEF GoesOn, OperationSteps
  <2> QED
    BY <1>7, <2>1, <2>3, CalmStepKeeps, LeasesStayIfRenewed DEF TryCandidate, history
<1> QED
  BY <1>1, <1>2, <1>3, <1>4, <1>5, <1>6, <1>7

\* A worker that leaves its operation is in none.
LEMMA LeaveIsOutside ==
  ASSUME Inv, NEW w \in Workers
  PROVE  Leave(w).pc \notin OperationSteps
  BY DEF Inv, TypeOK, WorkersOK, Leave, Locals, OperationSteps

\* The steps between two refreshes and after the last one.
LEMMA ProgressKeepsLeases ==
  ASSUME LeaseInv, NEW w \in Workers
  PROVE  RecordProgress(w) \/ NextSection(w) \/ Verify(w) \/ AuthorityFails(w) \/ OutcomeOpen(w)
           => LeaseKnown'
<1> USE DEF LeaseInv
<1>0. worker \in [Workers -> Locals]
  BY DEF Inv, TypeOK, WorkersOK
<1>1. ASSUME RecordProgress(w) PROVE LeaseKnown'
  <2>1. /\ worker[w].pc = "progress"
        /\ worker'[w].pc \in {"verify", "section"}
        /\ worker'[w].operation = worker[w].operation
        /\ worker'[w].token = worker[w].token
        /\ worker'[w].completed = worker[w].completed
        /\ OthersStay(w)
    BY <1>0, <1>1 DEF RecordProgress, Locals, OthersStay
  <2>2. GoesOn(w)
    BY <2>1 DEF GoesOn, OperationSteps
  <2> QED
    BY <1>1, <2>1, <2>2, CalmStepKeeps, LeasesStayIfSame DEF RecordProgress, history
<1>2. ASSUME NextSection(w) \/ Verify(w) PROVE LeaseKnown'
  <2>1. /\ worker[w].pc \in {"section", "verify"}
        /\ worker'[w].pc \in {"refresh", "record"}
        /\ worker'[w].operation = worker[w].operation
        /\ worker'[w].token = worker[w].token
        /\ worker'[w].completed = worker[w].completed
        /\ OthersStay(w)
    BY <1>0, <1>2 DEF NextSection, Verify, Locals, OthersStay
  <2>2. LeasesHeld(w) /\ Renew(w) /\ UNCHANGED <<unsettled, strays>>
    BY <1>2 DEF NextSection, Verify, history
  <2>3. strays[w] = 0
    BY <2>1, <2>2 DEF LeasesHeld, LeaseKnown, StrayStops, InOperation, OperationSteps
  <2>4. GoesOn(w)
    BY <2>1, <2>3 DEF GoesOn, OperationSteps
  <2> QED
    BY <2>1, <2>2, <2>4, CalmStepKeeps, LeasesStayIfRenewed
<1>3. ASSUME AuthorityFails(w) PROVE LeaseKnown'
  <2>0. UNCHANGED <<lease, unsettled, strays>>
    BY <1>3 DEF AuthorityFails, history
  <2>1. CASE worker[w].completed = {}
    <3>1. worker' = [worker EXCEPT ![w] =
            [worker[w] EXCEPT !.authorityFailed = TRUE, !.pc = "fail"]]
      BY <1>3, <2>1 DEF AuthorityFails
    <3>2. /\ worker'[w].pc = "fail"
          /\ worker'[w].operation = worker[w].operation
          /\ worker'[w].token = worker[w].token
          /\ worker'[w].completed = worker[w].completed
          /\ OthersStay(w)
      BY <1>0, <3>1 DEF Locals, OthersStay
    <3>3. worker[w].pc \in OperationSteps
      BY <1>3 DEF AuthorityFails, OperationSteps
    <3>4. GoesOn(w)
      BY <2>1, <3>2, <3>3 DEF GoesOn
    <3> QED
      BY <2>0, <3>2, <3>4, CalmStepKeeps, LeasesStayIfSame
  <2>2. CASE worker[w].completed # {}
    <3>1. worker' = [worker EXCEPT ![w] =
            [Leave(w) EXCEPT !.authorityFailed = TRUE, !.pc = "final"]]
      BY <1>3, <2>2 DEF AuthorityFails
    <3>2. worker'[w].pc = "final" /\ OthersStay(w)
      BY <1>0, <3>1 DEF Leave, Locals, OthersStay
    <3> QED
      BY <2>0, <3>2, OutsideKeeps DEF OperationSteps
  <2> QED
    BY <2>1, <2>2
<1>4. ASSUME OutcomeOpen(w) PROVE LeaseKnown'
  <2>1. UNCHANGED <<lease, unsettled, strays>> /\ worker' = [worker EXCEPT ![w] = Leave(w)]
    BY <1>4 DEF OutcomeOpen, LeaveAmbiguous, history
  <2>2. worker'[w].pc \notin OperationSteps /\ OthersStay(w)
    BY <1>0, <2>1, LeaveIsOutside DEF OthersStay
  <2> QED
    BY <2>1, <2>2, OutsideKeeps
<1> QED
  BY <1>1, <1>2, <1>3, <1>4

-----------------------------------------------------------------------------
\* A refresh is sent with the lease in hand, or once without it.
LEMMA RefreshKeepsLeases ==
  ASSUME LeaseInv, NEW w \in Workers, NEW x \in Sections, Refresh(w, x)
  PROVE  LeaseKnown'
<1> USE DEF LeaseInv, InOperation
<1> DEFINE o == worker[w].operation
<1>0. /\ worker \in [Workers -> Locals]
      /\ unsettled \in [Operations -> Tokens \cup {NoToken}]
      /\ strays \in [Workers -> Nat]
  BY DEF Inv, TypeOK, WorkersOK, HistoryOK
<1>1. /\ worker[w].pc = "refresh"
      /\ worker'[w].pc \in {"progress", "verify"}
      /\ worker'[w].operation = o
      /\ worker'[w].token = worker[w].token
      /\ worker'[w].completed # {}
      /\ OthersStay(w)
      /\ UNCHANGED lease
  BY <1>0 DEF Refresh, Locals, OthersStay
<1>2. InOperation(w) /\ o \in Operations
  BY <1>0, <1>1 DEF OperationSteps, Inv, TypeOK, WorkersOK, Locals
<1>3. strays[w] = 0
  BY <1>1, <1>2 DEF LeaseKnown, StrayStops
<1>4. /\ strays'[w] = IF HoldsLease(w) THEN 0 ELSE 1
      /\ \A v \in Workers \ {w} : strays'[v] = strays[v]
  BY <1>0, <1>3 DEF Refresh, Stray
<1>5. /\ \A p \in Operations \ {o} : unsettled'[p] = unsettled[p]
      /\ \/ unsettled'[o] = unsettled[o]
         \/ HoldsLease(w) /\ ~lease[o].stale /\ unsettled'[o] = worker[w].token
  BY <1>0, <1>2 DEF Refresh
<1>6. ASSUME NEW v \in Workers \ {w}, InOperation(v)
      PROVE  /\ worker[v].operation \in Operations
             /\ worker[v].token # worker[w].token
             /\ HoldsLease(v)' <=> HoldsLease(v)
  BY <1>0, <1>1, <1>2, <1>6
     DEF Inv, TypeOK, WorkersOK, Locals, LeaseKnown, TokensApart, HoldsLease, OthersStay
<1>7. TokensApart'
  BY <1>1, <1>2 DEF LeaseKnown, TokensApart, OthersStay, OperationSteps
<1>8. UnsettledIsLeased'
  BY <1>1, <1>5 DEF LeaseKnown, UnsettledIsLeased, HoldsLease
<1>9. StrayStops(w)' /\ NothingOpen(w)' /\ FailsEmpty(w)'
  BY <1>1, <1>4 DEF StrayStops, NothingOpen, FailsEmpty, HoldsLease
<1>10. ASSUME NEW v \in Workers \ {w}
       PROVE  StrayStops(v)' /\ NothingOpen(v)' /\ FailsEmpty(v)'
  <2>1. worker'[v] = worker[v]
    BY <1>1 DEF OthersStay
  <2>2. StrayStops(v)' /\ FailsEmpty(v)'
    BY <1>4, <1>6, <2>1 DEF LeaseKnown, StrayStops, FailsEmpty
  <2>3. NothingOpen(v)'
    BY <1>5, <1>6, <2>1 DEF LeaseKnown, NothingOpen, HoldsLease
  <2> QED
    BY <2>2, <2>3
<1> QED
  BY <1>7, <1>8, <1>9, <1>10 DEF LeaseKnown

LEMMA RefreshFailsKeepsLeases ==
  ASSUME LeaseInv, NEW w \in Workers, NEW x \in Sections, RefreshFails(w, x)
  PROVE  LeaseKnown'
<1> USE DEF LeaseInv, InOperation
<1> DEFINE k == [worker[w] EXCEPT !.tried = worker[w].tried \cup {worker[w].candidate},
                                  !.pc = "candidate"]
<1>0. /\ worker \in [Workers -> Locals]
      /\ strays \in [Workers -> Nat]
  BY DEF Inv, TypeOK, WorkersOK, HistoryOK
<1>1. /\ worker[w].pc = "refresh"
      /\ UNCHANGED <<lease, unsettled>>
      /\ \/ worker[w].completed = {} /\ worker' = [worker EXCEPT ![w] = k]
         \/ worker' = [worker EXCEPT ![w] = Leave(w)]
  BY DEF RefreshFails
<1>2. InOperation(w)
  BY <1>1 DEF OperationSteps
<1>3. OthersStay(w)
  BY <1>0, <1>1 DEF OthersStay
<1>4. \/ worker'[w].pc \notin OperationSteps
      \/ /\ worker[w].completed = {}
         /\ worker'[w].pc = "candidate"
         /\ worker'[w].operation = worker[w].operation
         /\ worker'[w].token = worker[w].token
         /\ worker'[w].completed = {}
  <2>1. CASE worker[w].completed = {} /\ worker' = [worker EXCEPT ![w] = k]
    BY <1>0, <2>1 DEF Locals
  <2>2. CASE worker' = [worker EXCEPT ![w] = Leave(w)]
    BY <1>0, <2>2, LeaveIsOutside
  <2> QED
    BY <1>1, <2>1, <2>2
<1>5. /\ strays'[w] = IF HoldsLease(w) THEN 0 ELSE 1
      /\ \A v \in Workers \ {w} : strays'[v] = strays[v]
  <2>1. strays[w] = 0
    BY <1>1, <1>2 DEF LeaseKnown, StrayStops
  <2>2. strays' = Stray(w)
    BY DEF RefreshFails
  <2> QED
    BY <1>0, <2>1, <2>2 DEF Stray
<1>6. TokensApart'
  BY <1>2, <1>3, <1>4 DEF LeaseKnown, TokensApart, OthersStay
<1>7. UnsettledIsLeased'
  BY <1>1 DEF LeaseKnown, UnsettledIsLeased
<1>8. StrayStops(w)' /\ NothingOpen(w)' /\ FailsEmpty(w)'
  BY <1>1, <1>2, <1>4, <1>5
     DEF LeaseKnown, StrayStops, NothingOpen, FailsEmpty, HoldsLease, OperationSteps
<1>9. ASSUME NEW v \in Workers \ {w}
      PROVE  StrayStops(v)' /\ NothingOpen(v)' /\ FailsEmpty(v)'
  BY <1>1, <1>3, <1>5
     DEF LeaseKnown, StrayStops, NothingOpen, FailsEmpty, HoldsLease, OthersStay
<1> QED
  BY <1>6, <1>7, <1>8, <1>9 DEF LeaseKnown

\* The record closes what was open, and the lease goes when nothing is.
LEMMA RecordKeepsLeases ==
  ASSUME LeaseInv, NEW w \in Workers, Record(w)
  PROVE  LeaseKnown'
<1> USE DEF LeaseInv, InOperation
<1> DEFINE o == worker[w].operation
<1>0. /\ worker \in [Workers -> Locals]
      /\ unsettled \in [Operations -> Tokens \cup {NoToken}]
  BY DEF Inv, TypeOK, WorkersOK, HistoryOK
<1>1. /\ worker[w].pc = "record"
      /\ UNCHANGED <<lease, strays>>
      /\ \/ worker' = [worker EXCEPT ![w] = [worker[w] EXCEPT !.pc = "release"]]
         \/ worker' = [worker EXCEPT ![w] = Leave(w)]
  BY DEF Record
<1>2. InOperation(w) /\ o \in Operations
  BY <1>0, <1>1 DEF OperationSteps, Inv, TypeOK, WorkersOK, Locals
<1>3. OthersStay(w)
  BY <1>0, <1>1 DEF OthersStay
<1>4. \/ worker'[w].pc \notin OperationSteps
      \/ /\ worker'[w].pc = "release"
         /\ worker'[w].operation = o
         /\ worker'[w].token = worker[w].token
  <2>1. CASE worker' = [worker EXCEPT ![w] = [worker[w] EXCEPT !.pc = "release"]]
    BY <1>0, <2>1 DEF Locals
  <2>2. CASE worker' = [worker EXCEPT ![w] = Leave(w)]
    BY <1>0, <2>2, LeaveIsOutside
  <2> QED
    BY <1>1, <2>1, <2>2
<1>5. /\ \A p \in Operations \ {o} : unsettled'[p] = unsettled[p]
      /\ unsettled'[o] = IF unsettled[o] = worker[w].token THEN NoToken ELSE unsettled[o]
  BY <1>0, <1>2 DEF Record
<1>6. TokensApart'
  BY <1>2, <1>3, <1>4 DEF LeaseKnown, TokensApart, OthersStay
<1>7. UnsettledIsLeased'
  BY <1>1, <1>5 DEF LeaseKnown, UnsettledIsLeased
<1>8. StrayStops(w)' /\ FailsEmpty(w)'
  BY <1>1, <1>2, <1>4 DEF LeaseKnown, StrayStops, FailsEmpty, HoldsLease, OperationSteps
<1>9. NothingOpen(w)'
  <2>1. HoldsLease(w) => unsettled'[o] = NoToken
    BY <1>2, <1>5 DEF LeaseKnown, UnsettledIsLeased, HoldsLease
  <2> QED
    BY <1>1, <1>4, <2>1 DEF NothingOpen, HoldsLease
<1>10. ASSUME NEW v \in Workers \ {w}
       PROVE  StrayStops(v)' /\ NothingOpen(v)' /\ FailsEmpty(v)'
  <2>1. worker'[v] = worker[v]
    BY <1>3 DEF OthersStay
  <2>2. InOperation(v) => worker[v].operation \in Operations
    BY <1>0 DEF Inv, TypeOK, WorkersOK, Locals
  <2> QED
    BY <1>1, <1>5, <2>1, <2>2 DEF LeaseKnown, StrayStops, NothingOpen, FailsEmpty, HoldsLease
<1> QED
  BY <1>6, <1>7, <1>8, <1>9, <1>10 DEF LeaseKnown

LEMMA ReleaseKeepsLeases ==
  ASSUME LeaseInv, NEW w \in Workers, Release(w)
  PROVE  LeaseKnown'
<1> USE DEF LeaseInv, InOperation
<1> DEFINE o == worker[w].operation
<1>0. /\ worker \in [Workers -> Locals]
      /\ lease \in [Operations -> [token : Tokens \cup {NoToken}, stale : BOOLEAN]]
  BY DEF Inv, TypeOK, WorkersOK, RowsOK
<1>1. /\ worker[w].pc = "release"
      /\ worker' = [worker EXCEPT ![w] = Leave(w)]
      /\ UNCHANGED <<unsettled, strays>>
      /\ \/ lease' = lease
         \/ HoldsLease(w) /\ lease' = [lease EXCEPT ![o] = NoLease]
  BY DEF Release, history
<1>2. worker'[w].pc \notin OperationSteps /\ OthersStay(w)
  BY <1>0, <1>1, LeaveIsOutside DEF OthersStay
<1>3. CASE lease' = lease
  BY <1>1, <1>2, <1>3, OutsideKeeps
<1>4. CASE HoldsLease(w) /\ lease' = [lease EXCEPT ![o] = NoLease]
  <2>1. InOperation(w) /\ o \in Operations
    BY <1>0, <1>1 DEF OperationSteps, Inv, TypeOK, WorkersOK, Locals
  <2>2. unsettled[o] = NoToken
    BY <1>1, <1>4, <2>1 DEF LeaseKnown, NothingOpen
  <2>3. /\ lease'[o].token = NoToken
        /\ \A p \in Operations \ {o} : lease'[p] = lease[p]
    BY <1>0, <1>4, <2>1 DEF NoLease
  <2>4. ASSUME NEW v \in Workers \ {w}, InOperation(v)
        PROVE  HoldsLease(v)' => HoldsLease(v)
    <3>1. worker[v].operation \in Operations /\ worker[v].token # NoToken
      BY <1>0, <2>4 DEF Inv, TypeOK, WorkersOK, Locals
    <3> QED
      BY <1>2, <2>3, <3>1 DEF HoldsLease, OthersStay
  <2>5. TokensApart'
    BY <1>2 DEF LeaseKnown, TokensApart, OthersStay
  <2>6. UnsettledIsLeased'
    BY <1>1, <2>2, <2>3 DEF LeaseKnown, UnsettledIsLeased
  <2>7. StrayStops(w)' /\ NothingOpen(w)' /\ FailsEmpty(w)'
    BY <1>1, <1>2 DEF LeaseKnown, StrayStops, NothingOpen, FailsEmpty, OperationSteps
  <2>8. ASSUME NEW v \in Workers \ {w}
        PROVE  StrayStops(v)' /\ NothingOpen(v)' /\ FailsEmpty(v)'
    BY <1>1, <1>2, <2>4 DEF LeaseKnown, StrayStops, NothingOpen, FailsEmpty, OthersStay
  <2> QED
    BY <2>5, <2>6, <2>7, <2>8 DEF LeaseKnown
<1> QED
  BY <1>1, <1>3, <1>4

-----------------------------------------------------------------------------
LEMMA NextKeepsLeases == LeaseInv /\ [Next]_vars => LeaseInv'
<1> SUFFICES ASSUME LeaseInv, [Next]_vars PROVE LeaseKnown'
  BY NextKeepsInv DEF LeaseInv
<1>1. ASSUME NEW w \in Workers, Proceeds(w) \/ Suffers(w) PROVE LeaseKnown'
  BY <1>1, CallKeepsLeases, AcquireKeepsLeases, AttemptKeepsLeases, ProgressKeepsLeases,
     RefreshKeepsLeases, RefreshFailsKeepsLeases, RecordKeepsLeases, ReleaseKeepsLeases
     DEF Proceeds, Suffers
<1>2. ASSUME NEW w \in Workers, NEW u \in Users, FollowUp(w, u) PROVE LeaseKnown'
  BY <1>2, CallKeepsLeases
<1>3. CASE UNCHANGED vars
  BY <1>3 DEF vars, LeaseInv, LeaseKnown, TokensApart, UnsettledIsLeased, StrayStops,
              NothingOpen, FailsEmpty, InOperation, HoldsLease
<1> QED
  BY <1>1, <1>2, <1>3, EnvironmentKeepsLeases DEF Next

\* A worker whose lease was reclaimed while it stalled sends at most the one
\* refresh it had been about to send.
THEOREM StraysAreBounded == Spec => []AtMostOneStray
<1>1. LeaseInv => AtMostOneStray
  BY DEF LeaseInv, LeaseKnown, StrayStops, AtMostOneStray
<1> QED
  BY <1>1, InitLeaseInv, NextKeepsLeases, PTL DEF Spec

\* While an acknowledged refresh of an operation has no recorded outcome and the
\* lease it was sent under is fresh, nobody else sends a refresh of the operation
\* under its lease.
THEOREM AcknowledgedIsNotRepeatedEarly == Spec => NoEarlyReissue
<1>1. ASSUME LeaseInv, [Next]_vars
      PROVE  [\A w \in Workers : Sends(w) /\ HoldsLease(w) =>
                unsettled[worker[w].operation] \in {NoToken, worker[w].token}]_vars
  <2>1. SUFFICES ASSUME NEW w \in Workers, Sends(w), HoldsLease(w)
                 PROVE  unsettled[worker[w].operation] \in {NoToken, worker[w].token}
    OBVIOUS
  <2>2. worker[w].operation \in Operations
    <3>1. worker[w].pc \in OperationSteps
      BY <2>1 DEF Sends, Refresh, RefreshFails, OperationSteps
    <3> QED
      BY <1>1, <2>1, <3>1 DEF LeaseInv, Inv, TypeOK, WorkersOK, Locals
  <2>3. UnsettledIsLeased
    BY <1>1 DEF LeaseInv, LeaseKnown
  <2> QED
    BY <2>1, <2>2, <2>3 DEF UnsettledIsLeased, HoldsLease
<1> QED
  BY <1>1, InitLeaseInv, NextKeepsLeases, PTL DEF Spec, NoEarlyReissue

-----------------------------------------------------------------------------
(***************************************************************************)
(* Without stalls the lease of an operation is a lock: whoever is in an    *)
(* operation has its lease, and the lease is fresh.                        *)
(***************************************************************************)
HoldersHold ==
  \A w \in Workers : InOperation(w) => HoldsLease(w) /\ ~lease[worker[w].operation].stale

FirmInv == LeaseInv /\ HoldersHold

\* The worker stays in the operation it is in, if it is in one afterwards.
StaysOrLeaves(w) ==
  worker'[w].pc \in OperationSteps =>
    /\ worker[w].pc \in OperationSteps
    /\ worker'[w].operation = worker[w].operation
    /\ worker'[w].token = worker[w].token

\* The worker gives the lease of its operation back.
GivesBack(w) ==
  /\ Release(w)
  /\ lease' = [lease EXCEPT ![worker[w].operation] = NoLease]

\* A call takes a lease, gives one back, or leaves the leases to their holders.
LEMMA CallUsesLeases ==
  ASSUME LeaseInv, NEW w \in Workers,
         Proceeds(w) \/ Suffers(w) \/ \E u \in Users : FollowUp(w, u)
  PROVE  /\ OthersStay(w)
         /\ \/ LeasesStay /\ StaysOrLeaves(w)
            \/ \E o \in Operations, t \in Tokens : AcquireOperation(w, o, t)
            \/ GivesBack(w)
<1> DEFINE Calm == LeasesStay /\ StaysOrLeaves(w)
<1>0. worker \in [Workers -> Locals] /\ Inv
  BY DEF LeaseInv, Inv, TypeOK, WorkersOK
<1>1. OthersStay(w)
  BY <1>0 DEF OthersStay, Proceeds, Suffers, FollowUp, Start, Open, AuditUnavailable,
     RecordFinal, FinalDone, CallFails, Finish, Crash, AcquireOperation, SkipOperation,
     OperationsDone, Select, Claim, Confirm, PreparationFails, TryCandidate,
     CandidateUnavailable, CandidatesExhausted, AuthorityFails, Refresh, RefreshFails,
     RecordProgress, NextSection, Verify, OutcomeOpen, LeaveAmbiguous, Record, Fail,
     FailUnread, Release
<1>2. ASSUME UNCHANGED lease, worker'[w].pc \notin OperationSteps PROVE Calm
  BY <1>2, LeasesStayIfSame DEF StaysOrLeaves
<1>3. CASE \/ \E u \in Users : FollowUp(w, u)
           \/ \E a \in Approvals : Open(w, a) \/ AuditUnavailable(w, a) \/ RecordFinal(w, a)
           \/ FinalDone(w) \/ CallFails(w) \/ Finish(w) \/ Crash(w) \/ OperationsDone(w)
           \/ \E o \in Operations : SkipOperation(w, o)
  <2>1. UNCHANGED lease
    BY <1>3 DEF FollowUp, Start, Open, AuditUnavailable, RecordFinal, FinalDone, CallFails,
       Finish, Crash, OperationsDone, SkipOperation
  <2>2. worker'[w].pc \notin OperationSteps
    <3>1. CASE (\E u \in Users : FollowUp(w, u)) \/ CallFails(w) \/ Finish(w) \/ Crash(w)
      <4>1. CASE (\E u \in Users : FollowUp(w, u)) \/ CallFails(w)
        <5>1. ASSUME NEW u \in Users, FollowUp(w, u) PROVE worker'[w].pc = "next"
          <6>1. \E as : worker' = [worker EXCEPT ![w] =
                          [Idle EXCEPT !.pc = "next", !.user = u, !.todo = ApprovalsToOpen(as)]]
            BY <5>1 DEF FollowUp, Start
          <6> QED BY <1>0, <6>1 DEF Idle
        <5>2. CallFails(w) => worker'[w].pc = "next"
          BY <1>0 DEF CallFails, Idle
        <5>3. worker'[w].pc = "next"
          BY <4>1, <5>1, <5>2
        <5> QED BY <5>3 DEF OperationSteps
      <4>2. CASE Finish(w) \/ Crash(w)
        <5>1. worker'[w] = Idle
          BY <1>0, <4>2 DEF Finish, Crash
        <5> QED BY <5>1 DEF Idle, OperationSteps
      <4> QED BY <3>1, <4>1, <4>2
    <3>2. ASSUME NEW a \in Approvals, Open(w, a) \/ AuditUnavailable(w, a) \/ RecordFinal(w, a)
          PROVE  worker'[w].pc \notin OperationSteps
      <4>1. CASE Open(w, a)
        <5>1. worker'[w].pc \in {"final", "operation"}
          BY <1>0, <4>1 DEF Open, Locals
        <5> QED BY <5>1 DEF OperationSteps
      <4>2. CASE AuditUnavailable(w, a) \/ RecordFinal(w, a)
        <5>1. worker[w].pc \in {"next", "final"} /\ worker'[w].pc = worker[w].pc
          BY <1>0, <4>2 DEF AuditUnavailable, RecordFinal, Locals
        <5> QED BY <5>1 DEF OperationSteps
      <4> QED BY <3>2, <4>1, <4>2
    <3>3. CASE FinalDone(w) \/ OperationsDone(w) \/ \E o \in Operations : SkipOperation(w, o)
      BY <1>0, <3>3 DEF FinalDone, OperationsDone, SkipOperation, Locals, OperationSteps
    <3> QED BY <1>3, <3>1, <3>2, <3>3
  <2> QED BY <1>1, <1>2, <2>1, <2>2
<1>4. ASSUME UNCHANGED lease \/ Renew(w), StaysOrLeaves(w) PROVE Calm
  BY <1>0, <1>4, LeasesStayIfSame, LeasesStayIfRenewed
<1>5. CASE \/ Select(w) \/ Claim(w) \/ Confirm(w) \/ PreparationFails(w)
           \/ CandidatesExhausted(w) \/ RecordProgress(w) \/ NextSection(w) \/ Verify(w)
           \/ Fail(w) \/ FailUnread(w)
           \/ \E s \in Scans : TryCandidate(w, s) \/ CandidateUnavailable(w, s)
           \/ \E x \in Sections : Refresh(w, x)
  <2>1. UNCHANGED lease \/ Renew(w)
    BY <1>5 DEF Select, Claim, Confirm, PreparationFails, CandidatesExhausted, RecordProgress,
       NextSection, Verify, Fail, FailUnread, TryCandidate, CandidateUnavailable, Refresh
  <2>2. StaysOrLeaves(w)
    <3>1. worker[w].pc \in OperationSteps
      BY <1>5 DEF Select, Claim, Confirm, PreparationFails, CandidatesExhausted,
         RecordProgress, NextSection, Verify, Fail, FailUnread, TryCandidate,
         CandidateUnavailable, Refresh, OperationSteps
    <3>2. CASE Select(w) \/ Claim(w) \/ Confirm(w) \/ PreparationFails(w) \/ CandidatesExhausted(w)
      BY <1>0, <3>1, <3>2 DEF StaysOrLeaves, Select, Claim, Confirm, PreparationFails,
         CandidatesExhausted, Locals
    <3>3. CASE RecordProgress(w) \/ NextSection(w) \/ Verify(w) \/ Fail(w) \/ FailUnread(w)
      BY <1>0, <3>1, <3>3 DEF StaysOrLeaves, RecordProgress, NextSection, Verify, Fail,
         FailUnread, Locals
    <3>4. ASSUME NEW s \in Scans, TryCandidate(w, s) \/ CandidateUnavailable(w, s)
          PROVE  StaysOrLeaves(w)
      BY <1>0, <3>1, <3>4 DEF StaysOrLeaves, TryCandidate, CandidateUnavailable, Locals
    <3>5. ASSUME NEW x \in Sections, Refresh(w, x) PROVE StaysOrLeaves(w)
      BY <1>0, <3>1, <3>5 DEF StaysOrLeaves, Refresh, Locals
    <3> QED BY <1>5, <3>2, <3>3, <3>4, <3>5
  <2> QED BY <1>1, <1>4, <2>1, <2>2
<1>6. CASE AuthorityFails(w) \/ OutcomeOpen(w) \/ Record(w) \/ \E x \in Sections : RefreshFails(w, x)
  <2>1. UNCHANGED lease
    BY <1>6 DEF AuthorityFails, OutcomeOpen, Record, RefreshFails
  <2>2. worker[w].pc \in OperationSteps
    BY <1>6 DEF AuthorityFails, OutcomeOpen, Record, RefreshFails, OperationSteps
  <2>3. \/ worker'[w].pc \notin OperationSteps
        \/ worker'[w].operation = worker[w].operation /\ worker'[w].token = worker[w].token
    <3>1. Leave(w).pc \notin OperationSteps
      BY <1>0, LeaveIsOutside
    <3>2. CASE AuthorityFails(w)
      BY <1>0, <3>2 DEF AuthorityFails, Locals, Leave, OperationSteps
    <3>3. CASE OutcomeOpen(w)
      BY <1>0, <3>1, <3>3 DEF OutcomeOpen, LeaveAmbiguous
    <3>4. CASE Record(w)
      BY <1>0, <3>1, <3>4 DEF Record, Locals
    <3>5. ASSUME NEW x \in Sections, RefreshFails(w, x)
          PROVE  \/ worker'[w].pc \notin OperationSteps
                 \/ worker'[w].operation = worker[w].operation /\ worker'[w].token = worker[w].token
      BY <1>0, <3>1, <3>5 DEF RefreshFails, Locals
    <3> QED BY <1>6, <3>2, <3>3, <3>4, <3>5
  <2> QED BY <1>1, <1>4, <2>1, <2>2, <2>3 DEF StaysOrLeaves
<1>7. CASE Release(w)
  <2>1. worker'[w].pc \notin OperationSteps
    BY <1>0, <1>7, LeaveIsOutside DEF Release
  <2> QED BY <1>1, <1>2, <1>7, <2>1 DEF Release, GivesBack
<1> QED
  BY <1>1, <1>3, <1>5, <1>6, <1>7 DEF Proceeds, Suffers

\* What does not belong to a call keeps the tokens of the leases.
LEMMA EnvironmentUsesLeases ==
  ASSUME LeaseInv, [Next]_vars,
         \A w \in Workers : ~(Proceeds(w) \/ Suffers(w) \/ \E u \in Users : FollowUp(w, u))
  PROVE  /\ UNCHANGED worker
         /\ \A o \in Operations : lease'[o].token = lease[o].token
         /\ UNCHANGED lease \/ \E o \in Operations : LeaseExpires(o)
<1>1. CASE UNCHANGED vars
  BY <1>1 DEF vars
<1>2. CASE \/ \E a \in Approvals : Prepare(a) \/ Delete(a) \/ Execute(a)
           \/ \E s \in Scans : BackoffElapses(s)
  BY <1>2 DEF Prepare, Delete, Execute, BackoffElapses
<1>3. ASSUME NEW o \in Operations, LeaseExpires(o)
      PROVE  /\ UNCHANGED worker
             /\ \A p \in Operations : lease'[p].token = lease[p].token
  BY <1>3 DEF LeaseExpires, LeaseInv, Inv, TypeOK, RowsOK
<1> QED
  BY <1>1, <1>2, <1>3 DEF Next

\* A worker in an operation has a token, and the operation is one.
LEMMA AtWork ==
  ASSUME LeaseInv, NEW w \in Workers, InOperation(w)
  PROVE  worker[w].operation \in Operations /\ worker[w].token \in Tokens
  BY DEF LeaseInv, Inv, TypeOK, WorkersOK, Locals, InOperation

\* The holders keep their leases: a lease is taken only when it is free, which
\* it is not while somebody is in the operation, given back only by its holder,
\* and does not expire under one.
LEMMA HoldersKeep ==
  ASSUME MaxStalls = 0, FirmInv, [Next]_vars
  PROVE  HoldersHold'
<1> USE DEF FirmInv, InOperation, HoldsLease
<1>0. /\ worker \in [Workers -> Locals]
      /\ lease \in [Operations -> [token : Tokens \cup {NoToken}, stale : BOOLEAN]]
      /\ stalls = 0
  BY BoundsAreNumbers DEF LeaseInv, Inv, TypeOK, RowsOK, WorkersOK, CountsOK
<1>1. ASSUME NEW w \in Workers, OthersStay(w), LeasesStay, StaysOrLeaves(w)
      PROVE  HoldersHold'
  <2> SUFFICES ASSUME NEW v \in Workers, InOperation(v)'
               PROVE  /\ lease'[worker'[v].operation].token = worker'[v].token
                      /\ ~lease'[worker'[v].operation].stale
    BY DEF HoldersHold
  <2>1. InOperation(v) /\ worker'[v].operation = worker[v].operation /\ worker'[v].token = worker[v].token
    BY <1>1 DEF OthersStay, StaysOrLeaves
  <2>2. worker[v].operation \in Operations
    BY <2>1, AtWork
  <2> QED
    BY <1>1, <2>1, <2>2 DEF HoldersHold, LeasesStay
<1>2. ASSUME NEW w \in Workers, NEW o \in Operations, NEW t \in Tokens,
             OthersStay(w), AcquireOperation(w, o, t)
      PROVE  HoldersHold'
  <2>1. lease'[o] = [token |-> t, stale |-> FALSE] /\ \A p \in Operations \ {o} : lease'[p] = lease[p]
    BY <1>0, <1>2 DEF AcquireOperation
  <2>2. worker'[w].operation = o /\ worker'[w].token = t
    BY <1>0, <1>2 DEF AcquireOperation, Locals
  <2>3. ASSUME NEW v \in Workers \ {w}, InOperation(v)
        PROVE  worker[v].operation \in Operations \ {o}
    <3>1. worker[v].operation \in Operations /\ worker[v].token \in Tokens
      BY <2>3, AtWork
    <3>2. ~LeaseFree(worker[v].operation)
      BY <2>3, <3>1, SentinelsAreDistinct DEF HoldersHold, LeaseFree
    <3> QED BY <1>2, <3>1, <3>2 DEF AcquireOperation
  <2> QED
    BY <1>2, <2>1, <2>2, <2>3 DEF HoldersHold, OthersStay
<1>3. ASSUME NEW w \in Workers, OthersStay(w), GivesBack(w)
      PROVE  HoldersHold'
  <2>1. InOperation(w) /\ worker'[w].pc \notin OperationSteps
    BY <1>0, <1>3, LeaveIsOutside DEF GivesBack, Release, OperationSteps, LeaseInv
  <2>2. ASSUME NEW v \in Workers \ {w}, InOperation(v)
        PROVE  worker[v].operation \in Operations \ {worker[w].operation}
    BY <2>1, <2>2, AtWork DEF HoldersHold, LeaseInv, LeaseKnown, TokensApart
  <2>3. \A p \in Operations \ {worker[w].operation} : lease'[p] = lease[p]
    BY <1>0, <1>3 DEF GivesBack
  <2> QED
    BY <1>3, <2>1, <2>2, <2>3 DEF HoldersHold, OthersStay
<1>4. ASSUME UNCHANGED <<worker, lease>> PROVE HoldersHold'
  BY <1>4 DEF HoldersHold
<1>5. ASSUME NEW o \in Operations, LeaseExpires(o), UNCHANGED worker PROVE HoldersHold'
  <2>1. ~\E w \in Workers : Works(w, o) /\ worker[w].token = lease[o].token
    BY <1>0, <1>5 DEF LeaseExpires
  <2>2. ASSUME NEW v \in Workers, InOperation(v)
        PROVE  worker[v].operation \in Operations \ {o}
    BY <2>1, <2>2, AtWork DEF HoldersHold, Works, OperationSteps
  <2>3. \A p \in Operations \ {o} : lease'[p] = lease[p]
    BY <1>0, <1>5 DEF LeaseExpires
  <2> QED
    BY <1>5, <2>2, <2>3 DEF HoldersHold
<1>6. ASSUME NEW w \in Workers, Proceeds(w) \/ Suffers(w) \/ \E u \in Users : FollowUp(w, u)
      PROVE  HoldersHold'
  BY <1>1, <1>2, <1>3, <1>6, CallUsesLeases
<1> QED
  BY <1>4, <1>5, <1>6, EnvironmentUsesLeases

LEMMA FirmKept == ASSUME MaxStalls = 0 PROVE Spec => []FirmInv
<1>1. Init => FirmInv
  BY InitLeaseInv DEF FirmInv, HoldersHold, InOperation, Init, Idle, OperationSteps
<1>2. FirmInv /\ [Next]_vars => FirmInv'
  BY HoldersKeep, NextKeepsLeases DEF FirmInv
<1> QED
  BY <1>1, <1>2, PTL DEF Spec

\* With the holders firm, each step of the system is a step of every lock.
LEMMA FirmLocks ==
  ASSUME FirmInv, [Next]_vars, NEW o \in Operations
  PROVE  [Lock(o)!Next]_(Lock(o)!vars)
<1> DEFINE Relying(q) == {worker[w].token : w \in {x \in Workers : Works(x, q)}}
           Holder(q) == lease[q].token
<1> USE DEF FirmInv, InOperation, HoldsLease
<1>0. /\ worker \in [Workers -> Locals]
      /\ lease \in [Operations -> [token : Tokens \cup {NoToken}, stale : BOOLEAN]]
  BY DEF LeaseInv, Inv, TypeOK, RowsOK, WorkersOK
<1>1. \A w \in Workers : Works(w, o) <=> InOperation(w) /\ worker[w].operation = o
  BY SentinelsAreDistinct DEF Works, LeaseInv, Inv, TypeOK, WorkersOK, OperationSteps
<1>2. \A t \in Relying(o) : t = Holder(o) /\ t \in Tokens
  BY <1>1, AtWork DEF HoldersHold
<1>3. (\A w \in Workers : Works(w, o) <=> InOperation(w) /\ worker[w].operation = o)'
  <2>1. TypeOK'
    BY NextTypes DEF LeaseInv, Inv
  <2> QED BY <2>1, SentinelsAreDistinct DEF Works, TypeOK, WorkersOK, OperationSteps
<1>4. ASSUME Holder(o)' = Holder(o), Relying(o)' \subseteq Relying(o)
      PROVE  [Lock(o)!Next]_(Lock(o)!vars)
  <2> DEFINE S == Relying(o) \ Relying(o)'
  <2>1. CASE S = {}
    <3>1. Relying(o)' = Relying(o)
      BY <1>4, <2>1
    <3> QED BY <1>4, <3>1 DEF Lock!vars
  <2>2. CASE S # {}
    <3>1. S \subseteq Relying(o) /\ S \in SUBSET Tokens /\ Relying(o)' = Relying(o) \ S
      BY <1>2, <1>4
    <3> QED BY <1>4, <2>2, <3>1 DEF Lock!Next, Lock!Stop
  <2> QED BY <2>1, <2>2
<1>5. ASSUME NEW w \in Workers, OthersStay(w), LeasesStay, StaysOrLeaves(w)
      PROVE  [Lock(o)!Next]_(Lock(o)!vars)
  <2>1. Holder(o)' = Holder(o)
    BY <1>5 DEF LeasesStay
  <2>2. Relying(o)' \subseteq Relying(o)
    BY <1>1, <1>3, <1>5 DEF OthersStay, StaysOrLeaves
  <2> QED BY <1>4, <2>1, <2>2
<1>6. ASSUME NEW w \in Workers, NEW p \in Operations, NEW t \in Tokens,
             OthersStay(w), AcquireOperation(w, p, t)
      PROVE  [Lock(o)!Next]_(Lock(o)!vars)
  <2>1. /\ lease' = [lease EXCEPT ![p] = [token |-> t, stale |-> FALSE]]
        /\ worker'[w].operation = p /\ worker'[w].token = t /\ worker'[w].pc = "select"
        /\ worker[w].pc = "operation"
    BY <1>0, <1>6 DEF AcquireOperation, Locals
  <2>2. CASE p # o
    <3>1. Holder(o)' = Holder(o)
      BY <1>0, <2>1, <2>2
    <3>2. Relying(o)' \subseteq Relying(o)
      BY <1>1, <1>3, <1>6, <2>1, <2>2 DEF OthersStay
    <3> QED BY <1>4, <3>1, <3>2
  <2>3. CASE p = o
    <3>1. Relying(o) = {}
      BY <1>1, <1>2, <1>6, <2>3, SentinelsAreDistinct DEF AcquireOperation, LeaseFree, HoldersHold
    <3>2. Holder(o)' = t
      BY <1>0, <2>1, <2>3
    <3>3. Relying(o)' = {t}
      <4>1. \A v \in Workers : Works(v, o)' <=> v = w
        BY <1>1, <1>3, <1>6, <2>1, <2>3, <3>1 DEF OthersStay, OperationSteps
      <4> QED BY <2>1, <4>1
    <3>4. Lock(o)!Acquire(t)
      BY <3>1, <3>2, <3>3 DEF Lock!Acquire
    <3> QED BY <3>4 DEF Lock!Next
  <2> QED BY <2>2, <2>3
<1>7. ASSUME NEW w \in Workers, OthersStay(w), GivesBack(w)
      PROVE  [Lock(o)!Next]_(Lock(o)!vars)
  <2>1. InOperation(w) /\ worker'[w].pc \notin OperationSteps
    BY <1>0, <1>7, LeaveIsOutside DEF GivesBack, Release, OperationSteps, LeaseInv
  <2>2. Relying(o)' \subseteq Relying(o)
    BY <1>1, <1>3, <1>7, <2>1 DEF OthersStay
  <2>3. CASE worker[w].operation # o
    <3>1. Holder(o)' = Holder(o)
      BY <1>0, <1>7, <2>3 DEF GivesBack
    <3> QED BY <1>4, <2>2, <3>1
  <2>4. CASE worker[w].operation = o
    <3>1. Holder(o) \in Relying(o) /\ Holder(o) \in Tokens
      BY <1>1, <2>1, <2>4, AtWork DEF HoldersHold
    <3>2. Holder(o)' = NoToken
      BY <1>0, <1>7, <2>4 DEF GivesBack, NoLease
    <3>3. Relying(o)' = {}
      BY <1>1, <1>3, <1>7, <2>1, <2>4
         DEF OthersStay, HoldersHold, LeaseInv, LeaseKnown, TokensApart
    <3> DEFINE S == {Holder(o)}
    <3>4. S \in SUBSET Tokens /\ S \subseteq Relying(o) /\ S # {} /\ Relying(o)' = Relying(o) \ S
      BY <1>2, <3>1, <3>3
    <3>5. Holder(o) \in S
      OBVIOUS
    <3> HIDE DEF S
    <3> QED BY <3>2, <3>4, <3>5 DEF Lock!Next, Lock!Stop
  <2> QED BY <2>3, <2>4
<1>8. ASSUME NEW w \in Workers, Proceeds(w) \/ Suffers(w) \/ \E u \in Users : FollowUp(w, u)
      PROVE  [Lock(o)!Next]_(Lock(o)!vars)
  BY <1>5, <1>6, <1>7, <1>8, CallUsesLeases
<1>9. CASE \A w \in Workers : ~(Proceeds(w) \/ Suffers(w) \/ \E u \in Users : FollowUp(w, u))
  <2>1. UNCHANGED worker /\ Holder(o)' = Holder(o)
    BY <1>9, EnvironmentUsesLeases
  <2>2. Relying(o)' = Relying(o)
    BY <2>1 DEF Works
  <2> QED BY <1>4, <2>1, <2>2
<1> QED BY <1>8, <1>9

\* Without stalls the lease of every operation is a lock: each step takes it when
\* nobody is in the operation, gives it up, or leaves it alone, so that two calls
\* never refresh the same server for the same operation side by side.
THEOREM OperationLeaseIsALock ==
  ASSUME MaxStalls = 0
  PROVE  Spec => ImplementsOperationLock
<1>1. Init => LocksStart
  <2> SUFFICES ASSUME Init, NEW o \in Operations PROVE Lock(o)!Init
    BY DEF LocksStart
  <2>1. /\ lease[o].token = NoToken
        /\ {worker[w].token : w \in {x \in Workers : Works(x, o)}} = {}
    BY DEF Init, NoLease, Idle, Works
  <2> QED BY <2>1 DEF Lock!Init
<1>2. FirmInv /\ [Next]_vars => LocksStep
  BY FirmLocks DEF LocksStep
<1> QED
  BY <1>1, <1>2, FirmKept, PTL DEF Spec, ImplementsOperationLock

-----------------------------------------------------------------------------
(***************************************************************************)
(* Calls wind down: what a call has left to do shrinks with every step.    *)
(* The measure is lexicographic, so each action is filed under the part of *)
(* it that it takes from; the actions that give something back to a lesser *)
(* part are the ones to be shown to take from a greater.                   *)
(***************************************************************************)

\* A scan that speaks for the operation has not been tried before.
CandidateIsNew(k) ==
  k.pc \in {"refresh", "progress", "section"} => k.candidate \notin k.tried

CandidatesNew == \A w \in Workers : CandidateIsNew(worker[w])

\* Every step has a place in the call, those of an operation behind the others.
LEMMA Parts ==
  /\ \A p \in OperationSteps : Part(p) = 4
  /\ Part("idle") = 0 /\ Part("next") = 1 /\ Part("final") = 2 /\ Part("operation") = 3
  BY DEF Part, OperationSteps

LEMMA StepsToGo ==
  /\ ToGo("select") = 9 /\ ToGo("claim") = 8 /\ ToGo("confirm") = 7
  /\ ToGo("candidate") = 6 /\ ToGo("progress") = 5 /\ ToGo("section") = 4
  /\ ToGo("refresh") = 3 /\ ToGo("verify") = 2 /\ ToGo("record") = 1
  /\ ToGo("fail") = 1 /\ ToGo("release") = 0
  BY DEF ToGo

\* Moving on to a later part of the call, with whatever lists are left.
LEMMA LaterPartDescends ==
  ASSUME NEW new, NEW old, new.todo \subseteq old.todo,
         new.operations \subseteq old.operations, Part(new.pc) < Part(old.pc)
  PROVE  Descends(new, old)
  BY DEF Descends, Shrinks

\* Moving on within an operation, with whatever lists are left.
LEMMA NearerDescends ==
  ASSUME NEW new, NEW old, new.todo \subseteq old.todo,
         new.operations \subseteq old.operations, Part(new.pc) = Part(old.pc),
         Nearer(new, old)
  PROVE  Descends(new, old)
  BY DEF Descends, Shrinks

\* The next step of an operation, with the same scans tried and sections done.
LEMMA NextStepDescends ==
  ASSUME NEW new, NEW old, new.todo \subseteq old.todo,
         new.operations \subseteq old.operations,
         old.pc \in OperationSteps, new.pc \in OperationSteps,
         new.tried = old.tried, new.completed = old.completed,
         ToGo(new.pc) < ToGo(old.pc)
  PROVE  Descends(new, old)
<1>1. Nearer(new, old)
  BY DEF Nearer
<1> QED
  BY <1>1, Parts, NearerDescends

\* The steps of a call outside its operations.
LEMMA CallStepsDescend ==
  ASSUME TypeOK, NEW w \in Workers
  PROVE  /\ \A a \in Approvals : Open(w, a) \/ AuditUnavailable(w, a) \/ RecordFinal(w, a)
              => Descends(worker'[w], worker[w])
         /\ FinalDone(w) \/ Finish(w) \/ Crash(w) => Descends(worker'[w], worker[w])
         /\ \A o \in Operations :
              SkipOperation(w, o) \/ (\E t \in Tokens : AcquireOperation(w, o, t))
                => Descends(worker'[w], worker[w])
         /\ OperationsDone(w) => Descends(worker'[w], worker[w])
<1>0. worker \in [Workers -> Locals] /\ worker[w] \in Locals
  BY DEF TypeOK, WorkersOK
<1>1. ASSUME NEW a \in Approvals, Open(w, a) \/ AuditUnavailable(w, a)
      PROVE  Descends(worker'[w], worker[w])
  <2>1. a \in worker[w].todo
    BY <1>1 DEF Open, AuditUnavailable
  <2>2. worker'[w].todo = worker[w].todo \ {a}
    <3>1. CASE Open(w, a)
      <4> DEFINE E == {s \in ScansOf(a) : Eligible(s)}
                 ops == {OperationOf[s] : s \in E}
                 all == IF E = {} THEN {a} ELSE {}
                 step == IF E = {} THEN "final" ELSE "operation"
      <4>1. worker' = [worker EXCEPT ![w].todo = @ \ {a}, ![w].operations = ops,
                                     ![w].affected = all, ![w].pc = step]
        BY <3>1 DEF Open
      <4> HIDE DEF E, ops, all, step
      <4> QED BY ONLY <1>0, <4>1 DEF Locals
    <3>2. CASE AuditUnavailable(w, a)
      BY <1>0, <3>2 DEF AuditUnavailable, Locals
    <3> QED BY <1>1, <3>1, <3>2
  <2> QED BY <2>1, <2>2 DEF Descends, Shrinks
<1>2. ASSUME NEW a \in Approvals, RecordFinal(w, a) PROVE Descends(worker'[w], worker[w])
  <2>1. a \in worker[w].affected /\ worker' = [worker EXCEPT ![w].affected = @ \ {a}]
    BY <1>2 DEF RecordFinal
  <2>2. /\ worker'[w].affected = worker[w].affected \ {a}
        /\ worker'[w].todo = worker[w].todo /\ worker'[w].operations = worker[w].operations
        /\ worker'[w].pc = worker[w].pc /\ worker'[w].tried = worker[w].tried
        /\ worker'[w].completed = worker[w].completed
    BY ONLY <1>0, <2>1 DEF Locals
  <2>3. Nearer(worker'[w], worker[w])
    BY <2>1, <2>2 DEF Nearer, Shrinks
  <2> QED BY <2>2, <2>3, NearerDescends
<1>3. ASSUME FinalDone(w) \/ OperationsDone(w) PROVE Descends(worker'[w], worker[w])
  <2>1. \/ worker[w].pc = "final" /\ worker' = [worker EXCEPT ![w].pc = "next"]
        \/ worker[w].pc = "operation" /\ worker' = [worker EXCEPT ![w].pc = "final"]
    BY <1>3 DEF FinalDone, OperationsDone
  <2>2. /\ worker'[w].todo = worker[w].todo /\ worker'[w].operations = worker[w].operations
        /\ \/ worker[w].pc = "final" /\ worker'[w].pc = "next"
           \/ worker[w].pc = "operation" /\ worker'[w].pc = "final"
    BY ONLY <1>0, <2>1 DEF Locals
  <2>3. Part(worker'[w].pc) < Part(worker[w].pc)
    BY <2>2, Parts
  <2> QED BY <2>2, <2>3, LaterPartDescends
<1>4. ASSUME Finish(w) \/ Crash(w) PROVE Descends(worker'[w], worker[w])
  <2>1. worker[w].pc # "idle" /\ worker'[w] = Idle
    BY <1>0, <1>4 DEF Finish, Crash
  <2>2. Idle.todo = {} /\ Idle.operations = {} /\ Idle.pc = "idle"
    BY DEF Idle
  <2>3. worker[w].pc \in Steps
    BY <1>0 DEF Locals
  <2>4. Part(Idle.pc) < Part(worker[w].pc)
    BY <2>1, <2>2, <2>3, Parts DEF Steps
  <2> QED BY <2>1, <2>2, <2>4, LaterPartDescends
<1>5. ASSUME NEW o \in Operations,
             SkipOperation(w, o) \/ \E t \in Tokens : AcquireOperation(w, o, t)
      PROVE  Descends(worker'[w], worker[w])
  <2>1. o \in worker[w].operations
    BY <1>5 DEF SkipOperation, AcquireOperation
  <2>2. /\ worker'[w].todo = worker[w].todo
        /\ worker'[w].operations = worker[w].operations \ {o}
    <3>1. SkipOperation(w, o) => worker' = [worker EXCEPT ![w].operations = @ \ {o}]
      BY DEF SkipOperation
    <3>2. ASSUME NEW t \in Tokens, AcquireOperation(w, o, t)
          PROVE  worker' = [worker EXCEPT ![w].pc = "select", ![w].operation = o,
                                          ![w].token = t, ![w].operations = @ \ {o}]
      BY <3>2 DEF AcquireOperation
    <3>3. CASE SkipOperation(w, o)
      BY <1>0, <3>1, <3>3 DEF Locals
    <3>4. ASSUME NEW t \in Tokens, AcquireOperation(w, o, t)
          PROVE  /\ worker'[w].todo = worker[w].todo
                 /\ worker'[w].operations = worker[w].operations \ {o}
      <4>1. worker' = [worker EXCEPT ![w].pc = "select", ![w].operation = o,
                                     ![w].token = t, ![w].operations = @ \ {o}]
        BY ONLY <3>2, <3>4
      <4> QED BY ONLY <1>0, <4>1 DEF Locals
    <3> QED BY <1>5, <3>3, <3>4
  <2> QED BY <2>1, <2>2 DEF Descends, Shrinks
<1>6. \A o \in Operations :
        SkipOperation(w, o) \/ (\E t \in Tokens : AcquireOperation(w, o, t))
          => Descends(worker'[w], worker[w])
  BY ONLY <1>5
<1>7. \A a \in Approvals : Open(w, a) \/ AuditUnavailable(w, a) \/ RecordFinal(w, a)
        => Descends(worker'[w], worker[w])
  BY ONLY <1>1, <1>2
<1> QED
  BY ONLY <1>3, <1>4, <1>6, <1>7

\* A step that leaves the operation, whatever it was about.
LEMMA LeaveDescends ==
  ASSUME TypeOK, NEW w \in Workers, worker[w].pc \in OperationSteps
  PROVE  /\ Descends(Leave(w), worker[w])
         /\ Descends([Leave(w) EXCEPT !.authorityFailed = TRUE, !.pc = "final"], worker[w])
<1>1. worker[w] \in Locals
  BY DEF TypeOK, WorkersOK
<1>2. /\ Leave(w).todo = worker[w].todo /\ Leave(w).operations = worker[w].operations
      /\ Leave(w).pc \in {"final", "operation"}
  BY <1>1 DEF Leave, Locals
<1>3. DEFINE k == [Leave(w) EXCEPT !.authorityFailed = TRUE, !.pc = "final"]
<1>4. k.todo = worker[w].todo /\ k.operations = worker[w].operations /\ k.pc = "final"
  BY <1>1 DEF Leave, Locals
<1> HIDE DEF k
<1>5. Part(Leave(w).pc) < Part(worker[w].pc) /\ Part(k.pc) < Part(worker[w].pc)
  BY <1>2, <1>4, Parts
<1>6. Descends(Leave(w), worker[w]) /\ Descends(k, worker[w])
  BY ONLY <1>2, <1>4, <1>5, LaterPartDescends
<1> QED
  BY <1>6 DEF k

\* The preparation of an operation, its failures and its end.
LEMMA OperationStepsDescend ==
  ASSUME TypeOK, NEW w \in Workers
  PROVE  /\ Select(w) \/ Claim(w) \/ Confirm(w) \/ PreparationFails(w) \/ Fail(w)
           \/ FailUnread(w) \/ CandidatesExhausted(w) => Descends(worker'[w], worker[w])
         /\ RecordProgress(w) \/ NextSection(w) \/ Verify(w) => Descends(worker'[w], worker[w])
         /\ Record(w) \/ Release(w) \/ OutcomeOpen(w) \/ AuthorityFails(w)
              => Descends(worker'[w], worker[w])
         /\ \A s \in Scans : TryCandidate(w, s) \/ CandidateUnavailable(w, s)
              => Descends(worker'[w], worker[w])
<1>0. worker \in [Workers -> Locals] /\ worker[w] \in Locals
  BY DEF TypeOK, WorkersOK
<1> DEFINE Same == /\ worker'[w].todo = worker[w].todo
                   /\ worker'[w].operations = worker[w].operations
                   /\ worker'[w].tried = worker[w].tried
                   /\ worker'[w].completed = worker[w].completed
           On(p, q) == worker[w].pc = p /\ worker'[w].pc = q
<1>1. ASSUME Same, NEW p, NEW q, On(p, q), p \in OperationSteps, q \in OperationSteps,
             ToGo(q) < ToGo(p)
      PROVE  Descends(worker'[w], worker[w])
  BY <1>1, NextStepDescends
<1>2. ASSUME Select(w) \/ Claim(w) \/ Confirm(w) \/ PreparationFails(w) \/ Fail(w)
               \/ CandidatesExhausted(w)
      PROVE  Descends(worker'[w], worker[w])
  <2>1. Same
    BY <1>0, <1>2 DEF Select, Claim, Confirm, PreparationFails, Fail, CandidatesExhausted, Locals
  <2>2. \/ On("select", "release") \/ On("select", "claim") \/ On("select", "fail")
        \/ On("claim", "release") \/ On("claim", "confirm") \/ On("claim", "fail")
        \/ On("confirm", "candidate") \/ On("confirm", "fail") \/ On("fail", "release")
        \/ On("candidate", "fail")
    <3>1. Select(w) => On("select", "release") \/ On("select", "claim")
      BY <1>0 DEF Select, Locals
    <3>2. Claim(w) => On("claim", "release") \/ On("claim", "confirm")
      BY <1>0 DEF Claim, Locals
    <3>3. Confirm(w) => On("confirm", "candidate") \/ On("confirm", "fail")
      BY <1>0 DEF Confirm, Locals
    <3>4. PreparationFails(w) => On("select", "fail") \/ On("claim", "fail") \/ On("confirm", "fail")
      BY <1>0 DEF PreparationFails, Locals
    <3>5. Fail(w) => On("fail", "release")
      BY <1>0 DEF Fail, Locals
    <3>6. CandidatesExhausted(w) => On("candidate", "fail")
      BY <1>0 DEF CandidatesExhausted, Locals
    <3> QED BY ONLY <1>2, <3>1, <3>2, <3>3, <3>4, <3>5, <3>6
  <2> HIDE DEF Same, On
  <2> QED BY ONLY <1>1, <2>1, <2>2, StepsToGo DEF OperationSteps
<1>3. ASSUME RecordProgress(w) \/ NextSection(w) \/ Verify(w)
      PROVE  Descends(worker'[w], worker[w])
  <2>1. Same
    BY <1>0, <1>3 DEF RecordProgress, NextSection, Verify, Locals
  <2>2. \/ On("progress", "verify") \/ On("progress", "section")
        \/ On("section", "refresh") \/ On("verify", "record")
    BY <1>0, <1>3 DEF RecordProgress, NextSection, Verify, Locals
  <2> HIDE DEF Same, On
  <2> QED BY ONLY <1>1, <2>1, <2>2, StepsToGo DEF OperationSteps
<1>4. ASSUME FailUnread(w) PROVE Descends(worker'[w], worker[w])
  <2>1. /\ worker'[w].todo = {} /\ worker'[w].operations = {} /\ On("fail", "release")
        /\ worker'[w].tried = worker[w].tried /\ worker'[w].completed = worker[w].completed
    BY <1>0, <1>4 DEF FailUnread, Locals
  <2> QED BY <2>1, NextStepDescends, StepsToGo DEF OperationSteps
<1>5. ASSUME Record(w) \/ Release(w) \/ OutcomeOpen(w) PROVE Descends(worker'[w], worker[w])
  <2>1. worker[w].pc \in OperationSteps
    BY <1>5 DEF Record, Release, OutcomeOpen, OperationSteps
  <2>2. \/ worker' = [worker EXCEPT ![w] = Leave(w)]
        \/ /\ worker[w].pc = "record"
           /\ worker' = [worker EXCEPT ![w] = [worker[w] EXCEPT !.pc = "release"]]
    BY <1>5 DEF Record, Release, OutcomeOpen, LeaveAmbiguous
  <2>3. CASE worker' = [worker EXCEPT ![w] = Leave(w)]
    BY <1>0, <2>1, <2>3, LeaveDescends
  <2>4. CASE /\ worker[w].pc = "record"
             /\ worker' = [worker EXCEPT ![w] = [worker[w] EXCEPT !.pc = "release"]]
    <3>1. Same /\ On("record", "release")
      BY ONLY <1>0, <2>4 DEF Locals, Same, On
    <3> QED BY <1>1, <3>1, StepsToGo DEF OperationSteps
  <2> QED BY <2>2, <2>3, <2>4
<1>6. ASSUME AuthorityFails(w) PROVE Descends(worker'[w], worker[w])
  <2>1. worker[w].pc \in {"candidate", "section"}
    BY <1>6 DEF AuthorityFails
  <2>2. \/ worker' = [worker EXCEPT ![w] =
                        [worker[w] EXCEPT !.authorityFailed = TRUE, !.pc = "fail"]]
        \/ worker' = [worker EXCEPT ![w] =
                        [Leave(w) EXCEPT !.authorityFailed = TRUE, !.pc = "final"]]
    BY <1>6 DEF AuthorityFails
  <2>3. CASE worker' = [worker EXCEPT ![w] =
                          [worker[w] EXCEPT !.authorityFailed = TRUE, !.pc = "fail"]]
    <3>1. Same /\ (On("candidate", "fail") \/ On("section", "fail"))
      BY ONLY <1>0, <2>1, <2>3 DEF Locals, Same, On
    <3> HIDE DEF Same, On
    <3> QED BY ONLY <1>1, <3>1, StepsToGo DEF OperationSteps
  <2>4. CASE worker' = [worker EXCEPT ![w] =
                          [Leave(w) EXCEPT !.authorityFailed = TRUE, !.pc = "final"]]
    <3>1. worker[w].pc \in OperationSteps
      BY <2>1 DEF OperationSteps
    <3> QED BY <1>0, <2>4, <3>1, LeaveDescends
  <2> QED BY <2>2, <2>3, <2>4
<1>7. ASSUME NEW s \in Scans, TryCandidate(w, s) PROVE Descends(worker'[w], worker[w])
  <2>1. Same /\ (On("candidate", "verify") \/ On("candidate", "refresh"))
    BY <1>0, <1>7 DEF TryCandidate, Locals
  <2> HIDE DEF Same, On
  <2> QED BY ONLY <1>1, <2>1, StepsToGo DEF OperationSteps
<1>8. ASSUME NEW s \in Scans, CandidateUnavailable(w, s) PROVE Descends(worker'[w], worker[w])
  <2>1. s \notin worker[w].tried /\ worker' = [worker EXCEPT ![w].tried = @ \cup {s}]
    BY <1>8 DEF CandidateUnavailable
  <2>2. /\ worker'[w].todo = worker[w].todo /\ worker'[w].operations = worker[w].operations
        /\ worker'[w].pc = worker[w].pc /\ worker'[w].completed = worker[w].completed
        /\ worker'[w].tried = worker[w].tried \cup {s}
    BY ONLY <1>0, <2>1 DEF Locals
  <2>3. Nearer(worker'[w], worker[w])
    BY <2>1, <2>2 DEF Nearer, Shrinks
  <2> QED BY <2>2, <2>3, NearerDescends
<1> HIDE DEF Same, On
<1> QED
  BY ONLY <1>2, <1>3, <1>4, <1>5, <1>6, <1>7, <1>8

\* A refresh adds a section to those done; one that failed before anything was
\* done, a scan to those tried, which is where its candidate was not.
LEMMA RefreshDescends ==
  ASSUME TypeOK, CandidatesNew, NEW w \in Workers, NEW x \in Sections,
         Refresh(w, x) \/ RefreshFails(w, x)
  PROVE  Descends(worker'[w], worker[w])
<1>0. worker \in [Workers -> Locals] /\ worker[w] \in Locals
  BY DEF TypeOK, WorkersOK
<1>1. worker[w].pc = "refresh" /\ x \notin worker[w].completed
  BY DEF Refresh, RefreshFails
<1>2. Part(worker[w].pc) = 4
  BY <1>1, Parts DEF OperationSteps
<1>3. CASE Refresh(w, x)
  <2> DEFINE p == IF worker[w].operation \in PlexOperations THEN "progress" ELSE "verify"
  <2>1. worker' = [worker EXCEPT ![w].completed = @ \cup {x}, ![w].pc = p]
    BY <1>3 DEF Refresh
  <2>2. Part(p) = 4
    BY Parts DEF OperationSteps
  <2> HIDE DEF p
  <2>3. /\ worker'[w].todo = worker[w].todo /\ worker'[w].operations = worker[w].operations
        /\ worker'[w].tried = worker[w].tried /\ worker'[w].pc = p
        /\ worker'[w].completed = worker[w].completed \cup {x}
    BY ONLY <1>0, <2>1 DEF Locals
  <2>4. Nearer(worker'[w], worker[w])
    BY <1>1, <2>3 DEF Nearer, Shrinks
  <2> QED BY <1>2, <2>2, <2>3, <2>4, NearerDescends
<1>4. CASE RefreshFails(w, x)
  <2>1. \/ worker' = [worker EXCEPT ![w] = Leave(w)]
        \/ worker' = [worker EXCEPT ![w] =
             [worker[w] EXCEPT !.tried = worker[w].tried \cup {worker[w].candidate},
                               !.pc = "candidate"]]
    BY <1>4 DEF RefreshFails
  <2>2. CASE worker' = [worker EXCEPT ![w] = Leave(w)]
    <3>1. worker[w].pc \in OperationSteps
      BY <1>1 DEF OperationSteps
    <3> QED BY <1>0, <2>2, <3>1, LeaveDescends
  <2>3. CASE worker' = [worker EXCEPT ![w] =
               [worker[w] EXCEPT !.tried = worker[w].tried \cup {worker[w].candidate},
                                 !.pc = "candidate"]]
    <3>1. worker[w].candidate \notin worker[w].tried
      BY <1>1 DEF CandidatesNew, CandidateIsNew
    <3>2. /\ worker'[w].todo = worker[w].todo /\ worker'[w].operations = worker[w].operations
          /\ worker'[w].completed = worker[w].completed /\ worker'[w].pc = "candidate"
          /\ worker'[w].tried = worker[w].tried \cup {worker[w].candidate}
      BY ONLY <1>0, <2>3 DEF Locals
    <3>3. Nearer(worker'[w], worker[w])
      BY <3>1, <3>2 DEF Nearer, Shrinks
    <3>4. Part(worker'[w].pc) = 4
      BY <3>2, Parts DEF OperationSteps
    <3> QED BY <1>2, <3>2, <3>3, <3>4, NearerDescends
  <2> QED BY <2>1, <2>2, <2>3
<1> QED
  BY <1>3, <1>4

\* Whatever a call does, of itself or when something fails.
LEMMA CallDescends ==
  ASSUME TypeOK, CandidatesNew, NEW w \in Workers, Proceeds(w) \/ Suffers(w)
  PROVE  CallFails(w) \/ Descends(worker'[w], worker[w])
<1>1. CASE Proceeds(w)
  BY <1>1, CallStepsDescend, OperationStepsDescend, RefreshDescends DEF Proceeds
<1>2. CASE Suffers(w)
  BY <1>2, CallStepsDescend, OperationStepsDescend, RefreshDescends DEF Suffers
<1> QED
  BY <1>1, <1>2

\* Candidates are chosen among the scans not tried, and tried at their failure.
LEMMA CallKeepsCandidates ==
  ASSUME TypeOK, CandidatesNew, NEW w \in Workers,
         Proceeds(w) \/ Suffers(w) \/ \E u \in Users : FollowUp(w, u)
  PROVE  CandidateIsNew(worker'[w])
<1>0. worker \in [Workers -> Locals] /\ worker[w] \in Locals /\ CandidateIsNew(worker[w])
  BY DEF TypeOK, WorkersOK, CandidatesNew
<1> DEFINE Late == {"refresh", "progress", "section"}
<1>1. ASSUME worker'[w].pc \notin Late PROVE CandidateIsNew(worker'[w])
  BY <1>1 DEF CandidateIsNew
<1>2. CASE \/ \E u \in Users : FollowUp(w, u)
           \/ CallFails(w) \/ Finish(w) \/ Crash(w)
  <2>1. \/ worker'[w].pc = "next"
        \/ worker'[w] = Idle
    <3>1. ASSUME NEW u \in Users, FollowUp(w, u) PROVE worker'[w].pc = "next"
      <4>1. \E as : worker' = [worker EXCEPT ![w] =
                      [Idle EXCEPT !.pc = "next", !.user = u, !.todo = ApprovalsToOpen(as)]]
        BY <3>1 DEF FollowUp, Start
      <4> QED BY <1>0, <4>1 DEF Idle
    <3>2. CallFails(w) => worker'[w].pc = "next"
      BY <1>0 DEF CallFails, Idle
    <3>3. Finish(w) \/ Crash(w) => worker'[w] = Idle
      BY <1>0 DEF Finish, Crash
    <3> QED BY <1>2, <3>1, <3>2, <3>3
  <2> QED BY <1>1, <2>1 DEF Idle
<1>3. CASE \/ \E a \in Approvals : Open(w, a) \/ AuditUnavailable(w, a) \/ RecordFinal(w, a)
           \/ FinalDone(w) \/ OperationsDone(w)
           \/ \E o \in Operations : SkipOperation(w, o)
                                      \/ (\E t \in Tokens : AcquireOperation(w, o, t))
  <2>1. worker'[w].pc \notin Late
    <3>1. ASSUME NEW a \in Approvals, Open(w, a) PROVE worker'[w].pc \in {"final", "operation"}
      BY <1>0, <3>1 DEF Open, Locals
    <3>2. ASSUME NEW a \in Approvals, AuditUnavailable(w, a) \/ RecordFinal(w, a)
          PROVE  worker'[w].pc \in {"next", "final"}
      BY <1>0, <3>2 DEF AuditUnavailable, RecordFinal, Locals
    <3>3. FinalDone(w) \/ OperationsDone(w) => worker'[w].pc \in {"next", "final"}
      BY <1>0 DEF FinalDone, OperationsDone, Locals
    <3>4. ASSUME NEW o \in Operations, SkipOperation(w, o)
          PROVE  worker'[w].pc = "operation"
      BY <1>0, <3>4 DEF SkipOperation, Locals
    <3>5. ASSUME NEW o \in Operations, NEW t \in Tokens, AcquireOperation(w, o, t)
          PROVE  worker'[w].pc = "select"
      BY <1>0, <3>5 DEF AcquireOperation, Locals
    <3>6. \A p \in {"next", "final", "operation", "select"} : p \notin Late
      OBVIOUS
    <3> HIDE DEF Late
    <3> QED BY ONLY <1>3, <3>1, <3>2, <3>3, <3>4, <3>5, <3>6
  <2> QED BY <1>1, <2>1
<1>4. CASE \/ Select(w) \/ Claim(w) \/ Confirm(w) \/ PreparationFails(w) \/ Fail(w)
           \/ FailUnread(w) \/ CandidatesExhausted(w) \/ Verify(w)
           \/ \E s \in Scans : CandidateUnavailable(w, s)
  <2>1. /\ Select(w) => worker'[w].pc \in {"release", "claim"}
        /\ Claim(w) => worker'[w].pc \in {"release", "confirm"}
        /\ Confirm(w) => worker'[w].pc \in {"candidate", "fail"}
    BY <1>0 DEF Select, Claim, Confirm, Locals
  <2>2. /\ PreparationFails(w) \/ CandidatesExhausted(w) => worker'[w].pc = "fail"
        /\ Fail(w) \/ FailUnread(w) => worker'[w].pc = "release"
        /\ Verify(w) => worker'[w].pc = "record"
    BY <1>0 DEF PreparationFails, CandidatesExhausted, Fail, FailUnread, Verify, Locals
  <2>3. ASSUME NEW s \in Scans, CandidateUnavailable(w, s) PROVE worker'[w].pc = "candidate"
    BY <1>0, <2>3 DEF CandidateUnavailable, Locals
  <2>4. \A p \in {"release", "claim", "confirm", "candidate", "fail", "record"} : p \notin Late
    OBVIOUS
  <2> HIDE DEF Late
  <2>5. worker'[w].pc \notin Late
    BY ONLY <1>4, <2>1, <2>2, <2>3, <2>4
  <2> QED BY <1>1, <2>5
<1>5. CASE Record(w) \/ Release(w) \/ OutcomeOpen(w) \/ AuthorityFails(w)
  <2>1. Leave(w).pc \in {"final", "operation"}
    BY <1>0 DEF Leave, Locals
  <2>2. Release(w) \/ OutcomeOpen(w) => worker'[w] = Leave(w)
    BY <1>0 DEF Release, OutcomeOpen, LeaveAmbiguous
  <2>3. Record(w) => worker'[w] = Leave(w) \/ worker'[w].pc = "release"
    BY <1>0 DEF Record, Locals
  <2>4. AuthorityFails(w) => worker'[w].pc \in {"fail", "final"}
    BY <1>0 DEF AuthorityFails, Locals, Leave
  <2>5. \A p \in {"final", "operation", "release", "fail"} : p \notin Late
    OBVIOUS
  <2> HIDE DEF Late
  <2>6. worker'[w].pc \notin Late
    BY ONLY <1>5, <2>1, <2>2, <2>3, <2>4, <2>5
  <2> QED BY <1>1, <2>6
<1>6. ASSUME NEW s \in Scans, TryCandidate(w, s) PROVE CandidateIsNew(worker'[w])
  <2>1. /\ s \notin worker[w].tried
        /\ worker'[w].candidate = s /\ worker'[w].tried = worker[w].tried
    BY <1>0, <1>6 DEF TryCandidate, Locals
  <2> QED BY <2>1 DEF CandidateIsNew
<1>7. CASE RecordProgress(w) \/ NextSection(w) \/ \E x \in Sections : Refresh(w, x)
  <2>1. /\ worker[w].pc \in Late
        /\ worker'[w].candidate = worker[w].candidate /\ worker'[w].tried = worker[w].tried
    <3>1. CASE RecordProgress(w) \/ NextSection(w)
      BY <1>0, <3>1 DEF RecordProgress, NextSection, Locals
    <3>2. ASSUME NEW x \in Sections, Refresh(w, x)
          PROVE  /\ worker[w].pc \in Late
                 /\ worker'[w].candidate = worker[w].candidate
                 /\ worker'[w].tried = worker[w].tried
      BY <1>0, <3>2 DEF Refresh, Locals
    <3> QED BY <1>7, <3>1, <3>2
  <2> QED BY <1>0, <2>1 DEF CandidateIsNew
<1>8. ASSUME NEW x \in Sections, RefreshFails(w, x) PROVE CandidateIsNew(worker'[w])
  <2>1. Leave(w).pc \in {"final", "operation"}
    BY <1>0 DEF Leave, Locals
  <2>2. worker'[w] = Leave(w) \/ worker'[w].pc = "candidate"
    BY <1>0, <1>8 DEF RefreshFails, Locals
  <2> QED BY <1>1, <2>1, <2>2
<1> HIDE DEF Late
<1> QED
  BY <1>2, <1>3, <1>4, <1>5, <1>6, <1>7, <1>8 DEF Proceeds, Suffers

\* What does not belong to a call changes the state of no call.
LEMMA EnvironmentLeavesCalls ==
  ASSUME [Next]_vars
  PROVE  \/ UNCHANGED worker
         \/ \E w \in Workers : Proceeds(w) \/ Suffers(w) \/ \E u \in Users : FollowUp(w, u)
  BY DEF Next, vars, Prepare, Delete, Execute, LeaseExpires, BackoffElapses

\* A call changes its own state only.
LEMMA CallsLeaveEachOther ==
  ASSUME TypeOK, NEW w \in Workers, NEW v \in Workers \ {w},
         Proceeds(w) \/ Suffers(w) \/ \E u \in Users : FollowUp(w, u)
  PROVE  worker'[v] = worker[v]
<1>0. worker \in [Workers -> Locals]
  BY DEF TypeOK, WorkersOK
<1> QED
  BY <1>0 DEF Proceeds, Suffers, FollowUp, Start, Open, AuditUnavailable,
     RecordFinal, FinalDone, CallFails, Finish, Crash, AcquireOperation, SkipOperation,
     OperationsDone, Select, Claim, Confirm, PreparationFails, TryCandidate,
     CandidateUnavailable, CandidatesExhausted, AuthorityFails, Refresh, RefreshFails,
     RecordProgress, NextSection, Verify, OutcomeOpen, LeaveAmbiguous, Record, Fail,
     FailUnread, Release

LEMMA NextKeepsCandidates ==
  TypeOK /\ CandidatesNew /\ [Next]_vars => CandidatesNew'
<1> SUFFICES ASSUME TypeOK, CandidatesNew, [Next]_vars, NEW v \in Workers
             PROVE  CandidateIsNew(worker'[v])
  BY DEF CandidatesNew
<1>1. CandidateIsNew(worker[v])
  BY DEF CandidatesNew
<1>2. ASSUME NEW w \in Workers, Proceeds(w) \/ Suffers(w) \/ \E u \in Users : FollowUp(w, u)
      PROVE  CandidateIsNew(worker'[v])
  BY <1>1, <1>2, CallKeepsCandidates, CallsLeaveEachOther
<1> QED
  BY <1>1, <1>2, EnvironmentLeavesCalls

\* Whatever a call does brings it nearer to its end, with any failures, stalls
\* and other calls: an operation is over after each of its scans was tried once
\* and each section of its plan refreshed once, and so is a call, after each of
\* its approvals was opened once.
THEOREM CallsWindDown == Spec => EveryStepDescends
<1>1. Init => CandidatesNew
  BY DEF Init, Idle, CandidatesNew, CandidateIsNew
<1>2. ASSUME TypeOK, CandidatesNew, [Next]_vars, NEW v \in Workers, worker[v].pc # "idle"
      PROVE  worker'[v] = worker[v] \/ CallFails(v) \/ Descends(worker'[v], worker[v])
  <2>1. ASSUME NEW w \in Workers, Proceeds(w) \/ Suffers(w)
        PROVE  worker'[v] = worker[v] \/ CallFails(v) \/ Descends(worker'[v], worker[v])
    BY <1>2, <2>1, CallDescends, CallsLeaveEachOther
  <2>2. ASSUME NEW w \in Workers, NEW u \in Users, FollowUp(w, u)
        PROVE  worker'[v] = worker[v]
    <3>1. worker[w].pc = "idle"
      BY <2>2 DEF FollowUp, Start
    <3> QED BY <1>2, <2>2, <3>1, CallsLeaveEachOther
  <2> QED BY <1>2, <2>1, <2>2, EnvironmentLeavesCalls
<1>3. TypeOK /\ CandidatesNew /\ [Next]_vars =>
        [\A w \in Workers :
           worker[w].pc # "idle" =>
             \/ worker'[w] = worker[w]
             \/ CallFails(w)
             \/ Descends(worker'[w], worker[w])]_vars
  BY <1>2
<1> QED
  BY <1>1, <1>3, TypeCorrect, NextKeepsCandidates, PTL DEF Spec, EveryStepDescends
=============================================================================
