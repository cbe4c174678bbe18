----------------------- MODULE CleanupApproval_proofs -----------------------
(***************************************************************************)
(* Theorems about CleanupApproval, for any sets of approvals and           *)
(* operations and any bounds.                                              *)
(***************************************************************************)
EXTENDS CleanupApproval, FiniteSetTheorems, TLAPS

-----------------------------------------------------------------------------
(***************************************************************************)
(* Lemmas on the building blocks.                                          *)
(***************************************************************************)

\* The steps and the statuses are what their names say.
LEMMA Vocabulary ==
  /\ ItemSteps \subseteq LeaseSteps /\ LeaseSteps \subseteq Steps
  /\ MutationSteps \subseteq ItemSteps /\ CheckSteps \subseteq ItemSteps
  /\ {"idle", "requested", "done", "dead"} \cap LeaseSteps = {}
  /\ {"claiming", "picking", "settling", "releasing"} \subseteq LeaseSteps \ ItemSteps
  /\ \A o : {ClaimStatus(o), ExecuteStatus(o), RetryStatus(o)} \subseteq Statuses
  BY DEF ItemSteps, LeaseSteps, Steps, MutationSteps, CheckSteps, Statuses,
         ClaimStatus, ExecuteStatus, RetryStatus

\* An operation at an item step has an item in hand.
LEMMA ItemInHand ==
  ASSUME StepsOK, NEW o \in Ops, pc[o] \in ItemSteps
  PROVE  item[o] \in Items
  BY DEF StepsOK

\* Writing an outcome, or failing to, keeps the rows well typed.
LEMMA SettleTypes ==
  ASSUME RowsOK, faults \in Nat,
         NEW o, NEW i \in Items, NEW s \in Statuses, NEW n \in Notes, NEW p \in Plans,
         Settle(o, i, s, n, p)
  PROVE  RowsOK' /\ faults' \in Nat
<1>1. CASE WriteOutcome(o, i, s, n, p)
  <2>1. CASE Owns(o, i)
    <3>1. /\ status' = [status EXCEPT ![i] = s] /\ token' = [token EXCEPT ![i] = NoOp]
          /\ note' = [note EXCEPT ![i] = n] /\ plan' = [plan EXCEPT ![i] = p]
          /\ aged' = [aged EXCEPT ![i] = @ /\ s # "expired"]
          /\ UNCHANGED <<lapsed, faults>>
      BY <1>1, <2>1 DEF WriteOutcome
    <3>2. status' \in [Items -> Statuses] /\ token' \in [Items -> Ops \cup {NoOp}]
      BY ONLY RowsOK, i \in Items, s \in Statuses, <3>1 DEF RowsOK
    <3>3. note' \in [Items -> Notes] /\ plan' \in [Items -> Plans]
      BY ONLY RowsOK, i \in Items, n \in Notes, p \in Plans, <3>1 DEF RowsOK
    <3>4. aged' \in [Items -> BOOLEAN] /\ lapsed' \in [Items -> BOOLEAN]
      BY ONLY RowsOK, i \in Items, <3>1 DEF RowsOK
    <3> QED
      BY <3>1, <3>2, <3>3, <3>4 DEF RowsOK
  <2>2. CASE ~Owns(o, i)
    <3>1. UNCHANGED <<rowVars, faults>>
      BY <1>1, <2>2 DEF WriteOutcome
    <3> QED
      BY <3>1 DEF RowsOK, rowVars
  <2> QED
    BY <2>1, <2>2
<1>2. CASE WriteFails
  BY <1>2 DEF WriteFails, RowsOK, rowVars
<1> QED
  BY <1>1, <1>2 DEF Settle

\* So does every outcome the executor writes.
LEMMA OutcomeWords ==
  /\ \A i \in Items : RowsOK => KeptNote(i) \in Notes
  /\ {"none", "interrupted", "started", "confirmed", "other"} \subseteq Notes
  /\ {"file", "empty"} \subseteq Plans
  /\ {"expired", "executed", "retry_pending", "pending", "approved"} \subseteq Statuses
  BY DEF KeptNote, Notes, Plans, Statuses, RowsOK

\* Leaving an item, in either way, leaves the operation without one.
LEMMA LeaveItemTypes ==
  ASSUME StepsOK, NEW o \in Ops, NextItem(o) \/ Abort(o)
  PROVE  StepsOK'
  BY Vocabulary DEF NextItem, Abort, Goto, StepsOK, Routes, Steps, LeaseSteps

\* Going from one item step to another keeps the item.
LEMMA ItemStepTypes ==
  ASSUME StepsOK, NEW o \in Ops, pc[o] \in ItemSteps, NEW s \in ItemSteps,
         Goto(o, s), UNCHANGED item,
         route' \in [Ops -> Routes]
  PROVE  StepsOK'
  BY Vocabulary DEF Goto, StepsOK

\* Some outcome is written for the item in hand, or the write fails.
SomeOutcome(o) ==
  \E s \in Statuses, n \in Notes, p \in Plans : Settle(o, item[o], s, n, p)

LEMMA OutcomeTypes ==
  ASSUME RowsOK, StepsOK, faults \in Nat, NEW o \in Ops, pc[o] \in ItemSteps,
         SomeOutcome(o) \/ UNCHANGED <<rowVars, faults>>
  PROVE  RowsOK' /\ faults' \in Nat
<1>1. CASE SomeOutcome(o)
  BY <1>1, ItemInHand, SettleTypes DEF SomeOutcome
<1>2. CASE UNCHANGED <<rowVars, faults>>
  BY <1>2 DEF rowVars, RowsOK
<1> QED
  BY <1>1, <1>2

-----------------------------------------------------------------------------
(***************************************************************************)
(* Type correctness.                                                       *)
(***************************************************************************)

LEMMA InitTypes == Init => TypeOK
<1> SUFFICES ASSUME Init PROVE TypeOK
  OBVIOUS
<1>1. RowsOK
  BY DEF Init, RowsOK, Statuses, Notes, Plans
<1>2. ArrOK
  BY DEF Init, ArrOK
<1>3. LeaseOK
  BY DEF Init, LeaseOK
<1>4. StepsOK
  BY DEF Init, StepsOK, Steps, Routes, ItemSteps, MutationSteps, CheckSteps
<1>5. BatchesOK
  BY DEF Init, BatchesOK
<1>6. CountsOK /\ HistoryOK
  BY DEF Init, CountsOK, HistoryOK
<1> QED
  BY <1>1, <1>2, <1>3, <1>4, <1>5, <1>6 DEF TypeOK

LEMMA RequestTypes ==
  ASSUME TypeOK
  PROVE  /\ \A o \in Ops, S \in SUBSET Items : Approve(o, S) => TypeOK'
         /\ \A o \in Ops, S \in SUBSET Items : RequestRetry(o, S) => TypeOK'
         /\ \A i \in Items : Reject(i) => TypeOK'
<1> USE DEF TypeOK
<1>1. ASSUME NEW o \in Ops, NEW S \in SUBSET Items, Approve(o, S) PROVE TypeOK'
  <2>1. RowsOK'
    BY <1>1 DEF Approve, RowsOK, Statuses, Notes
  <2>2. StepsOK' /\ BatchesOK'
    BY <1>1, Vocabulary DEF Approve, Goto, StepsOK, BatchesOK, Steps
  <2> QED
    BY <1>1, <2>1, <2>2 DEF Approve, arrVars, leaseVars, countVars, historyVars,
       ArrOK, LeaseOK, CountsOK, HistoryOK
<1>2. ASSUME NEW o \in Ops, NEW S \in SUBSET Items, RequestRetry(o, S) PROVE TypeOK'
  <2>1. StepsOK' /\ BatchesOK'
    BY <1>2, Vocabulary DEF RequestRetry, Goto, StepsOK, BatchesOK, Steps
  <2> QED
    BY <1>2, <2>1 DEF RequestRetry, rowVars, arrVars, leaseVars, countVars,
       historyVars, RowsOK, ArrOK, LeaseOK, CountsOK, HistoryOK
<1>3. ASSUME NEW i \in Items, Reject(i) PROVE TypeOK'
  <2>1. RowsOK'
    BY <1>3 DEF Reject, RowsOK, Statuses
  <2> QED
    BY <1>3, <2>1 DEF Reject, arrVars, leaseVars, opVars, countVars, historyVars,
       ArrOK, LeaseOK, StepsOK, BatchesOK, CountsOK, HistoryOK
<1> QED
  BY <1>1, <1>2, <1>3

\* Steps of the batch: the lease, the claims, the choice of an item, the end.
LEMMA BatchTypes ==
  ASSUME TypeOK, NEW o \in Ops
  PROVE  /\ AcquireLease(o) => TypeOK'
         /\ LeaseRefused(o) => TypeOK'
         /\ \A i \in Items : Claim(o, i) => TypeOK'
         /\ \A i \in Items : PickItem(o, i) => TypeOK'
         /\ \A i \in Items : ExpireUnattributed(o, i) => TypeOK'
         /\ NoMoreItems(o) => TypeOK'
         /\ SettleBatch(o) => TypeOK'
         /\ ReleaseLease(o) => TypeOK'
<1> USE DEF TypeOK, arrVars, historyVars, ArrOK, HistoryOK
<1>1. ASSUME AcquireLease(o) PROVE TypeOK'
  <2>1. StepsOK'
    BY <1>1, Vocabulary DEF AcquireLease, Goto, StepsOK, Steps
  <2> QED
    BY <1>1, <2>1 DEF AcquireLease, rowVars, countVars, RowsOK, LeaseOK, BatchesOK, CountsOK
<1>2. ASSUME LeaseRefused(o) PROVE TypeOK'
  <2>1. RowsOK'
    BY <1>2 DEF LeaseRefused, ReleaseUnclaimed, rowVars, RowsOK, Statuses, Notes
  <2>2. CountsOK'
    <3>1. faults' \in {faults, faults + 1, faults + 2}
      <4>1. CASE LeaseFree
        BY <1>2, <4>1 DEF LeaseRefused, CountsOK
      <4>2. CASE ~LeaseFree
        BY <1>2, <4>2 DEF LeaseRefused, CountsOK
      <4> QED
        BY <4>1, <4>2
    <3> QED
      BY <1>2, <3>1 DEF LeaseRefused, CountsOK
  <2>3. StepsOK' /\ BatchesOK'
    BY <1>2, Vocabulary DEF LeaseRefused, Goto, StepsOK, BatchesOK, Steps
  <2> QED
    BY <1>2, <2>1, <2>2, <2>3 DEF LeaseRefused, leaseVars, LeaseOK
<1>3. ASSUME NEW i \in Items, Claim(o, i) PROVE TypeOK'
  <2>1. RowsOK'
    <3>1. ExecuteStatus(o) \in Statuses
      BY DEF ExecuteStatus, Statuses
    <3>2. CASE UNCHANGED rowVars
      BY <3>2 DEF rowVars, RowsOK
    <3>3. CASE /\ status' = [status EXCEPT ![i] = ExecuteStatus(o)]
               /\ token' = [token EXCEPT ![i] = o]
               /\ aged' = [aged EXCEPT ![i] = FALSE]
               /\ UNCHANGED <<note, plan, lapsed>>
      BY <3>1, <3>3 DEF RowsOK
    <3> QED
      BY <1>3, <3>2, <3>3 DEF Claim, WriteFails
  <2>2. CountsOK'
    BY <1>3 DEF Claim, WriteFails, CountsOK
  <2>3. StepsOK'
    BY <1>3, Vocabulary DEF Claim, Goto, StepsOK, Steps
  <2>4. BatchesOK'
    BY <1>3 DEF Claim, BatchesOK
  <2> QED
    BY <1>3, <2>1, <2>2, <2>3, <2>4 DEF Claim, leaseVars, LeaseOK
<1>4. ASSUME NEW i \in Items, PickItem(o, i) PROVE TypeOK'
  <2>1. StepsOK' /\ BatchesOK'
    BY <1>4, SetsAreDisjoint, Vocabulary DEF PickItem, Goto, StepsOK, BatchesOK,
       ItemSteps, Steps, LeaseSteps
  <2> QED
    BY <1>4, <2>1 DEF PickItem, rowVars, leaseVars, countVars, RowsOK, LeaseOK, CountsOK
<1>5. ASSUME NEW i \in Items, ExpireUnattributed(o, i) PROVE TypeOK'
  <2>1. RowsOK' /\ CountsOK'
    BY <1>5, SettleTypes, OutcomeWords DEF ExpireUnattributed, RowsOK, CountsOK
  <2>2. Goto(o, "picking") \/ Goto(o, "settling")
    BY <1>5 DEF ExpireUnattributed
  <2>3. StepsOK' /\ BatchesOK'
    BY <1>5, <2>2, Vocabulary DEF ExpireUnattributed, Goto, StepsOK, BatchesOK
  <2> QED
    BY <1>5, <2>1, <2>3 DEF ExpireUnattributed, leaseVars, LeaseOK
<1>6. ASSUME NoMoreItems(o) PROVE TypeOK'
  <2>1. StepsOK'
    BY <1>6, Vocabulary DEF NoMoreItems, Goto, StepsOK
  <2> QED
    BY <1>6, <2>1 DEF NoMoreItems, rowVars, leaseVars, countVars, RowsOK, LeaseOK,
       BatchesOK, CountsOK
<1>7. ASSUME SettleBatch(o) PROVE TypeOK'
  <2>1. RowsOK'
    BY <1>7, Vocabulary, OutcomeWords DEF SettleBatch, RowsOK
  <2>2. CountsOK'
    <3>1. PICK Kept \in SUBSET Items : /\ Cardinality(Kept) + faults <= MaxFaults
                                      /\ faults' = faults + Cardinality(Kept)
      BY <1>7 DEF SettleBatch
    <3>2. Cardinality(Kept) \in Nat
      BY ItemsAreFinite, FS_Subset, FS_CardinalityType
    <3> QED
      BY <1>7, <3>1, <3>2 DEF SettleBatch, CountsOK
  <2>3. StepsOK' /\ BatchesOK'
    BY <1>7, Vocabulary DEF SettleBatch, Goto, StepsOK, BatchesOK
  <2> QED
    BY <1>7, <2>1, <2>2, <2>3 DEF SettleBatch, leaseVars, LeaseOK
<1>8. ASSUME ReleaseLease(o) PROVE TypeOK'
  <2>1. LeaseOK'
    BY <1>8 DEF ReleaseLease, leaseVars, LeaseOK
  <2>3. CountsOK'
    BY <1>8 DEF ReleaseLease, leaseVars, CountsOK
  <2>2. StepsOK'
    BY <1>8, Vocabulary DEF ReleaseLease, Goto, StepsOK, Steps
  <2> QED
    BY <1>8, <2>1, <2>2, <2>3 DEF ReleaseLease, rowVars, RowsOK, BatchesOK
<1> QED
  BY <1>1, <1>2, <1>3, <1>4, <1>5, <1>6, <1>7, <1>8

\* The checks before an item is acted on.
LEMMA PreflightTypes ==
  ASSUME TypeOK, NEW o \in Ops
  PROVE  /\ PreflightReconciles(o) => TypeOK'
         /\ PreflightProceeds(o) => TypeOK'
         /\ PreflightAdoptsRemainder(o) => TypeOK'
         /\ PreflightRefuses(o) => TypeOK'
         /\ PreflightLosesLease(o) => TypeOK'
<1> USE DEF TypeOK, ArrOK, LeaseOK, BatchesOK, HistoryOK, arrVars, leaseVars, historyVars
<1>a. ASSUME NEW r \in Routes, Proceed(o, r), pc[o] = "preflight" PROVE StepsOK'
  <2>1. pc[o] \in ItemSteps /\ "authorize" \in ItemSteps
    BY <1>a DEF ItemSteps, CheckSteps
  <2>2. route' \in [Ops -> Routes]
    BY <1>a DEF Proceed, StepsOK
  <2> QED
    BY <1>a, <2>1, <2>2, ItemStepTypes DEF Proceed
<1>b. pc[o] = "preflight" => pc[o] \in ItemSteps
  BY DEF ItemSteps
<1>1. ASSUME PreflightReconciles(o) PROVE TypeOK'
  <2>1. StepsOK'
    BY <1>1, <1>a DEF PreflightReconciles, Routes
  <2> QED
    BY <1>1, <2>1 DEF PreflightReconciles, Proceed, rowVars, RowsOK, CountsOK
<1>2. ASSUME PreflightProceeds(o) PROVE TypeOK'
  <2>1. PICK r \in Routes : Proceed(o, r)
    BY <1>2 DEF PreflightProceeds, Routes
  <2>2. StepsOK'
    BY <1>2, <2>1, <1>a DEF PreflightProceeds
  <2> QED
    BY <1>2, <2>1, <2>2 DEF PreflightProceeds, Proceed, rowVars, RowsOK, CountsOK
<1>3. ASSUME PreflightAdoptsRemainder(o) PROVE TypeOK'
  <2>1. StepsOK'
    BY <1>3, <1>a DEF PreflightAdoptsRemainder, Routes
  <2>2. RowsOK'
    BY <1>3, OutcomeWords DEF PreflightAdoptsRemainder, RowsOK
  <2> QED
    BY <1>3, <2>1, <2>2 DEF PreflightAdoptsRemainder, Proceed, CountsOK
<1>4. ASSUME PreflightRefuses(o) PROVE TypeOK'
  <2>1. item[o] \in Items
    BY <1>4, <1>b, ItemInHand DEF PreflightRefuses
  <2>2. plan[item[o]] \in Plans /\ KeptNote(item[o]) \in Notes
    BY <2>1, OutcomeWords DEF RowsOK
  <2>3. SomeOutcome(o)
    BY <1>4, <2>2, OutcomeWords, Vocabulary DEF PreflightRefuses, SomeOutcome
  <2>4. RowsOK' /\ faults' \in Nat
    BY <1>4, <1>b, <2>3, OutcomeTypes DEF PreflightRefuses, CountsOK
  <2>5. StepsOK'
    BY <1>4, LeaveItemTypes DEF PreflightRefuses
  <2> QED
    BY <1>4, <2>4, <2>5 DEF PreflightRefuses, CountsOK
<1>5. ASSUME PreflightLosesLease(o) PROVE TypeOK'
  <2>1. StepsOK'
    BY <1>5, LeaveItemTypes DEF PreflightLosesLease
  <2> QED
    BY <1>5, <2>1 DEF PreflightLosesLease, rowVars, countVars, RowsOK, CountsOK
<1> QED
  BY <1>1, <1>2, <1>3, <1>4, <1>5

\* The checks before each call.
LEMMA CheckTypes ==
  ASSUME TypeOK, NEW o \in Ops
  PROVE  /\ CheckPasses(o) => TypeOK'
         /\ AuthorizeDefers(o) => TypeOK'
         /\ AlreadyGone(o) => TypeOK'
         /\ CheckFails(o) => TypeOK'
         /\ AuthorityChanges(o) => TypeOK'
         /\ CheckLosesLease(o) => TypeOK'
<1> USE DEF TypeOK, ArrOK, BatchesOK, HistoryOK, arrVars, historyVars
<1>a. pc[o] \in CheckSteps => pc[o] \in ItemSteps
  BY Vocabulary
<1>b. pc[o] \in CheckSteps =>
        item[o] \in Items /\ plan[item[o]] \in Plans
        /\ KeptNote(item[o]) \in Notes /\ note[item[o]] \in Notes
  BY <1>a, ItemInHand, OutcomeWords DEF RowsOK
<1>c. ASSUME pc[o] \in CheckSteps, NEW s \in ItemSteps, Goto(o, s), UNCHANGED <<item, route>>
      PROVE  StepsOK'
  BY <1>c, <1>a, ItemStepTypes DEF StepsOK
<1>d. \A i : pc[o] \in CheckSteps => StepAfterCheck(o, i) \in ItemSteps
  BY DEF CheckSteps, StepAfterCheck, ItemSteps, MutationSteps
<1>1. ASSUME CheckPasses(o) PROVE TypeOK'
  <2>1. StepsOK'
    BY <1>1, <1>c, <1>d DEF CheckPasses
  <2>2. aged' \in [Items -> BOOLEAN]
    BY <1>1, <1>b DEF CheckPasses, RowsOK
  <2> QED
    BY <1>1, <2>1, <2>2 DEF CheckPasses, AssertOwnership, RowsOK, LeaseOK, CountsOK
<1>2. ASSUME AuthorizeDefers(o) PROVE TypeOK'
  <2>1. StepsOK'
    BY <1>2, LeaveItemTypes DEF AuthorizeDefers
  <2> QED
    BY <1>2, <2>1 DEF AuthorizeDefers, AssertOwnership, rowVars, RowsOK, LeaseOK, CountsOK
<1>3. ASSUME AlreadyGone(o) PROVE TypeOK'
  <2>1. pc[o] \in CheckSteps /\ "recording" \in ItemSteps /\ "recordCheck" \in ItemSteps
    BY <1>3 DEF AlreadyGone, CheckSteps, ItemSteps
  <2>2. StepsOK'
    BY <1>3, <1>c, <2>1 DEF AlreadyGone
  <2> QED
    BY <1>3, <2>2 DEF AlreadyGone, rowVars, leaseVars, countVars, RowsOK,
       LeaseOK, CountsOK
<1>4. ASSUME CheckFails(o) PROVE TypeOK'
  <2>1. SomeOutcome(o)
    BY <1>4, <1>b, OutcomeWords, Vocabulary DEF CheckFails, SomeOutcome
  <2>2. RowsOK' /\ faults' \in Nat
    BY <1>4, <1>a, <2>1, OutcomeTypes DEF CheckFails, CountsOK
  <2>3. StepsOK'
    BY <1>4, LeaveItemTypes DEF CheckFails
  <2> QED
    BY <1>4, <2>2, <2>3 DEF CheckFails, leaseVars, LeaseOK, CountsOK
<1>5. ASSUME AuthorityChanges(o) PROVE TypeOK'
  <2>1. SomeOutcome(o)
    <3> DEFINE kept == IF note[item[o]] = "none" THEN "confirmed" ELSE note[item[o]]
    <3>1. pc[o] \in CheckSteps /\ kept \in Notes
      BY <1>5, <1>b, OutcomeWords DEF AuthorityChanges
    <3> QED
      BY <1>5, <3>1, <1>b, OutcomeWords, Vocabulary DEF AuthorityChanges, SomeOutcome
  <2>2. RowsOK' /\ faults' \in Nat
    BY <1>5, <1>a, <2>1, OutcomeTypes DEF AuthorityChanges, CountsOK
  <2>3. StepsOK'
    BY <1>5, LeaveItemTypes DEF AuthorityChanges
  <2> QED
    BY <1>5, <2>2, <2>3 DEF AuthorityChanges, leaseVars, LeaseOK, CountsOK
<1>6. ASSUME CheckLosesLease(o) PROVE TypeOK'
  <2>1. SomeOutcome(o) /\ (NextItem(o) \/ Abort(o))
    BY <1>6, <1>b, OutcomeWords, Vocabulary DEF CheckLosesLease, SomeOutcome
  <2>2. RowsOK' /\ faults' \in Nat
    BY <1>6, <1>a, <2>1, OutcomeTypes DEF CheckLosesLease, CountsOK
  <2>3. StepsOK'
    BY <2>1, LeaveItemTypes
  <2> QED
    BY <1>6, <2>2, <2>3 DEF CheckLosesLease, leaseVars, LeaseOK, CountsOK
<1> QED
  BY <1>1, <1>2, <1>3, <1>4, <1>5, <1>6

\* The calls and what is recorded around them.
LEMMA CallTypes ==
  ASSUME TypeOK, NEW o \in Ops
  PROVE  /\ DeleteMovieFile(o) => TypeOK'
         /\ DeleteMovieRecord(o) => TypeOK'
         /\ PersistStarted(o) => TypeOK'
         /\ UnmonitorEpisode(o) => TypeOK'
         /\ PersistConfirmed(o) => TypeOK'
         /\ DeleteEpisodeFile(o) => TypeOK'
         /\ RecordExecuted(o) => TypeOK'
<1> USE DEF TypeOK
<1> DEFINE CallSteps == MutationSteps \cup {"phaseStart", "phaseConfirm", "recording"}
           Leaves == SomeOutcome(o) /\ NextItem(o)
           GoesOn == \E s \in {"recordCheck", "recordRecheck", "recording", "unmonitor",
                               "phaseConfirm", "epFileCheck"} :
                       Goto(o, s) /\ UNCHANGED <<item, route>>
<1>a. pc[o] \in CallSteps => pc[o] \in ItemSteps
  BY DEF ItemSteps
<1>b. pc[o] \in CallSteps => item[o] \in Items /\ plan[item[o]] \in Plans
  BY <1>a, ItemInHand DEF RowsOK
<1>c. pc[o] \in CallSteps /\ GoesOn => StepsOK'
  <2> SUFFICES ASSUME pc[o] \in CallSteps, GoesOn PROVE StepsOK'
    OBVIOUS
  <2>1. PICK s \in ItemSteps : Goto(o, s) /\ UNCHANGED <<item, route>>
    BY DEF ItemSteps, CheckSteps, MutationSteps
  <2> QED
    BY <1>a, <2>1, ItemStepTypes DEF StepsOK
<1>d. pc[o] \in CallSteps /\ Leaves => RowsOK' /\ StepsOK' /\ faults' \in Nat
  <2> SUFFICES ASSUME pc[o] \in CallSteps, Leaves PROVE RowsOK' /\ StepsOK' /\ faults' \in Nat
    OBVIOUS
  <2>1. RowsOK' /\ faults' \in Nat
    BY <1>a, OutcomeTypes DEF CountsOK
  <2>2. StepsOK'
    BY LeaveItemTypes
  <2> QED
    BY <2>1, <2>2
<1>e. GoesOn /\ UNCHANGED <<rowVars, faults>> => RowsOK' /\ faults' \in Nat
  BY DEF rowVars, RowsOK, CountsOK
<1>f. pc[o] \in MutationSteps /\ Attempt(o) =>
        attempted' \in [Ops -> SUBSET Items] /\ overrun' \in [Ops -> Nat]
  BY <1>b DEF Attempt, BatchesOK, HistoryOK
<1>g. {"fileDelete", "recordDelete", "recordRedelete", "unmonitor", "epDelete"} \subseteq MutationSteps
  BY DEF MutationSteps
<1> HIDE DEF CallSteps, Leaves, GoesOn
<1>1. ASSUME DeleteMovieFile(o) PROVE TypeOK'
  <2>1. pc[o] \in CallSteps /\ pc[o] \in MutationSteps
    BY <1>1, <1>g DEF DeleteMovieFile, CallSteps
  <2>2. (GoesOn /\ UNCHANGED <<rowVars, faults>>) \/ Leaves
    BY <1>1, <1>b, <2>1, OutcomeWords, Vocabulary DEF DeleteMovieFile, GoesOn, Leaves, SomeOutcome
  <2>3. RowsOK' /\ StepsOK' /\ faults' \in Nat
    BY <2>1, <2>2, <1>c, <1>d, <1>e
  <2>4. ArrOK'
    BY <1>1, <1>b, <2>1 DEF DeleteMovieFile, ArrOK
  <2> QED
    BY <1>1, <1>f, <2>1, <2>3, <2>4 DEF DeleteMovieFile, leaseVars, LeaseOK,
       BatchesOK, CountsOK, HistoryOK
<1>2. ASSUME DeleteMovieRecord(o) PROVE TypeOK'
  <2>1. pc[o] \in CallSteps /\ pc[o] \in MutationSteps
    BY <1>2, <1>g DEF DeleteMovieRecord, CallSteps
  <2>2. (GoesOn /\ UNCHANGED <<rowVars, faults>>) \/ Leaves
    BY <1>2, <1>b, <2>1, OutcomeWords, Vocabulary DEF DeleteMovieRecord, GoesOn, Leaves, SomeOutcome
  <2>3. RowsOK' /\ StepsOK' /\ faults' \in Nat
    BY <2>1, <2>2, <1>c, <1>d, <1>e
  <2>4. ArrOK'
    BY <1>2, <1>b, <2>1 DEF DeleteMovieRecord, ArrOK
  <2> QED
    BY <1>2, <1>f, <2>1, <2>3, <2>4 DEF DeleteMovieRecord, leaseVars, LeaseOK,
       BatchesOK, CountsOK, HistoryOK
<1>3. ASSUME UnmonitorEpisode(o) PROVE TypeOK'
  <2>1. pc[o] \in CallSteps /\ pc[o] \in MutationSteps
    BY <1>3, <1>g DEF UnmonitorEpisode, CallSteps
  <2>2. (GoesOn /\ UNCHANGED <<rowVars, faults>>) \/ Leaves
    BY <1>3, <1>b, <2>1, OutcomeWords, Vocabulary DEF UnmonitorEpisode, GoesOn, Leaves, SomeOutcome
  <2>3. RowsOK' /\ StepsOK' /\ faults' \in Nat
    BY <2>1, <2>2, <1>c, <1>d, <1>e
  <2>4. ArrOK'
    BY <1>3, <1>b, <2>1 DEF UnmonitorEpisode, ArrOK
  <2> QED
    BY <1>3, <1>f, <2>1, <2>3, <2>4 DEF UnmonitorEpisode, leaseVars, LeaseOK,
       BatchesOK, CountsOK, HistoryOK
<1>4. ASSUME DeleteEpisodeFile(o) PROVE TypeOK'
  <2>1. pc[o] \in CallSteps /\ pc[o] \in MutationSteps
    BY <1>4, <1>g DEF DeleteEpisodeFile, CallSteps
  <2>2. (GoesOn /\ UNCHANGED <<rowVars, faults>>) \/ Leaves
    BY <1>4, <1>b, <2>1, OutcomeWords, Vocabulary DEF DeleteEpisodeFile, GoesOn, Leaves, SomeOutcome
  <2>3. RowsOK' /\ StepsOK' /\ faults' \in Nat
    BY <2>1, <2>2, <1>c, <1>d, <1>e
  <2>4. ArrOK'
    BY <1>4, <1>b, <2>1 DEF DeleteEpisodeFile, ArrOK
  <2> QED
    BY <1>4, <1>f, <2>1, <2>3, <2>4 DEF DeleteEpisodeFile, leaseVars, LeaseOK,
       BatchesOK, CountsOK, HistoryOK
<1>5. ASSUME PersistStarted(o) PROVE TypeOK'
  <2>1. pc[o] \in CallSteps
    BY <1>5 DEF PersistStarted, CallSteps
  <2>2. StepsOK' /\ RowsOK' /\ faults' \in Nat
    <3>1. CASE GoesOn /\ note' = [note EXCEPT ![item[o]] = "started"]
               /\ UNCHANGED <<status, token, plan, aged, lapsed, faults>>
      BY <1>b, <1>c, <2>1, <3>1, OutcomeWords DEF RowsOK, CountsOK
    <3>2. CASE Leaves
      BY <1>d, <2>1, <3>2
    <3> QED
      BY <1>5, <1>b, <2>1, <3>1, <3>2, OutcomeWords DEF PersistStarted, GoesOn, Leaves, SomeOutcome
  <2> QED
    BY <1>5, <2>2 DEF PersistStarted, arrVars, leaseVars, historyVars, ArrOK, LeaseOK,
       BatchesOK, CountsOK, HistoryOK
<1>6. ASSUME PersistConfirmed(o) PROVE TypeOK'
  <2>1. pc[o] \in CallSteps
    BY <1>6 DEF PersistConfirmed, CallSteps
  <2>2. StepsOK' /\ RowsOK' /\ faults' \in Nat
    <3>1. CASE GoesOn /\ note' = [note EXCEPT ![item[o]] = "confirmed"]
               /\ UNCHANGED <<status, token, plan, aged, lapsed, faults>>
      BY <1>b, <1>c, <2>1, <3>1, OutcomeWords DEF RowsOK, CountsOK
    <3>2. CASE Leaves
      BY <1>d, <2>1, <3>2
    <3> QED
      BY <1>6, <1>b, <2>1, <3>1, <3>2, OutcomeWords DEF PersistConfirmed, GoesOn, Leaves, SomeOutcome
  <2> QED
    BY <1>6, <2>2 DEF PersistConfirmed, arrVars, leaseVars, historyVars, ArrOK, LeaseOK,
       BatchesOK, CountsOK, HistoryOK
<1>7. ASSUME RecordExecuted(o) PROVE TypeOK'
  <2>1. pc[o] \in CallSteps
    BY <1>7 DEF RecordExecuted, CallSteps
  <2>2. StepsOK'
    BY <1>7, LeaveItemTypes DEF RecordExecuted
  <2>3. RowsOK' /\ faults' \in Nat
    <3>1. CASE WriteOutcome(o, item[o], "executed", "none", plan[item[o]])
      BY <1>b, <2>1, <3>1, OutcomeWords, SettleTypes DEF Settle, CountsOK
    <3>2. CASE faults' = faults + 2 /\ UNCHANGED rowVars
      BY <3>2 DEF rowVars, RowsOK, CountsOK
    <3> QED
      BY <1>7, <3>1, <3>2 DEF RecordExecuted
  <2> QED
    BY <1>7, <2>2, <2>3 DEF RecordExecuted, arrVars, leaseVars, historyVars, ArrOK,
       LeaseOK, BatchesOK, CountsOK, HistoryOK
<1> QED
  BY <1>1, <1>2, <1>3, <1>4, <1>5, <1>6, <1>7

\* The lease, the clock, the scheduler and the world.
LEMMA EnvironmentTypes ==
  ASSUME TypeOK
  PROVE  /\ \A o \in Ops : Heartbeat(o) \/ LoseOwnership(o) => TypeOK'
         /\ \A i \in Items : Schedule(i) \/ RowAges(i) \/ ApprovalLapses(i) => TypeOK'
         /\ \A i \in Items : Meddle(i) => TypeOK'
         /\ LeaseGoesStale => TypeOK'
         /\ Crash => TypeOK'
<1> USE DEF TypeOK
<1>1. ASSUME NEW o \in Ops, Heartbeat(o) PROVE TypeOK'
  BY <1>1 DEF Heartbeat, AssertOwnership, rowVars, arrVars, historyVars, RowsOK, ArrOK,
     LeaseOK, StepsOK, BatchesOK, CountsOK, HistoryOK
<1>2. ASSUME NEW o \in Ops, LoseOwnership(o) PROVE TypeOK'
  BY <1>2 DEF LoseOwnership, rowVars, arrVars, leaseVars, historyVars, RowsOK, ArrOK,
     LeaseOK, StepsOK, BatchesOK, CountsOK, HistoryOK
<1>3. ASSUME NEW i \in Items, Schedule(i) PROVE TypeOK'
  <2>1. RowsOK'
    <3>1. CASE ExpirePending(i)
      BY <3>1 DEF ExpirePending, RowsOK, Statuses, Notes
    <3>2. ASSUME NEW s \in Statuses, NEW n \in Notes, Recover(i, s, n) PROVE RowsOK'
      BY <3>2 DEF Recover, RowsOK
    <3> QED
      BY <1>3, <3>1, <3>2, OutcomeWords DEF Schedule, RecoverApproved, RecoverStarted,
         RecoverConfirmed, RecoverExecuting, RecoverRetryExecuting
  <2>2. UNCHANGED <<arrVars, leaseVars, opVars, countVars, historyVars>>
    BY <1>3 DEF Schedule, ExpirePending, RecoverApproved, RecoverStarted,
       RecoverConfirmed, RecoverExecuting, RecoverRetryExecuting, Recover
  <2> QED
    BY <2>1, <2>2 DEF arrVars, leaseVars, opVars, countVars, historyVars, ArrOK,
       LeaseOK, StepsOK, BatchesOK, CountsOK, HistoryOK
<1>4. ASSUME NEW i \in Items, RowAges(i) \/ ApprovalLapses(i) PROVE TypeOK'
  BY <1>4 DEF RowAges, ApprovalLapses, arrVars, leaseVars, opVars, countVars,
     historyVars, RowsOK, ArrOK, LeaseOK, StepsOK, BatchesOK, CountsOK, HistoryOK
<1>5. ASSUME NEW i \in Items, Meddle(i) PROVE TypeOK'
  <2>1. ArrOK'
    BY <1>5 DEF Meddle, ArrOK
  <2>2. CountsOK'
    BY <1>5 DEF Meddle, CountsOK
  <2> QED
    BY <1>5, <2>1, <2>2 DEF Meddle, rowVars, leaseVars, opVars, historyVars, RowsOK,
       LeaseOK, StepsOK, BatchesOK, HistoryOK
<1>6. ASSUME LeaseGoesStale PROVE TypeOK'
  BY <1>6 DEF LeaseGoesStale, rowVars, arrVars, opVars, countVars, historyVars,
     RowsOK, ArrOK, LeaseOK, StepsOK, BatchesOK, CountsOK, HistoryOK
<1>7. ASSUME Crash PROVE TypeOK'
  <2>1. StepsOK'
    <3>1. \A o \in Ops : Live(o) \/ pc[o] \notin ItemSteps
      BY Vocabulary DEF Live
    <3> QED
      BY <1>7, <3>1, Vocabulary DEF Crash, StepsOK, Steps, Routes
  <2>2. BatchesOK' /\ CountsOK'
    BY <1>7 DEF Crash, BatchesOK, CountsOK
  <2>3. HistoryOK'
    BY <1>7 DEF Crash, HistoryOK
  <2> QED
    BY <1>7, <2>1, <2>2, <2>3 DEF Crash, rowVars, arrVars, leaseVars, RowsOK, ArrOK, LeaseOK
<1> QED
  BY <1>1, <1>2, <1>3, <1>4, <1>5, <1>6, <1>7

\* Every variable keeps its type and an operation holds an item exactly while it
\* works on one, in every reachable state of the approval lifecycle.
THEOREM TypeCorrect == Spec => []TypeOK
<1>1. TypeOK /\ [Next]_vars => TypeOK'
  <2> SUFFICES ASSUME TypeOK, [Next]_vars PROVE TypeOK'
    OBVIOUS
  <2>1. CASE UNCHANGED vars
    BY <2>1 DEF vars, rowVars, arrVars, leaseVars, opVars, countVars, historyVars,
       TypeOK, RowsOK, ArrOK, LeaseOK, StepsOK, BatchesOK, CountsOK, HistoryOK
  <2>2. ASSUME NEW o \in Ops, Execute(o) PROVE TypeOK'
    BY <2>2, BatchTypes, PreflightTypes, CheckTypes, CallTypes DEF Execute
  <2>3. CASE Next
    BY <2>2, <2>3, RequestTypes, EnvironmentTypes DEF Next, Operate, Ops
  <2> QED
    BY <2>1, <2>3
<1> QED
  BY <1>1, InitTypes, PTL DEF Spec

-----------------------------------------------------------------------------
(***************************************************************************)
(* Exclusion.  While holders renew in time (~MayStall), an operation from  *)
(* its claim to its last write is the holder of a lease that is not stale, *)
(* so that neither another operation nor the scheduler's recovery moves;   *)
(* therefore the row it verified at "authorize" is still its own at every  *)
(* later step for the same item.                                           *)
(***************************************************************************)

ActSteps == ItemSteps \ {"preflight", "authorize"}

LeaseHeld == \A o \in Ops : pc[o] \in LeaseSteps => leaseOwner = o /\ ~leaseStale

ActsOnOwnRow == \A o \in Ops : pc[o] \in ActSteps => Owns(o, item[o])

OwnershipInv == TypeOK /\ LeaseHeld /\ ActsOnOwnRow

\* What an operation's step leaves alone: the others, and but for two actions
\* the lease.
LEMMA StepFrame ==
  ASSUME TypeOK, NEW o \in Ops, Execute(o)
  PROVE  /\ \A x \in Ops \ {o} : pc'[x] = pc[x] /\ item'[x] = item[x]
         /\ AcquireLease(o) \/ LeaseRefused(o) \/ pc[o] \in LeaseSteps
         /\ AcquireLease(o) \/ (pc'[o] \in LeaseSteps => pc[o] \in LeaseSteps)
         /\ AcquireLease(o) \/ ReleaseLease(o)
              \/ (leaseOwner' = leaseOwner /\ (leaseStale' => leaseStale))
<1> DEFINE Others == \A x \in Ops \ {o} : pc'[x] = pc[x] /\ item'[x] = item[x]
           Lease == leaseOwner' = leaseOwner /\ (leaseStale' => leaseStale)
           Within == pc[o] \in LeaseSteps
<1> USE DEF TypeOK, StepsOK
<1>a. {"claiming", "picking", "settling", "releasing", "preflight", "phaseStart",
       "phaseConfirm", "recording"} \cup CheckSteps \cup MutationSteps \subseteq LeaseSteps
  BY DEF LeaseSteps, ItemSteps
<1>b. {"fileDelete", "recordDelete", "recordRedelete", "unmonitor", "epDelete"} \subseteq MutationSteps
  BY DEF MutationSteps
<1>c. \A s : Goto(o, s) => \A x \in Ops \ {o} : pc'[x] = pc[x]
  BY DEF Goto
<1>d. NextItem(o) \/ Abort(o) => Others
  BY <1>c DEF NextItem, Abort
<1>1. CASE AcquireLease(o) \/ LeaseRefused(o)
  <2>1. Others
    BY <1>1, <1>c DEF AcquireLease, LeaseRefused
  <2>2. LeaseRefused(o) => Lease /\ pc'[o] \notin LeaseSteps
    BY Vocabulary DEF LeaseRefused, leaseVars, Goto
  <2> HIDE DEF Others, Lease
  <2> QED
    BY <1>1, <2>1, <2>2 DEF Others, Lease
<1>2. ASSUME NEW i \in Items, Claim(o, i) \/ PickItem(o, i) \/ ExpireUnattributed(o, i)
      PROVE  Others /\ Lease /\ Within
  <2>1. Others
    BY <1>2, <1>c DEF Claim, PickItem, ExpireUnattributed
  <2>2. Lease /\ Within
    BY <1>2, <1>a DEF Claim, PickItem, ExpireUnattributed, leaseVars
  <2> QED
    BY <2>1, <2>2
<1>3. CASE NoMoreItems(o) \/ SettleBatch(o) \/ PreflightLosesLease(o)
  <2>1. Others
    BY <1>3, <1>c, <1>d DEF NoMoreItems, SettleBatch, PreflightLosesLease
  <2>2. Lease /\ Within
    BY <1>3, <1>a DEF NoMoreItems, SettleBatch, PreflightLosesLease, leaseVars
  <2> QED
    BY <2>1, <2>2
<1>4. CASE ReleaseLease(o)
  <2>1. Others
    BY <1>4, <1>c DEF ReleaseLease
  <2>2. Within
    BY <1>4, <1>a DEF ReleaseLease
  <2> QED
    BY <1>4, <2>1, <2>2
<1>5. CASE PreflightReconciles(o) \/ PreflightProceeds(o) \/ PreflightAdoptsRemainder(o)
           \/ PreflightRefuses(o)
  <2>1. Others
    BY <1>5, <1>c, <1>d DEF PreflightReconciles, PreflightProceeds,
       PreflightAdoptsRemainder, PreflightRefuses, Proceed
  <2>2. Lease /\ Within
    BY <1>5, <1>a DEF PreflightReconciles, PreflightProceeds,
       PreflightAdoptsRemainder, PreflightRefuses, Proceed, leaseVars
  <2> QED
    BY <2>1, <2>2
<1>6. CASE CheckPasses(o) \/ AuthorizeDefers(o)
  <2>1. Others
    BY <1>6, <1>c, <1>d DEF CheckPasses, AuthorizeDefers
  <2>2. Lease
    BY <1>6 DEF CheckPasses, AuthorizeDefers, AssertOwnership
  <2>3. Within
    BY <1>6, <1>a DEF CheckPasses, AuthorizeDefers, CheckSteps
  <2> QED
    BY <2>1, <2>2, <2>3
<1>7. CASE AlreadyGone(o) \/ CheckFails(o) \/ AuthorityChanges(o) \/ CheckLosesLease(o)
  <2>1. Others
    BY <1>7, <1>c, <1>d DEF AlreadyGone, CheckFails, AuthorityChanges, CheckLosesLease
  <2>2. Lease
    BY <1>7 DEF AlreadyGone, CheckFails, AuthorityChanges, CheckLosesLease, leaseVars
  <2>3. Within
    BY <1>7, <1>a DEF AlreadyGone, CheckFails, AuthorityChanges, CheckLosesLease, CheckSteps
  <2> QED
    BY <2>1, <2>2, <2>3
<1>8. CASE DeleteMovieFile(o) \/ DeleteMovieRecord(o) \/ DeleteEpisodeFile(o)
           \/ UnmonitorEpisode(o)
  <2>1. Others
    BY <1>8, <1>c, <1>d DEF DeleteMovieFile, DeleteMovieRecord, DeleteEpisodeFile, UnmonitorEpisode
  <2>2. Lease /\ Within
    BY <1>8, <1>a, <1>b DEF DeleteMovieFile, DeleteMovieRecord, DeleteEpisodeFile,
       UnmonitorEpisode, leaseVars
  <2> QED
    BY <2>1, <2>2
<1>9. CASE PersistStarted(o) \/ PersistConfirmed(o) \/ RecordExecuted(o)
  <2>1. Others
    BY <1>9, <1>c, <1>d DEF PersistStarted, PersistConfirmed, RecordExecuted
  <2>2. Lease /\ Within
    BY <1>9, <1>a DEF PersistStarted, PersistConfirmed, RecordExecuted, leaseVars
  <2> QED
    BY <2>1, <2>2
<1> QED
  BY <1>1, <1>2, <1>3, <1>4, <1>5, <1>6, <1>7, <1>8, <1>9 DEF Execute

\* Before and after a step of one operation inside the lease, what another one
\* holds is untouched: there is no other one.
LEMMA LeaseHeldStep ==
  ASSUME OwnershipInv, NEW o \in Ops, Execute(o)
  PROVE  LeaseHeld'
<1> USE DEF OwnershipInv, LeaseHeld
<1> SUFFICES ASSUME NEW x \in Ops, pc'[x] \in LeaseSteps
             PROVE  leaseOwner' = x /\ ~leaseStale'
  BY DEF OwnershipInv, LeaseHeld
<1>1. CASE AcquireLease(o)
  <2>1. CASE x = o
    BY <1>1, <2>1 DEF AcquireLease
  <2>2. CASE x # o
    <3>1. pc[x] \in LeaseSteps
      BY <2>2, StepFrame
    <3>2. LeaseFree /\ leaseOwner = x /\ ~leaseStale
      BY <1>1, <3>1 DEF AcquireLease
    <3> QED
      BY <3>2, SetsAreDisjoint DEF LeaseFree
  <2> QED
    BY <2>1, <2>2
<1>2. CASE ReleaseLease(o)
  <2>1. pc'[o] \notin LeaseSteps
    BY <1>2, Vocabulary DEF ReleaseLease, Goto, TypeOK, StepsOK
  <2>2. pc[o] \in LeaseSteps
    BY <1>2 DEF ReleaseLease, LeaseSteps
  <2>3. pc[x] \in LeaseSteps
    BY <2>1, StepFrame
  <2> QED
    BY <2>1, <2>2, <2>3
<1>3. CASE ~AcquireLease(o) /\ ~ReleaseLease(o)
  <2>1. pc[x] \in LeaseSteps
    <3>1. x = o \/ pc'[x] = pc[x]
      BY StepFrame
    <3> QED
      BY <1>3, <3>1, StepFrame
  <2>2. leaseOwner' = leaseOwner /\ (leaseStale' => leaseStale)
    BY <1>3, StepFrame
  <2> QED
    BY <2>1, <2>2
<1> QED
  BY <1>1, <1>2, <1>3

\* Only the claim of an item and its outcome change whose row it is, and
\* neither is followed by a step that acts on the item.
LEMMA OwnRowStep ==
  ASSUME OwnershipInv, NEW o \in Ops, Execute(o), pc'[o] \in ActSteps
  PROVE  Owns(o, item[o])' 
<1> USE DEF OwnershipInv, ActsOnOwnRow, TypeOK, StepsOK
<1>a. ASSUME NEW s, Goto(o, s), s \notin ActSteps PROVE FALSE
  BY <1>a DEF Goto
<1>b. "authorize" \notin ActSteps /\ "preflight" \notin ActSteps /\ "picking" \notin ActSteps
      /\ "settling" \notin ActSteps /\ "claiming" \notin ActSteps /\ "done" \notin ActSteps
      /\ "releasing" \notin ActSteps
  BY DEF ActSteps, ItemSteps, CheckSteps, MutationSteps
<1>c. ~NextItem(o) /\ ~Abort(o)
  BY <1>a, <1>b DEF NextItem, Abort
<1>d. ASSUME Owns(o, item[o]), UNCHANGED <<status, token, item>> PROVE Owns(o, item[o])'
  BY <1>d DEF Owns
<1>1. CASE CheckPasses(o)
  <2>1. Owns(o, item[o])
    <3>1. pc[o] = "authorize" => Owns(o, item[o])
      BY <1>1 DEF CheckPasses, Verified
    <3>2. pc[o] # "authorize" => pc[o] \in ActSteps
      BY <1>1 DEF CheckPasses, ActSteps, ItemSteps, CheckSteps
    <3> QED
      BY <3>1, <3>2
  <2> QED
    BY <1>1, <1>d, <2>1 DEF CheckPasses
<1>2. CASE AlreadyGone(o)
  <2>1. pc[o] \in ActSteps
    BY <1>2 DEF AlreadyGone, ActSteps, ItemSteps, CheckSteps
  <2>2. UNCHANGED <<rowVars, item>>
    BY <1>2 DEF AlreadyGone
  <2> QED
    BY <1>d, <2>1, <2>2 DEF rowVars
<1>3. CASE DeleteMovieFile(o) \/ DeleteMovieRecord(o) \/ DeleteEpisodeFile(o) \/ UnmonitorEpisode(o)
  <2>1. pc[o] \in ActSteps
    BY <1>3 DEF DeleteMovieFile, DeleteMovieRecord, DeleteEpisodeFile, UnmonitorEpisode,
       ActSteps, ItemSteps, MutationSteps
  <2>2. UNCHANGED <<rowVars, item>>
    BY <1>3, <1>c DEF DeleteMovieFile, DeleteMovieRecord, DeleteEpisodeFile, UnmonitorEpisode
  <2> QED
    BY <1>d, <2>1, <2>2 DEF rowVars
<1>4. CASE PersistStarted(o) \/ PersistConfirmed(o)
  <2>1. Owns(o, item[o]) /\ UNCHANGED <<status, token, item>>
    BY <1>4, <1>c DEF PersistStarted, PersistConfirmed
  <2> QED
    BY <1>d, <2>1
<1>5. CASE AcquireLease(o) \/ LeaseRefused(o) \/ NoMoreItems(o) \/ SettleBatch(o) \/ ReleaseLease(o)
  BY <1>5, <1>a, <1>b DEF AcquireLease, LeaseRefused, NoMoreItems, SettleBatch, ReleaseLease
<1>6. ASSUME NEW i \in Items, Claim(o, i) \/ PickItem(o, i) \/ ExpireUnattributed(o, i)
      PROVE  FALSE
  BY <1>6, <1>a, <1>b DEF Claim, PickItem, ExpireUnattributed
<1>7. CASE PreflightReconciles(o) \/ PreflightProceeds(o) \/ PreflightAdoptsRemainder(o)
           \/ PreflightRefuses(o) \/ PreflightLosesLease(o)
  BY <1>7, <1>a, <1>b, <1>c DEF PreflightReconciles, PreflightProceeds,
     PreflightAdoptsRemainder, PreflightRefuses, PreflightLosesLease, Proceed
<1>8. CASE AuthorizeDefers(o) \/ CheckFails(o) \/ AuthorityChanges(o) \/ CheckLosesLease(o)
           \/ RecordExecuted(o)
  BY <1>8, <1>c DEF AuthorizeDefers, CheckFails, AuthorityChanges, CheckLosesLease, RecordExecuted
<1> QED
  BY <1>1, <1>2, <1>3, <1>4, <1>5, <1>6, <1>7, <1>8 DEF Execute

\* Requests, the passing of time, recovery, crashes and users leave a row alone
\* while its holder is between its claim and its last write.
LEMMA EnvironmentFrame ==
  ASSUME MayStall = FALSE, OwnershipInv, Next, \A o \in Ops : ~Execute(o)
  PROVE  LeaseHeld' /\ ActsOnOwnRow'
<1> USE DEF OwnershipInv, TypeOK, StepsOK
<1>a. ASSUME NEW x \in Ops, pc[x] \in LeaseSteps PROVE ~LeaseFree
  BY <1>a, SetsAreDisjoint DEF LeaseHeld, LeaseFree
<1>b. ASSUME UNCHANGED <<pc, item>>, UNCHANGED leaseOwner, leaseStale' => leaseStale,
             \A i \in Items :
               status[i] \in {"executing", "retry_executing"} =>
                 (status'[i] = status[i] /\ token'[i] = token[i]) \/ LeaseFree
      PROVE  LeaseHeld' /\ ActsOnOwnRow'
  <2>1. LeaseHeld'
    BY <1>b DEF LeaseHeld
  <2>2. ASSUME NEW x \in Ops, pc[x] \in ActSteps PROVE Owns(x, item[x])'
    <3>1. item[x] \in Items /\ Owns(x, item[x])
      BY <2>2, ItemInHand DEF ActSteps, ActsOnOwnRow
    <3>2. status[item[x]] \in {"executing", "retry_executing"}
      BY <3>1 DEF Owns, ExecuteStatus
    <3>3. ~LeaseFree
      BY <2>2, <1>a, Vocabulary DEF ActSteps
    <3> QED
      BY <1>b, <3>1, <3>2, <3>3 DEF Owns
  <2> QED
    BY <1>b, <2>1, <2>2 DEF ActsOnOwnRow
<1>1. ASSUME NEW o \in Ops, NEW S \in SUBSET Items, Approve(o, S) \/ RequestRetry(o, S)
      PROVE  LeaseHeld' /\ ActsOnOwnRow'
  <2>1. pc[o] = "idle" /\ Goto(o, "requested") /\ UNCHANGED <<item, leaseOwner, leaseStale>>
    BY <1>1 DEF Approve, RequestRetry, leaseVars
  <2>2. \A x \in Ops : pc'[x] = pc[x] \/ pc'[x] = "requested"
    BY <2>1 DEF Goto
  <2>3. LeaseHeld'
    BY <2>1, <2>2, Vocabulary DEF LeaseHeld
  <2>4. ASSUME NEW x \in Ops, pc'[x] \in ActSteps PROVE Owns(x, item[x])'
    <3>1. pc'[x] = pc[x]
      BY <2>2, <2>4, Vocabulary DEF ActSteps
    <3>2. item[x] \in Items /\ Owns(x, item[x])
      BY <2>4, <3>1, ItemInHand DEF ActSteps, ActsOnOwnRow
    <3>3. status'[item[x]] = status[item[x]] /\ token'[item[x]] = token[item[x]]
      BY <1>1, <3>2 DEF Approve, RequestRetry, Owns, ExecuteStatus, rowVars
    <3> QED
      BY <2>1, <3>2, <3>3 DEF Owns
  <2> QED
    BY <2>3, <2>4 DEF ActsOnOwnRow
<1>2. ASSUME NEW o \in Ops, Heartbeat(o) \/ LoseOwnership(o)
      PROVE  LeaseHeld' /\ ActsOnOwnRow'
  BY <1>2, <1>b DEF Heartbeat, LoseOwnership, AssertOwnership, rowVars, leaseVars
<1>3. ASSUME NEW i \in Items, Reject(i) \/ ExpirePending(i) \/ RecoverApproved(i)
      PROVE  LeaseHeld' /\ ActsOnOwnRow'
  <2>1. UNCHANGED <<pc, item, leaseOwner, leaseStale>>
    BY <1>3 DEF Reject, ExpirePending, RecoverApproved, Recover, leaseVars, opVars
  <2>2. \A j \in Items : status[j] \in {"executing", "retry_executing"} =>
           status'[j] = status[j] /\ token'[j] = token[j]
    BY <1>3 DEF Reject, ExpirePending, RecoverApproved, Recover, RowsOK
  <2> QED
    BY <1>b, <2>1, <2>2
<1>4. ASSUME NEW i \in Items, RecoverStarted(i) \/ RecoverConfirmed(i)
               \/ RecoverExecuting(i) \/ RecoverRetryExecuting(i)
      PROVE  LeaseHeld' /\ ActsOnOwnRow'
  <2>1. LeaseFree /\ UNCHANGED <<pc, item, leaseOwner, leaseStale>>
    BY <1>4 DEF RecoverStarted, RecoverConfirmed, RecoverExecuting, RecoverRetryExecuting,
       Abandoned, Recover, leaseVars, opVars
  <2> QED
    BY <1>b, <2>1
<1>5. ASSUME NEW i \in Items, RowAges(i) \/ ApprovalLapses(i) \/ Meddle(i)
      PROVE  LeaseHeld' /\ ActsOnOwnRow'
  BY <1>5, <1>b DEF RowAges, ApprovalLapses, Meddle, rowVars, leaseVars, opVars
<1>6. CASE LeaseGoesStale
  <2>1. UNCHANGED <<status, token, pc, item, leaseOwner>>
    BY <1>6 DEF LeaseGoesStale, rowVars, opVars
  <2>2. \A x \in Ops : pc[x] \notin LeaseSteps
    BY <1>6 DEF LeaseGoesStale, LeaseHeld
  <2> QED
    BY <2>1, <2>2, Vocabulary DEF LeaseHeld, ActsOnOwnRow, ActSteps
<1>7. CASE Crash
  <2>1. \A x \in Ops : pc'[x] \notin LeaseSteps
    BY <1>7, Vocabulary DEF Crash, Live
  <2> QED
    BY <2>1, Vocabulary DEF LeaseHeld, ActsOnOwnRow, ActSteps
<1> QED
  BY <1>1, <1>2, <1>3, <1>4, <1>5, <1>6, <1>7 DEF Next, Operate, Schedule, Ops

LEMMA OwnershipInductive ==
  ASSUME MayStall = FALSE
  PROVE  Spec => []OwnershipInv
<1>1. Init => OwnershipInv
  BY InitTypes, Vocabulary DEF Init, OwnershipInv, LeaseHeld, ActsOnOwnRow, ActSteps
<1>2. OwnershipInv /\ TypeOK' /\ [Next]_vars => OwnershipInv'
  <2> SUFFICES ASSUME OwnershipInv, TypeOK', [Next]_vars
               PROVE  LeaseHeld' /\ ActsOnOwnRow'
    BY DEF OwnershipInv
  <2>1. CASE UNCHANGED vars
    BY <2>1 DEF vars, rowVars, leaseVars, opVars, OwnershipInv, LeaseHeld, ActsOnOwnRow, Owns
  <2>2. ASSUME NEW o \in Ops, Execute(o) PROVE LeaseHeld' /\ ActsOnOwnRow'
    <3>1. LeaseHeld'
      BY <2>2, LeaseHeldStep
    <3>2. ASSUME NEW x \in Ops, pc'[x] \in ActSteps PROVE Owns(x, item[x])'
      <4>1. CASE x = o
        BY <2>2, <3>2, <4>1, OwnRowStep
      <4>2. CASE x # o
        <5>1. pc'[x] = pc[x] /\ item'[x] = item[x]
          BY <2>2, <4>2, StepFrame DEF OwnershipInv
        <5>2. item[x] \in Items /\ Owns(x, item[x]) /\ pc[x] \in LeaseSteps
          BY <3>2, <5>1, ItemInHand, Vocabulary DEF ActSteps, ActsOnOwnRow, OwnershipInv, TypeOK
        <5>3. LeaseRefused(o)
          <6>1. leaseOwner = x /\ ~LeaseFree
            BY <5>2, SetsAreDisjoint DEF OwnershipInv, LeaseHeld, LeaseFree
          <6>2. ~AcquireLease(o) /\ pc[o] \notin LeaseSteps
            BY <4>2, <6>1 DEF AcquireLease, OwnershipInv, LeaseHeld
          <6> QED
            BY <2>2, <6>2, StepFrame DEF OwnershipInv
        <5>4. status'[item[x]] = status[item[x]] /\ token'[item[x]] = token[item[x]]
          BY <5>2, <5>3 DEF LeaseRefused, ReleaseUnclaimed, rowVars, Owns, ExecuteStatus
        <5> QED
          BY <5>1, <5>2, <5>4 DEF Owns
      <4> QED
        BY <4>1, <4>2
    <3> QED
      BY <3>1, <3>2 DEF ActsOnOwnRow
  <2>3. CASE Next /\ \A o \in Ops : ~Execute(o)
    BY <2>3, EnvironmentFrame
  <2> QED
    BY <2>1, <2>2, <2>3
<1> QED
  BY <1>1, <1>2, TypeCorrect, PTL DEF Spec

\* Whatever the approvals, operations, failures, crashes and users: an operation
\* that is about to change Radarr or Sonarr holds the run lease, and the approval
\* is executing under its own token.  It assumes that holders renew in time.
THEOREM ActsUnderOwnership ==
  ASSUME MayStall = FALSE
  PROVE  Spec => []MutatesUnderOwnership
<1>1. OwnershipInv => MutatesUnderOwnership
  <2> SUFFICES ASSUME OwnershipInv, NEW o \in Ops, pc[o] \in MutationSteps
               PROVE  Owns(o, item[o]) /\ leaseOwner = o
    BY DEF MutatesUnderOwnership
  <2>1. pc[o] \in ActSteps /\ pc[o] \in LeaseSteps
    BY Vocabulary DEF ActSteps, MutationSteps
  <2> QED
    BY <2>1 DEF OwnershipInv, LeaseHeld, ActsOnOwnRow
<1> QED
  BY <1>1, OwnershipInductive, PTL

\* The executor and the scheduler use the run lease as a lock with crash
\* recovery: every step of theirs is a step of RunLock, or leaves the lock alone.
THEOREM ApprovalUsesTheLock ==
  ASSUME MayStall = FALSE
  PROVE  Spec => ImplementsRunLock
<1> DEFINE relying == {o \in Ops : pc[o] \in LeaseSteps}
<1>1. Init => Lock!Init
  BY Vocabulary DEF Init, Lock!Init
<1>2. OwnershipInv /\ [Next]_vars => [Lock!Next]_(Lock!vars)
  <2> SUFFICES ASSUME OwnershipInv, [Next]_vars,
                      ~(leaseOwner' = leaseOwner /\ relying' = relying)
               PROVE  Lock!Next
    BY DEF Lock!vars
  <2> USE DEF OwnershipInv, LeaseHeld
  <2>a. leaseOwner \in Ops \cup {NoOp} /\ relying \subseteq Ops
    BY DEF TypeOK, LeaseOK
  <2>1. ASSUME NEW o \in Ops, Execute(o) PROVE Lock!Next
    <3>1. \A x \in Ops \ {o} : pc'[x] = pc[x]
      BY <2>1, StepFrame
    <3>2. CASE AcquireLease(o)
      <4>1. leaseOwner \notin relying
        BY <3>2, SetsAreDisjoint DEF AcquireLease, LeaseFree
      <4>2. o \notin relying /\ leaseOwner' = o
        BY <3>2, Vocabulary DEF AcquireLease
      <4>3. pc'[o] \in LeaseSteps
        BY <3>2, Vocabulary DEF AcquireLease, Goto, TypeOK, StepsOK
      <4>4. relying' = relying \cup {o}
        BY <3>1, <4>3
      <4> QED
        BY <4>1, <4>2, <4>4 DEF Lock!Next, Lock!Acquire
    <3>3. CASE ReleaseLease(o)
      <4>1. o \in relying /\ leaseOwner = o
        BY <3>3, Vocabulary DEF ReleaseLease
      <4>2. pc'[o] \notin LeaseSteps
        BY <3>3, Vocabulary DEF ReleaseLease, Goto, TypeOK, StepsOK
      <4>3. relying' = relying \ {o}
        BY <3>1, <4>2
      <4>4. leaseOwner' = leaseOwner \/ leaseOwner' = NoOp
        BY <3>3 DEF ReleaseLease, leaseVars
      <4>5. Lock!Stop({o})
        BY <4>1, <4>3, <4>4 DEF Lock!Stop
      <4> QED
        BY <4>5 DEF Lock!Next
    <3>4. CASE ~AcquireLease(o) /\ ~ReleaseLease(o)
      <4>1. leaseOwner' = leaseOwner
        BY <2>1, <3>4, StepFrame
      <4>2. relying' \subseteq relying
        BY <2>1, <3>1, <3>4, StepFrame
      <4> QED
        BY <4>1, <4>2 DEF Lock!Next, Lock!Stop
    <3> QED
      BY <3>2, <3>3, <3>4
  <2>2. CASE Crash
    <3>1. relying' = {} /\ leaseOwner' = leaseOwner
      BY <2>2, Vocabulary DEF Crash, Live, leaseVars
    <3> QED
      BY <3>1 DEF Lock!Next, Lock!Stop
  <2>3. ASSUME NEW o \in Ops, NEW S \in SUBSET Items, Approve(o, S) \/ RequestRetry(o, S)
        PROVE  FALSE
    <3>1. leaseOwner' = leaseOwner /\ pc[o] = "idle" /\ Goto(o, "requested")
      BY <2>3 DEF Approve, RequestRetry, leaseVars
    <3>2. \A x \in Ops : pc'[x] \in LeaseSteps <=> pc[x] \in LeaseSteps
      BY <3>1, Vocabulary DEF Goto, TypeOK, StepsOK
    <3> QED
      BY <3>1, <3>2
  <2>4. CASE \/ LeaseGoesStale
             \/ \E o \in Ops : Heartbeat(o) \/ LoseOwnership(o)
             \/ \E i \in Items : Reject(i) \/ Schedule(i) \/ RowAges(i)
                                 \/ ApprovalLapses(i) \/ Meddle(i)
    <3>1. UNCHANGED <<pc, leaseOwner>>
      BY <2>4 DEF LeaseGoesStale, Heartbeat, LoseOwnership, AssertOwnership, Reject, Schedule,
         ExpirePending, RecoverApproved, RecoverStarted, RecoverConfirmed, RecoverExecuting,
         RecoverRetryExecuting, Recover, RowAges, ApprovalLapses, Meddle, leaseVars, opVars
    <3> QED
      BY <3>1
  <2>5. CASE UNCHANGED vars
    BY <2>5 DEF vars, leaseVars, opVars
  <2> QED
    BY <2>1, <2>2, <2>3, <2>4, <2>5 DEF Next, Operate, Ops
<1> QED
  BY <1>1, <1>2, OwnershipInductive, PTL DEF Spec, ImplementsRunLock, Lock!Spec
=============================================================================
