----------------------- MODULE CleanupRunLease_proofs -----------------------
(***************************************************************************)
(* The run lease protects its holder, and implements the lock, for any     *)
(* operations and any lease that is at least one heartbeat and two delays  *)
(* long.                                                                   *)
(***************************************************************************)
EXTENDS CleanupRunLease, TLAPS

-----------------------------------------------------------------------------
(***************************************************************************)
(* The inductive invariant.                                                *)
(***************************************************************************)

\* Timely keeps these: nothing waits longer than its bound, and nothing is
\* dated in the future.
InTime ==
  \A o \in Ops :
    /\ Holding(o) => clock <= renewedAt[o] + Heartbeat
    /\ pc[o] = "acquiring" => calledAt[o] <= clock /\ clock <= calledAt[o] + Delay
    /\ \A t \in inFlight[o] : t <= clock /\ clock <= t + Delay

\* A holder is named in the lease.  Renewals are applied in any order, but each
\* is a delay old at most: runClaimedAt is that close to the latest one applied.
NotSetBack ==
  \A o \in Ops : Holding(o) =>
    /\ runClaimToken = o
    /\ appliedUpTo[o] <= clock
    /\ appliedUpTo[o] <= runClaimedAt + Delay

\* The latest renewal applied, and those called since, which are all in flight.
Counting(o) == {appliedUpTo[o]} \cup {t \in inFlight[o] : t > appliedUpTo[o]}

\* No gap: each of them is the last one called, or followed by one that is in
\* flight within a heartbeat.
NoGap ==
  \A o \in Ops : Holding(o) =>
    \A c \in Counting(o) :
      \/ renewedAt[o] <= c
      \/ \E f \in inFlight[o] : c < f /\ f <= c + Heartbeat

LeaseInv == TypeOK /\ InTime /\ NotSetBack /\ NoGap

\* The bounds are natural numbers.
LEMMA Bounds ==
  /\ Lease \in Nat /\ Heartbeat \in Nat /\ Delay \in Nat /\ MaxClock \in Nat
  /\ Lease >= Heartbeat + 2 * Delay
BY LeaseIsLong

\* The latest renewal applied is a heartbeat and a delay old at most, so the
\* lease is a heartbeat and two delays old at most.
LEMMA HolderIsAlive == LeaseInv => HolderLooksAlive
<1> SUFFICES ASSUME LeaseInv, NEW o \in Ops, Holding(o)
             PROVE  runClaimToken = o /\ clock - runClaimedAt <= Heartbeat + 2 * Delay
  BY DEF HolderLooksAlive
<1> USE Bounds DEF LeaseInv
<1>1. /\ clock \in Nat /\ runClaimedAt \in Nat /\ renewedAt[o] \in Nat /\ appliedUpTo[o] \in Nat
      /\ inFlight[o] \subseteq Nat
  BY DEF TypeOK
<1>2. /\ runClaimToken = o /\ appliedUpTo[o] <= runClaimedAt + Delay
      /\ clock <= renewedAt[o] + Heartbeat
      /\ \A t \in inFlight[o] : clock <= t + Delay
  BY DEF NotSetBack, InTime
<1>3. \/ renewedAt[o] <= appliedUpTo[o]
      \/ \E f \in inFlight[o] : f <= appliedUpTo[o] + Heartbeat
  BY DEF NoGap, Counting
<1>4. clock <= appliedUpTo[o] + Heartbeat + Delay
  BY <1>1, <1>2, <1>3
<1> QED BY <1>1, <1>2, <1>4

\* Nobody whose call is on its way finds the lease of a holder stale.
LEMMA HolderIsSafe ==
  ASSUME LeaseInv, NEW o \in Ops, Holding(o), NEW p \in Ops, pc[p] = "acquiring"
  PROVE  ~(runClaimToken = NoOp \/ StaleAt(calledAt[p]))
<1>1. runClaimToken = o /\ clock - runClaimedAt <= Heartbeat + 2 * Delay
  BY HolderIsAlive DEF HolderLooksAlive
<1>2. clock \in Nat /\ runClaimedAt \in Nat /\ calledAt[p] \in Nat /\ calledAt[p] <= clock
  BY DEF LeaseInv, TypeOK, InTime
<1> QED BY <1>1, <1>2, Bounds, OperationsAreNamed DEF StaleAt

-----------------------------------------------------------------------------
LEMMA InitLease == Init => LeaseInv
BY DEF Init, LeaseInv, TypeOK, InTime, NotSetBack, NoGap, Holding, Steps

\* The types.
LEMMA NextTypes == TypeOK /\ [Next]_vars => TypeOK'
<1> SUFFICES ASSUME TypeOK, [Next]_vars PROVE TypeOK'
  OBVIOUS
<1> USE DEF TypeOK, rowVars
<1>1. ASSUME NEW o \in Ops, CallAcquire(o) PROVE TypeOK'
  BY <1>1 DEF CallAcquire, Steps
<1>2. ASSUME NEW o \in Ops, Acquire(o) PROVE TypeOK'
  BY <1>2 DEF Acquire, Steps
<1>3. ASSUME NEW o \in Ops, Refused(o) PROVE TypeOK'
  BY <1>3 DEF Refused, Steps
<1>4. ASSUME NEW o \in Ops, CallRenewal(o) PROVE TypeOK'
  BY <1>4 DEF CallRenewal, Holding
<1>5. ASSUME NEW o \in Ops, NEW t \in inFlight[o], Renew(o, t) PROVE TypeOK'
  <2>1. t \in Nat /\ inFlight' \in [Ops -> SUBSET Nat]
    BY <1>5 DEF Renew
  <2>2. CASE runClaimToken = o
    BY <1>5, <2>1, <2>2 DEF Renew
  <2>3. CASE runClaimToken # o
    BY <1>5, <2>1, <2>3 DEF Renew
  <2> QED BY <2>2, <2>3
<1>6. ASSUME NEW o \in Ops, NEW t \in inFlight[o], RenewalFails(o, t) PROVE TypeOK'
  BY <1>6 DEF RenewalFails
<1>7. ASSUME NEW o \in Ops, CallRelease(o) \/ Release(o) \/ ReleaseFails(o) \/ Crash(o) PROVE TypeOK'
  BY <1>7 DEF CallRelease, Release, ReleaseFails, Crash, Steps
<1>8. CASE Tick
  BY <1>8 DEF Tick
<1>9. CASE UNCHANGED vars
  BY <1>9 DEF vars
<1> QED BY <1>1, <1>2, <1>3, <1>4, <1>5, <1>6, <1>7, <1>8, <1>9 DEF Next

\* An operation of which nothing changes, at the same time and with the same
\* lease, keeps its part of the invariant.
Same(o) ==
  /\ UNCHANGED clock
  /\ pc'[o] = pc[o] /\ calledAt'[o] = calledAt[o] /\ renewedAt'[o] = renewedAt[o]
  /\ inFlight'[o] = inFlight[o] /\ runLeaseLost'[o] = runLeaseLost[o]
  /\ appliedUpTo'[o] = appliedUpTo[o]

\* What the invariant says of one operation.
OpInv(o) ==
  /\ Holding(o) => /\ clock <= renewedAt[o] + Heartbeat
                   /\ runClaimToken = o
                   /\ appliedUpTo[o] <= clock
                   /\ appliedUpTo[o] <= runClaimedAt + Delay
                   /\ \A c \in Counting(o) :
                        \/ renewedAt[o] <= c
                        \/ \E f \in inFlight[o] : c < f /\ f <= c + Heartbeat
  /\ pc[o] = "acquiring" => calledAt[o] <= clock /\ clock <= calledAt[o] + Delay
  /\ \A t \in inFlight[o] : t <= clock /\ clock <= t + Delay

LEMMA InvIsOpInv == LeaseInv <=> TypeOK /\ \A o \in Ops : OpInv(o)
BY DEF LeaseInv, InTime, NotSetBack, NoGap, OpInv

LEMMA SameKeeps ==
  ASSUME NEW o \in Ops, OpInv(o), Same(o), Holding(o) => UNCHANGED <<runClaimToken, runClaimedAt>>
  PROVE  OpInv(o)'
BY DEF OpInv, Same, Holding, Counting

\* A step of o leaves the others as they are, and their lease too.
LEMMA OthersKeep ==
  ASSUME LeaseInv, NEW o \in Ops,
         \/ CallAcquire(o) \/ Acquire(o) \/ Refused(o) \/ CallRenewal(o)
         \/ \E t \in inFlight[o] : Renew(o, t) \/ RenewalFails(o, t)
         \/ CallRelease(o) \/ Release(o) \/ ReleaseFails(o) \/ Crash(o),
         NEW x \in Ops \ {o}
  PROVE  OpInv(x)'
<1>1. TypeOK /\ OpInv(x)
  BY InvIsOpInv
<1>2. Same(x) /\ (UNCHANGED rowVars \/ (pc[o] = "acquiring" /\ (runClaimToken = NoOp \/ StaleAt(calledAt[o])))
                  \/ runClaimToken = o)
  BY <1>1 DEF TypeOK, Same, rowVars, CallAcquire, Acquire, Refused, CallRenewal, Renew, RenewalFails,
              CallRelease, Release, ReleaseMatches, ReleaseFails, Crash
<1>3. Holding(x) => UNCHANGED rowVars
  BY <1>1, <1>2, HolderIsSafe DEF OpInv
<1> QED BY <1>1, <1>2, <1>3, SameKeeps DEF rowVars

-----------------------------------------------------------------------------
\* The steps of the operation itself.
LEMMA AcquireKeeps ==
  ASSUME LeaseInv, NEW o \in Ops, CallAcquire(o) \/ Acquire(o) \/ Refused(o)
  PROVE  OpInv(o)'
<1> USE Bounds
<1>1. TypeOK /\ OpInv(o)
  BY InvIsOpInv
<1>2. CASE CallAcquire(o)
  BY <1>1, <1>2 DEF CallAcquire, OpInv, Holding, TypeOK
<1>3. CASE Acquire(o)
  <2>1. inFlight[o] = {} /\ calledAt[o] <= clock /\ clock <= calledAt[o] + Delay
    BY <1>1, <1>3 DEF Acquire, TypeOK, OpInv
  <2>2. /\ pc'[o] = "running" /\ clock' = clock /\ runClaimToken' = o /\ runClaimedAt' = calledAt[o]
        /\ renewedAt'[o] = clock /\ appliedUpTo'[o] = clock /\ inFlight'[o] = {}
        /\ clock \in Nat
    BY <1>1, <1>3, <2>1 DEF Acquire, TypeOK
  <2> QED BY <2>1, <2>2 DEF OpInv, Counting
<1>4. CASE Refused(o)
  BY <1>1, <1>4 DEF Refused, OpInv, Holding, TypeOK
<1> QED BY <1>2, <1>3, <1>4

LEMMA CallRenewalKeeps ==
  ASSUME LeaseInv, NEW o \in Ops, CallRenewal(o)
  PROVE  OpInv(o)'
<1> USE Bounds
<1>1. TypeOK /\ OpInv(o) /\ Holding(o)
  BY InvIsOpInv DEF CallRenewal
<1>2. /\ UNCHANGED <<clock, runClaimToken, runClaimedAt, pc, runLeaseLost, appliedUpTo>>
      /\ inFlight'[o] = inFlight[o] \cup {clock} /\ renewedAt'[o] = clock
      /\ clock \in Nat /\ inFlight[o] \subseteq Nat /\ appliedUpTo[o] \in Nat /\ renewedAt[o] \in Nat
  BY <1>1 DEF CallRenewal, rowVars, TypeOK
<1>3. ASSUME NEW c \in Counting(o)'
      PROVE  clock <= c \/ \E f \in inFlight'[o] : c < f /\ f <= c + Heartbeat
  <2>1. c \in Nat /\ (c \in Counting(o) \/ c = clock)
    BY <1>2 DEF Counting
  <2>2. CASE c \in Counting(o) /\ renewedAt[o] <= c
    BY <1>1, <1>2, <2>1, <2>2 DEF OpInv
  <2>3. CASE c \in Counting(o) /\ ~(renewedAt[o] <= c)
    BY <1>1, <1>2, <2>3 DEF OpInv
  <2> QED BY <1>2, <2>1, <2>2, <2>3
<1> QED BY <1>1, <1>2, <1>3 DEF OpInv, Holding

\* A renewal is applied: later ones still follow the latest one without a gap.
LEMMA RenewKeeps ==
  ASSUME LeaseInv, NEW o \in Ops, NEW t \in inFlight[o], Renew(o, t) \/ RenewalFails(o, t)
  PROVE  OpInv(o)'
<1> USE Bounds
<1>1. TypeOK /\ OpInv(o)
  BY InvIsOpInv
<1>2. /\ clock \in Nat /\ inFlight[o] \subseteq Nat /\ appliedUpTo[o] \in Nat /\ renewedAt[o] \in Nat
      /\ t \in Nat /\ t <= clock /\ clock <= t + Delay
  BY <1>1 DEF OpInv, TypeOK
<1>3. /\ UNCHANGED <<clock, pc, calledAt, renewedAt, runClaimToken>>
      /\ inFlight'[o] = inFlight[o] \ {t}
  BY <1>1 DEF Renew, RenewalFails, TypeOK
<1>4. CASE Holding(o)'
  <2>1. Holding(o) /\ Renew(o, t) /\ runClaimToken = o
    BY <1>1, <1>3, <1>4 DEF Holding, Renew, RenewalFails, TypeOK, OpInv
  <2>2. /\ runClaimedAt' = t
        /\ appliedUpTo'[o] = IF t > appliedUpTo[o] THEN t ELSE appliedUpTo[o]
    BY <1>1, <2>1 DEF Renew, TypeOK
  <2>3. ASSUME NEW c \in Counting(o)'
        PROVE  renewedAt'[o] <= c \/ \E f \in inFlight'[o] : c < f /\ f <= c + Heartbeat
    <3>1. c \in Counting(o) /\ c \in Nat /\ t <= c
      BY <1>2, <1>3, <2>2 DEF Counting
    <3>2. renewedAt[o] <= c \/ \E f \in inFlight[o] : c < f /\ f <= c + Heartbeat
      BY <1>1, <2>1, <3>1 DEF OpInv
    <3> QED BY <1>2, <1>3, <3>1, <3>2
  <2>4. appliedUpTo[o] <= clock /\ clock <= renewedAt[o] + Heartbeat
    BY <1>1, <2>1 DEF OpInv
  <2> QED BY <1>1, <1>2, <1>3, <2>1, <2>2, <2>3, <2>4 DEF OpInv
<1> QED BY <1>1, <1>3, <1>4 DEF OpInv

LEMMA EndKeeps ==
  ASSUME LeaseInv, NEW o \in Ops, CallRelease(o) \/ Release(o) \/ ReleaseFails(o) \/ Crash(o)
  PROVE  OpInv(o)'
<1>1. TypeOK /\ OpInv(o)
  BY InvIsOpInv
<1>2. pc'[o] \in {"releasing", "done", "dead"} /\ UNCHANGED <<clock, inFlight>>
  BY <1>1 DEF TypeOK, CallRelease, Release, ReleaseFails, Crash
<1> QED BY <1>1, <1>2 DEF OpInv, Holding

\* Time passes only while everybody is in time.
LEMMA TickKeeps ==
  ASSUME LeaseInv, NEW o \in Ops, Tick
  PROVE  OpInv(o)'
<1> USE Bounds
<1>1. TypeOK /\ OpInv(o)
  BY InvIsOpInv
<1>2. /\ clock' = clock + 1
      /\ UNCHANGED <<runClaimToken, runClaimedAt, pc, calledAt, renewedAt, inFlight, runLeaseLost, appliedUpTo>>
      /\ clock \in Nat /\ inFlight[o] \subseteq Nat /\ renewedAt[o] \in Nat /\ calledAt[o] \in Nat
      /\ appliedUpTo[o] \in Nat
  BY <1>1 DEF Tick, rowVars, TypeOK
<1>3. /\ Holding(o) => clock < renewedAt[o] + Heartbeat
      /\ pc[o] = "acquiring" => clock < calledAt[o] + Delay
      /\ \A t \in inFlight[o] : clock < t + Delay
  BY DEF Tick, Timely
<1>4. Counting(o)' = Counting(o) /\ (Holding(o)' <=> Holding(o))
  BY <1>2 DEF Counting, Holding
<1> QED BY <1>1, <1>2, <1>3, <1>4 DEF OpInv

LEMMA NextLease == LeaseInv /\ [Next]_vars => LeaseInv'
<1> SUFFICES ASSUME LeaseInv, [Next]_vars PROVE LeaseInv'
  OBVIOUS
<1>1. TypeOK'
  BY NextTypes DEF LeaseInv
<1>2. ASSUME NEW x \in Ops PROVE OpInv(x)'
  <2>1. ASSUME NEW o \in Ops,
               \/ CallAcquire(o) \/ Acquire(o) \/ Refused(o) \/ CallRenewal(o)
               \/ \E t \in inFlight[o] : Renew(o, t) \/ RenewalFails(o, t)
               \/ CallRelease(o) \/ Release(o) \/ ReleaseFails(o) \/ Crash(o)
        PROVE  OpInv(x)'
    BY <2>1, OthersKeep, AcquireKeeps, CallRenewalKeeps, RenewKeeps, EndKeeps
  <2>2. CASE Tick
    BY <2>2, TickKeeps
  <2>3. CASE UNCHANGED vars
    BY <2>3, InvIsOpInv, SameKeeps DEF vars, Same
  <2> QED BY <2>1, <2>2, <2>3 DEF Next
<1>3. LeaseInv' <=> TypeOK' /\ \A o \in Ops : OpInv(o)'
  BY DEF LeaseInv, InTime, NotSetBack, NoGap, OpInv
<1> QED BY <1>1, <1>2, <1>3

LEMMA LeaseKept == Spec => []LeaseInv
BY InitLease, NextLease, PTL DEF Spec

-----------------------------------------------------------------------------
\* Every variable of the lease has its type, and an operation that has not
\* acquired it has sent no renewal (cleanup-run-lease.ts starts the interval
\* after the claim).
THEOREM LeaseTyped == Spec => []TypeOK
BY LeaseKept, PTL DEF LeaseInv

\* The lease of a running holder never looks abandoned to anybody: neither
\* renewals that overtake each other nor the time an acquisition is on its way
\* make CLEANUP_RUN_LEASE_MS too short, provided it is a heartbeat and two
\* delays long.
THEOREM HolderNeverLooksAbandoned == Spec => []HolderLooksAlive
BY LeaseKept, HolderIsAlive, PTL

\* The lease implements the lock: each of its conditional updates is a step of
\* RunLock or leaves it alone, so nobody acquires it while another operation
\* relies on it.
THEOREM LeaseIsALock == Spec => ImplementsRunLock
<1> DEFINE relying == {o \in Ops : Holding(o)}
<1>1. Init => Lock!Init
  BY DEF Init, Lock!Init, Holding
<1>2. LeaseInv /\ [Next]_vars => [Lock!Next]_(Lock!vars)
  <2> SUFFICES ASSUME LeaseInv, [Next]_vars,
                      ~(runClaimToken' = runClaimToken /\ relying' = relying)
               PROVE  Lock!Next
    BY DEF Lock!vars
  <2>1. TypeOK /\ \A o \in Ops : Holding(o) => runClaimToken = o
    BY DEF LeaseInv, NotSetBack
  <2>2. ASSUME NEW o \in Ops, Acquire(o) \/ Refused(o) PROVE Lock!Next
    <3>1. \A x \in Ops \ {o} : Holding(x)' <=> Holding(x)
      BY <2>1, <2>2 DEF Acquire, Refused, Holding, TypeOK
    <3>2. ~Holding(o) /\ (relying' = relying \/ relying' = relying \cup {o})
      BY <2>2, <3>1 DEF Acquire, Refused, Holding
    <3>3. CASE runClaimToken' = o
      <4>1. runClaimToken \notin relying
        BY <2>2, HolderIsSafe, <2>1, <3>2, <3>3, SMT DEF Acquire, Refused, rowVars
      <4>2. Lock!Acquire(o)
        BY <3>2, <3>3, <4>1 DEF Lock!Acquire
      <4> QED BY <4>2 DEF Lock!Next
    <3>4. CASE runClaimToken' # o
      <4>1. Refused(o) /\ UNCHANGED rowVars
        BY <2>2, <3>4 DEF Acquire, Refused
      <4>2. ~Holding(o)'
        BY <2>1, <4>1 DEF Refused, Holding, TypeOK
      <4> QED BY <3>1, <3>2, <4>1, <4>2 DEF rowVars
    <3> QED BY <3>3, <3>4
  <2>3. ASSUME NEW o \in Ops, UNCHANGED runClaimToken,
               \A x \in Ops : Holding(x)' => Holding(x)
        PROVE  Lock!Next
    <3>1. relying' \subseteq relying /\ relying \ relying' \subseteq relying
      BY <2>3
    <3>2. relying' = relying \ (relying \ relying')
      BY <3>1
    <3>3. Lock!Stop(relying \ relying')
      BY <2>3, <3>1, <3>2 DEF Lock!Stop
    <3>4. relying \ relying' \in SUBSET Ops
      OBVIOUS
    <3> QED BY <3>3, <3>4 DEF Lock!Next
  <2>4. ASSUME NEW o \in Ops, CallAcquire(o) \/ CallRenewal(o) PROVE Lock!Next
    <3>1. UNCHANGED runClaimToken /\ \A x \in Ops : Holding(x)' => Holding(x)
      BY <2>1, <2>4 DEF CallAcquire, CallRenewal, rowVars, Holding, TypeOK
    <3> QED BY <2>3, <3>1
  <2>5. ASSUME NEW o \in Ops, NEW t \in inFlight[o], Renew(o, t) \/ RenewalFails(o, t) PROVE Lock!Next
    <3>1. UNCHANGED runClaimToken /\ \A x \in Ops : Holding(x)' => Holding(x)
      BY <2>1, <2>5 DEF Renew, RenewalFails, Holding, TypeOK
    <3> QED BY <2>3, <3>1
  <2>6. ASSUME NEW o \in Ops, CallRelease(o) \/ ReleaseFails(o) \/ Crash(o) PROVE Lock!Next
    <3>1. UNCHANGED runClaimToken /\ \A x \in Ops : Holding(x)' => Holding(x)
      BY <2>1, <2>6 DEF CallRelease, ReleaseFails, Crash, rowVars, Holding, TypeOK
    <3> QED BY <2>3, <3>1
  <2>7. ASSUME NEW o \in Ops, Release(o) PROVE Lock!Next
    <3>1. \A x \in Ops : Holding(x)' <=> Holding(x)
      BY <2>1, <2>7 DEF Release, Holding, TypeOK
    <3>2. runClaimToken = o /\ runClaimToken' = NoOp /\ ~Holding(o)
      BY <2>7, <3>1 DEF Release, ReleaseMatches, rowVars, Holding
    <3> QED BY <3>1, <3>2 DEF Lock!Next, Lock!Clear
  <2>8. CASE Tick \/ UNCHANGED vars
    BY <2>8 DEF Tick, vars, rowVars, Holding
  <2> QED BY <2>2, <2>4, <2>5, <2>6, <2>7, <2>8 DEF Next
<1> QED BY <1>1, <1>2, LeaseKept, PTL DEF Spec, ImplementsRunLock, Lock!Spec
=============================================================================
