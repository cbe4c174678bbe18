-------------------------- MODULE CleanupRunLease --------------------------
(***************************************************************************)
(* The run lease of library cleanup (lib/library-cleanup/                  *)
(* cleanup-run-lease.ts), with its clock.  The lease is one row,           *)
(* runClaimToken and runClaimedAt, changed by conditional updates only.    *)
(* Each update carries the time at which it was called and reaches the     *)
(* database later: updates of one operation, by its heartbeat and by       *)
(* assertOwnership, may overtake each other.                               *)
(***************************************************************************)
EXTENDS Integers

CONSTANTS
  Ops,        \* operations that take the lease, each with a token of its own
  NoOp,       \* runClaimToken is null
  Lease,      \* CLEANUP_RUN_LEASE_MS
  Heartbeat,  \* a bound on the time between two renewals of a running holder
  Delay,      \* a bound on the time a database update takes
  MaxClock    \* how long the run lasts

ASSUME OperationsAreNamed == NoOp \notin Ops

\* The lease outlives one missed interval and the two updates around it.
ASSUME LeaseIsLong ==
  /\ {Lease, Heartbeat, Delay, MaxClock} \subseteq Nat
  /\ Lease >= Heartbeat + 2 * Delay

VARIABLES
  clock,
  runClaimToken, runClaimedAt,
  pc,            \* "idle", "acquiring", "running", "releasing", "done", "dead"
  calledAt,      \* when the acquisition was called
  renewedAt,     \* when the last renewal was called
  inFlight,      \* call times of the renewals the database has not applied
  runLeaseLost,
  appliedUpTo    \* history: the latest renewal the database applied

vars == <<clock, runClaimToken, runClaimedAt, pc, calledAt, renewedAt, inFlight,
          runLeaseLost, appliedUpTo>>

rowVars == <<runClaimToken, runClaimedAt>>

Steps == {"idle", "acquiring", "running", "releasing", "done", "dead"}

Init ==
  /\ clock = 0
  /\ runClaimToken = NoOp
  /\ runClaimedAt = 0
  /\ pc = [o \in Ops |-> "idle"]
  /\ calledAt = [o \in Ops |-> 0]
  /\ renewedAt = [o \in Ops |-> 0]
  /\ inFlight = [o \in Ops |-> {}]
  /\ runLeaseLost = [o \in Ops |-> FALSE]
  /\ appliedUpTo = [o \in Ops |-> 0]

-----------------------------------------------------------------------------
\* Mistakes this code could have made, for the operators named beside them.

\* StaleAt: a lease that is exactly Lease old is taken.
StaleAtOrBefore(now) == runClaimedAt <= now - Lease

\* ReleaseMatches: the release is keyed by configuration, not by token.
ReleaseMatchesAlways(o) == o \in Ops

-----------------------------------------------------------------------------
\* A holder that runs and has not been told that its lease is lost.
Holding(o) == pc[o] = "running" /\ ~runLeaseLost[o]

StaleAt(now) == runClaimedAt < now - Lease

CallAcquire(o) ==
  /\ pc[o] = "idle"
  /\ pc' = [pc EXCEPT ![o] = "acquiring"]
  /\ calledAt' = [calledAt EXCEPT ![o] = clock]
  /\ UNCHANGED <<clock, rowVars, renewedAt, inFlight, runLeaseLost, appliedUpTo>>

\* acquireCleanupRunLease: one conditional update, and the interval starts.
Acquire(o) ==
  /\ pc[o] = "acquiring"
  /\ runClaimToken = NoOp \/ StaleAt(calledAt[o])
  /\ runClaimToken' = o
  /\ runClaimedAt' = calledAt[o]
  /\ pc' = [pc EXCEPT ![o] = "running"]
  /\ renewedAt' = [renewedAt EXCEPT ![o] = clock]
  /\ appliedUpTo' = [appliedUpTo EXCEPT ![o] = clock]
  /\ UNCHANGED <<clock, calledAt, inFlight, runLeaseLost>>

\* No row matched, or the update failed: it may have been applied all the same.
Refused(o) ==
  /\ pc[o] = "acquiring"
  /\ pc' = [pc EXCEPT ![o] = "done"]
  /\ \/ UNCHANGED rowVars
     \/ /\ runClaimToken = NoOp \/ StaleAt(calledAt[o])
        /\ runClaimToken' = o
        /\ runClaimedAt' = calledAt[o]
  /\ UNCHANGED <<clock, calledAt, renewedAt, inFlight, runLeaseLost, appliedUpTo>>

\* assertOwnership, by the heartbeat or before a step of the run.
CallRenewal(o) ==
  /\ Holding(o)
  /\ clock \notin inFlight[o]
  /\ inFlight' = [inFlight EXCEPT ![o] = @ \cup {clock}]
  /\ renewedAt' = [renewedAt EXCEPT ![o] = clock]
  /\ UNCHANGED <<clock, rowVars, pc, calledAt, runLeaseLost, appliedUpTo>>

\* The database applies a renewal; no row matches if the token is another's.
Renew(o, t) ==
  /\ t \in inFlight[o]
  /\ inFlight' = [inFlight EXCEPT ![o] = @ \ {t}]
  /\ IF runClaimToken = o
     THEN /\ runClaimedAt' = t
          /\ appliedUpTo' = [appliedUpTo EXCEPT ![o] = IF t > @ THEN t ELSE @]
          /\ UNCHANGED runLeaseLost
     ELSE /\ runLeaseLost' = [runLeaseLost EXCEPT ![o] = TRUE]
          /\ UNCHANGED <<runClaimedAt, appliedUpTo>>
  /\ UNCHANGED <<clock, runClaimToken, pc, calledAt, renewedAt>>

\* A renewal is answered by an error, applied or not.  The holder stops for
\* good, whatever later ones would say.
RenewalFails(o, t) ==
  /\ t \in inFlight[o]
  /\ inFlight' = [inFlight EXCEPT ![o] = @ \ {t}]
  /\ runLeaseLost' = [runLeaseLost EXCEPT ![o] = TRUE]
  /\ \/ UNCHANGED runClaimedAt
     \/ runClaimToken = o /\ runClaimedAt' = t
  /\ UNCHANGED <<clock, runClaimToken, pc, calledAt, renewedAt, appliedUpTo>>

\* The run ends: clearInterval, then the conditional release.
CallRelease(o) ==
  /\ pc[o] = "running"
  /\ pc' = [pc EXCEPT ![o] = "releasing"]
  /\ UNCHANGED <<clock, rowVars, calledAt, renewedAt, inFlight, runLeaseLost, appliedUpTo>>

\* The where clause of releaseCleanupRunLease.
ReleaseMatches(o) == runClaimToken = o

Release(o) ==
  /\ pc[o] = "releasing"
  /\ pc' = [pc EXCEPT ![o] = "done"]
  /\ IF ReleaseMatches(o)
     THEN runClaimToken' = NoOp /\ runClaimedAt' = 0
     ELSE UNCHANGED rowVars
  /\ UNCHANGED <<clock, calledAt, renewedAt, inFlight, runLeaseLost, appliedUpTo>>

ReleaseFails(o) ==
  /\ pc[o] = "releasing"
  /\ pc' = [pc EXCEPT ![o] = "done"]
  /\ UNCHANGED <<clock, rowVars, calledAt, renewedAt, inFlight, runLeaseLost, appliedUpTo>>

\* The process dies; updates it has sent may still be applied.
Crash(o) ==
  /\ pc[o] \in {"acquiring", "running", "releasing"}
  /\ pc' = [pc EXCEPT ![o] = "dead"]
  /\ UNCHANGED <<clock, rowVars, calledAt, renewedAt, inFlight, runLeaseLost, appliedUpTo>>

-----------------------------------------------------------------------------
(***************************************************************************)
(* The assumption under which a lease protects anything: a running holder  *)
(* renews in time (the heartbeat's interval is a minute) and the database  *)
(* answers in time.                                                        *)
(***************************************************************************)
Timely ==
  \A o \in Ops :
    /\ Holding(o) => clock < renewedAt[o] + Heartbeat
    /\ pc[o] = "acquiring" => clock < calledAt[o] + Delay
    /\ \A t \in inFlight[o] : clock < t + Delay

Tick ==
  /\ clock < MaxClock
  /\ Timely
  /\ clock' = clock + 1
  /\ UNCHANGED <<rowVars, pc, calledAt, renewedAt, inFlight, runLeaseLost, appliedUpTo>>

Next ==
  \/ \E o \in Ops : \/ CallAcquire(o) \/ Acquire(o) \/ Refused(o) \/ CallRenewal(o)
                    \/ \E t \in inFlight[o] : Renew(o, t) \/ RenewalFails(o, t)
                    \/ CallRelease(o) \/ Release(o) \/ ReleaseFails(o) \/ Crash(o)
  \/ Tick

Spec == Init /\ [][Next]_vars

-----------------------------------------------------------------------------
TypeOK ==
  /\ clock \in Nat
  /\ runClaimToken \in Ops \cup {NoOp}
  /\ runClaimedAt \in Nat
  /\ pc \in [Ops -> Steps]
  /\ calledAt \in [Ops -> Nat]
  /\ renewedAt \in [Ops -> Nat]
  /\ inFlight \in [Ops -> SUBSET Nat]
  /\ runLeaseLost \in [Ops -> BOOLEAN]
  /\ appliedUpTo \in [Ops -> Nat]
  /\ \A o \in Ops : pc[o] \in {"idle", "acquiring"} =>
                      inFlight[o] = {} /\ ~runLeaseLost[o]

\* The lease of a running holder never looks abandoned, even when an older
\* renewal overtakes a younger one and sets runClaimedAt back.
HolderLooksAlive ==
  \A o \in Ops : Holding(o) =>
    runClaimToken = o /\ clock - runClaimedAt <= Heartbeat + 2 * Delay

Lock == INSTANCE RunLock WITH
          holder <- runClaimToken,
          relying <- {o \in Ops : Holding(o)}

\* The lease is a lock whose recovery never takes it from an operation that
\* still relies on it.
ImplementsRunLock == Lock!Spec
=============================================================================
