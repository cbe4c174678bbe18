------------------------- MODULE SeerrCircuitBreaker -------------------------
(***************************************************************************)
(* The circuit breaker of one Seerr instance                               *)
(* (lib/seerr/seerr-circuit-breaker.ts) together with the requests that    *)
(* go through it (lib/seerr/seerr-client.ts, lib/seerr/seerr-retry.ts).    *)
(* Every request asks the breaker once, before its first attempt, and      *)
(* reports to it once at most, after its last: in between any number of    *)
(* other requests pass and report, so results reach a circuit that has     *)
(* moved on.  Instances share nothing, so one circuit is enough.           *)
(*                                                                         *)
(* The circuit keeps timestamps; the model keeps their distance from the   *)
(* present, which Tick lets grow.  That is what the code computes of them, *)
(* and time needs no bound.  A distance past the last comparison it takes  *)
(* part in stays there.  The waits between attempts have no length of      *)
(* their own: any number of ticks may pass before the next one.            *)
(***************************************************************************)
EXTENDS Naturals, Sequences, FiniteSets

CONSTANTS
  Requests,       \* the callers; each issues one request after another
  Threshold,      \* failureThreshold
  Window,         \* failureWindowMs, in ticks
  Cooldown,       \* cooldownMs, in ticks
  MaxAttempts,    \* maxAttempts of withSeerrRetry
  Absent          \* the instance has no entry in the map of circuits

ASSUME BreakerAssumption ==
  /\ Threshold \in Nat \ {0}
  /\ Window \in Nat
  /\ Cooldown \in Nat \ {0}
  /\ MaxAttempts \in Nat \ {0}

\* cleanup drops a circuit that has been open for longer than this.
Stale == 10 * Cooldown

VARIABLES
  circuit,        \* the entry of the map, or Absent
  request,        \* what each caller is doing
  up,             \* the Seerr instance answers
  evidence,       \* ages of the failures reported to a closed circuit since a
                  \* success or an opening last ended the count (history)
  sinceFailure    \* ticks since a failure was last reported (history)

vars == <<circuit, request, up, evidence, sinceFailure>>

CircuitState == {"CLOSED", "OPEN", "HALF_OPEN"}

\* openedAt is read only while the circuit is open, so null needs no value of
\* its own: a circuit that is not open keeps 0.
Circuit == [state : CircuitState, failures : Seq(0 .. Window + 1), opened : 0 .. Stale + 1]

ASSUME AbsentIsNoCircuit == Absent \notin Circuit

\* An attempt may fail if the instance was down at some time since it began.
Idle == [at |-> "idle", attempt |-> 0, mayFail |-> FALSE]

Request ==
  [at : {"idle", "flight", "again"}, attempt : 0 .. MaxAttempts, mayFail : BOOLEAN]

(***************************************************************************)
(* The breaker, as functions of the circuit.                               *)
(***************************************************************************)
\* check throws.
Refuses(c) == c # Absent /\ c.state = "OPEN" /\ c.opened < Cooldown

\* A bug for the check of the model: a refusal starts the cooldown anew.
CheckedProlongs(c) ==
  IF c # Absent /\ c.state = "OPEN"
  THEN IF Refuses(c) THEN [c EXCEPT !.opened = 0] ELSE [c EXCEPT !.state = "HALF_OPEN", !.opened = 0]
  ELSE c

\* The circuit after check: a refusal leaves it alone, and the first caller
\* after the cooldown opens it halfway.  The others that follow pass as well.
Checked(c) ==
  IF c # Absent /\ c.state = "OPEN" /\ ~Refuses(c)
  THEN [c EXCEPT !.state = "HALF_OPEN", !.opened = 0]
  ELSE c

\* reportSuccess, whatever the state: a late success closes an open circuit.
Succeeded(c) ==
  IF c = Absent THEN c ELSE [state |-> "CLOSED", failures |-> <<>>, opened |-> 0]

Opened == [state |-> "OPEN", failures |-> <<>>, opened |-> 0]

\* The filter of the list.  Failures are pushed in the order of time, oldest
\* first, so the old ones it drops are a prefix.
Recent(ages) ==
  SubSeq(ages, Cardinality({i \in DOMAIN ages : ages[i] > Window}) + 1, Len(ages))

\* The list of failures with this one added and the old ones pruned.
Counted(c) == Recent(Append(IF c = Absent THEN <<>> ELSE c.failures, 0))

\* reportFailure.  A circuit that is open already counts as a closed one does
\* and, at the threshold, opens anew.
Failed(c) ==
  IF \/ c # Absent /\ c.state = "HALF_OPEN"
     \/ Len(Counted(c)) >= Threshold
  THEN Opened
  ELSE IF c = Absent THEN [state |-> "CLOSED", failures |-> Counted(c), opened |-> 0]
  ELSE [c EXCEPT !.failures = Counted(c)]

\* Bugs: cleanup looks at the state alone, of closed or of open circuits.
ExpiredWithFailures(c) ==
  \/ c.state = "CLOSED"
  \/ c.state = "OPEN" /\ c.opened > Stale

ExpiredWhileOpen(c) ==
  \/ c.state = "CLOSED" /\ c.failures = <<>>
  \/ c.state = "OPEN"

\* The periodic cleanup drops this circuit.
Expired(c) ==
  \/ c.state = "CLOSED" /\ c.failures = <<>>
  \/ c.state = "OPEN" /\ c.opened > Stale

(***************************************************************************)
(* Reports                                                                 *)
(***************************************************************************)
Closed(c) == c = Absent \/ c.state = "CLOSED"

\* The part of the history that still counts: what lies within the window.
Weighty(ages) ==
  SubSeq(ages, Cardinality({i \in DOMAIN ages : ages[i] \notin 0 .. Window}) + 1, Len(ages))

ReportSuccess ==
  /\ circuit' = Succeeded(circuit)
  /\ evidence' = <<>>
  /\ UNCHANGED sinceFailure

ReportFailure ==
  /\ circuit' = Failed(circuit)
  /\ evidence' = IF Closed(circuit) /\ Closed(circuit')
                 THEN Append(evidence, 0)
                 ELSE <<>>
  /\ sinceFailure' = 0

NoReport == UNCHANGED <<circuit, evidence, sinceFailure>>

(***************************************************************************)
(* A request                                                               *)
(***************************************************************************)
Init ==
  /\ circuit = Absent
  /\ request = [q \in Requests |-> Idle]
  /\ up = TRUE
  /\ evidence = <<>>
  /\ sinceFailure = Cooldown

\* An attempt begins.  It is taken to begin with the wait or the refresh of
\* credentials that comes before it.
Attempt(at, n) == [at |-> at, attempt |-> n, mayFail |-> ~up]

\* request() asks the breaker.  A refused request ends here.
Check(q) ==
  /\ request[q].at = "idle"
  /\ circuit' = Checked(circuit)
  /\ request' = IF Refuses(circuit) THEN request
                ELSE [request EXCEPT ![q] = Attempt("flight", 1)]
  /\ UNCHANGED <<up, evidence, sinceFailure>>

\* What an attempt comes to: "retryable" is 429, 5xx, a timeout or a network
\* error, "unknown" an error that is no SeerrApiError (a body that is no JSON),
\* "rejected" another 4xx.  An attempt that was begun while the instance was
\* down, or overtaken by an outage, may fail or time out also when the instance
\* is back.  Whether it is rejected does not depend on the health of the
\* instance as the breaker sees it.
Outcomes(q) ==
  {"ok", "rejected", "forbidden"}
    \cup IF request[q].mayFail THEN {"retryable", "unknown"} ELSE {}

\* A bug: a request the instance rejects counts against its health.
FaultyRejections == {"retryable", "unknown", "rejected"}

Faulty == {"retryable", "unknown"}

Leave(q) == request' = [request EXCEPT ![q] = Idle]

\* A bug: the last attempt is followed by one more.
RetryOnceMore(q) ==
  /\ request[q].at = "flight"
  /\ "retryable" \in Outcomes(q)
  /\ request[q].attempt <= MaxAttempts
  /\ request' = [request EXCEPT ![q] = Attempt("flight", request[q].attempt + 1)]
  /\ UNCHANGED up /\ NoReport

\* The attempt fails for now and another one follows.  An error of unknown kind
\* is retried as well if its message looks like one of the network.
Retry(q) ==
  /\ request[q].at = "flight"
  /\ "retryable" \in Outcomes(q)
  /\ request[q].attempt < MaxAttempts
  /\ request' = [request EXCEPT ![q] = Attempt("flight", request[q].attempt + 1)]
  /\ UNCHANGED up /\ NoReport

\* The last attempt is over.  Only a mutating request (any but a GET) deals with
\* a 403 as below, and which one it is matters nowhere else.
Answer(q) ==
  /\ request[q].at = "flight"
  /\ \E outcome \in Outcomes(q) :
       /\ outcome = "retryable" => request[q].attempt = MaxAttempts
       /\ IF outcome = "ok" THEN ReportSuccess
          ELSE IF outcome \in Faulty THEN ReportFailure
          ELSE NoReport
  /\ Leave(q)
  /\ UNCHANGED up

\* A 403 of a mutating request: with new CSRF credentials it is sent once
\* more, without them it ends unreported.
Refresh(q) ==
  /\ request[q].at = "flight"
  /\ "forbidden" \in Outcomes(q)
  /\ \/ request' = [request EXCEPT ![q] = Attempt("again", request[q].attempt)]
     \/ Leave(q)
  /\ UNCHANGED up /\ NoReport

\* A bug: a second 403 refreshes the credentials again.
AgainRefreshes(q) ==
  /\ request[q].at = "again"
  /\ UNCHANGED up
  /\ \/ \E outcome \in Outcomes(q) \ {"forbidden"} :
          /\ IF outcome = "ok" THEN ReportSuccess
             ELSE IF outcome \in Faulty THEN ReportFailure
             ELSE NoReport
          /\ Leave(q)
     \/ request' = [request EXCEPT ![q] = Attempt("flight", request[q].attempt)] /\ NoReport

\* The attempt with new credentials, which is not retried.
Again(q) ==
  /\ request[q].at = "again"
  /\ \E outcome \in Outcomes(q) :
       IF outcome = "ok" THEN ReportSuccess
       ELSE IF outcome \in Faulty THEN ReportFailure
       ELSE NoReport
  /\ Leave(q)
  /\ UNCHANGED up

(***************************************************************************)
(* Time, cleanup, the process and the instance                             *)
(***************************************************************************)
Older(age, last) == IF age < last THEN age + 1 ELSE last

AllOlder(ages) == [i \in DOMAIN ages |-> Older(ages[i], Window + 1)]

Aged(c) ==
  IF c = Absent THEN c
  ELSE [c EXCEPT !.failures = AllOlder(c.failures),
                 !.opened = IF c.state = "OPEN" THEN Older(c.opened, Stale + 1) ELSE 0]

Tick ==
  /\ circuit' = Aged(circuit)
  /\ evidence' = Weighty(AllOlder(evidence))
  /\ sinceFailure' = Older(sinceFailure, Cooldown)
  /\ UNCHANGED <<request, up>>

Cleanup ==
  /\ circuit # Absent
  /\ Expired(circuit)
  /\ circuit' = Absent
  /\ UNCHANGED <<request, up, evidence, sinceFailure>>

\* The process stops and starts again: circuits and requests are in memory.
Restart ==
  /\ circuit' = Absent
  /\ request' = [q \in Requests |-> Idle]
  /\ evidence' = <<>>
  /\ UNCHANGED <<up, sinceFailure>>

\* The Seerr instance goes down, also for the attempts under way, or comes back.
Outage ==
  /\ up' = ~up
  /\ request' = [q \in Requests |->
       IF up /\ request[q].at # "idle" THEN [request[q] EXCEPT !.mayFail = TRUE]
       ELSE request[q]]
  /\ UNCHANGED <<circuit, evidence, sinceFailure>>

Next ==
  \/ \E q \in Requests : Check(q) \/ Retry(q) \/ Answer(q) \/ Refresh(q) \/ Again(q)
  \/ Tick \/ Cleanup \/ Restart \/ Outage

Spec == Init /\ [][Next]_vars

\* Attempts are answered, by their timeout if by nothing else, and time passes.
\* Nobody is obliged to issue a request, and cleanup need not run.
Ends(q) == Retry(q) \/ Answer(q) \/ Refresh(q) \/ Again(q)

FairSpec == Spec /\ WF_vars(Tick) /\ \A q \in Requests : WF_vars(Ends(q))

(***************************************************************************)
(* Properties                                                              *)
(***************************************************************************)
\* The shape of the state.
TypeOK ==
  /\ circuit = Absent \/ circuit \in Circuit
  /\ request \in [Requests -> Request]
  /\ up \in BOOLEAN
  /\ evidence \in Seq(0 .. Window + 1)
  /\ sinceFailure \in 0 .. Cooldown

\* No evidence is lost: a circuit that lets requests pass as closed has had
\* fewer than Threshold failures within the window, however the reports, the
\* pruning of the list and the periodic cleanup of circuits interleave.
EvidenceCounts == Closed(circuit) => Len(evidence) < Threshold

\* Requests are refused only for the cooldown after a failure that was really
\* reported: refusals do not prolong themselves, and a probe that is never
\* reported (a 4xx leaves the circuit half open) cannot wedge the circuit.
RefusalIsRecent == Refuses(circuit) => sinceFailure < Cooldown

\* The periodic cleanup is invisible to callers: it changes neither what the
\* next check decides nor what the next failure does to a closed circuit.
CleanupIsInvisible ==
  [][Cleanup => /\ Refuses(circuit') = Refuses(circuit)
                /\ Closed(circuit) => Failed(circuit') = Failed(circuit)]_vars

\* The attempts a request may still make, and the report.
Left(r) ==
  CASE r.at = "idle" -> 0 [] r.at = "again" -> 1 [] OTHER -> 2 + MaxAttempts - r.attempt

\* Whatever happens to an admitted request uses up what it has left: retries,
\* refreshed credentials and the attempt that follows them nest without ever
\* giving each other new attempts (seerr-client.ts:357-395, seerr-retry.ts:43-82).
AttemptsRunOut ==
  [][\A q \in Requests :
       request[q].at # "idle" =>
         \/ [request'[q] EXCEPT !.mayFail = FALSE] = [request[q] EXCEPT !.mayFail = FALSE]
         \/ Left(request'[q]) < Left(request[q])]_vars

\* When the instance has come back for good, requests are in the end no longer
\* refused, although attempts that began while it was down may still fail and
\* open the circuit anew, requests the instance rejects leave a half-open circuit
\* as it is, and cleanup and restarts come in between (lines 49-131 of
\* seerr-circuit-breaker.ts, 357-395 of seerr-client.ts).
Recovers == <>[]up => <>[]~Refuses(circuit)

\* Every admitted request ends, whatever the instance answers.
EveryRequestEnds == \A q \in Requests : request[q].at # "idle" ~> request[q].at = "idle"
=============================================================================
