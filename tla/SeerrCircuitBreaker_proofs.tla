--------------------- MODULE SeerrCircuitBreaker_proofs ---------------------
(***************************************************************************)
(* What the circuit breaker promises for any number of callers, any        *)
(* threshold, window and cooldown.  The first two promises leave the list  *)
(* of failures open, as the way it is pruned matters to neither; the last  *)
(* two are about what it holds.                                            *)
(***************************************************************************)
EXTENDS SeerrCircuitBreaker, TLAPS, FiniteSetTheorems, SequenceTheorems,
        WellFoundedInduction

\* An entry of the map: opened counts from zero while the circuit is open, and
\* is zero while it is not.
Entry(c) ==
  /\ c = [state |-> c.state, failures |-> c.failures, opened |-> c.opened]
  /\ c.state \in CircuitState
  /\ c.opened \in 0 .. Stale + 1
  /\ c.state # "OPEN" => c.opened = 0

\* A circuit that still refuses was opened by a failure, and since then neither
\* a refusal nor a late report has put the opening off without another failure.
OpenedByFailure(c, since) ==
  c # Absent /\ c.state = "OPEN" /\ c.opened < Cooldown => since <= c.opened

BreakerInv ==
  /\ sinceFailure \in 0 .. Cooldown
  /\ circuit # Absent => Entry(circuit)
  /\ OpenedByFailure(circuit, sinceFailure)

\* A circuit that opens, closes or opens halfway is an entry.
LEMMA FreshEntries ==
  /\ Entry(Opened)
  /\ \A f : /\ Entry([state |-> "CLOSED", failures |-> f, opened |-> 0])
            /\ Entry([state |-> "HALF_OPEN", failures |-> f, opened |-> 0])
BY BreakerAssumption DEF Entry, Opened, CircuitState, Stale

\* The check of a request makes no failure look younger.
LEMMA CheckedKeeps ==
  ASSUME BreakerInv, circuit' = Checked(circuit), UNCHANGED sinceFailure
  PROVE  BreakerInv'
<1>1. CASE circuit # Absent /\ circuit.state = "OPEN" /\ ~Refuses(circuit)
  <2>1. circuit' = [circuit EXCEPT !.state = "HALF_OPEN", !.opened = 0]
    BY <1>1 DEF Checked
  <2>2. circuit' = [state |-> "HALF_OPEN", failures |-> circuit.failures, opened |-> 0]
    BY <1>1, <2>1 DEF BreakerInv, Entry
  <2>3. Entry(circuit')
    BY <2>2, FreshEntries
  <2> QED BY <2>2, <2>3 DEF BreakerInv, OpenedByFailure
<1>2. CASE ~(circuit # Absent /\ circuit.state = "OPEN" /\ ~Refuses(circuit))
  <2>1. UNCHANGED circuit
    BY <1>2 DEF Checked
  <2> QED BY <2>1 DEF BreakerInv
<1> QED BY <1>1, <1>2

\* A success closes the circuit; a failure is the youngest.
LEMMA SuccessKeeps == ASSUME BreakerInv, ReportSuccess PROVE BreakerInv'
<1>1. circuit' = IF circuit = Absent THEN circuit
                 ELSE [state |-> "CLOSED", failures |-> <<>>, opened |-> 0]
  BY DEF ReportSuccess, Succeeded
<1>2. UNCHANGED sinceFailure
  BY DEF ReportSuccess
<1>3. CASE circuit = Absent
  BY <1>1, <1>2, <1>3 DEF BreakerInv
<1>4. CASE circuit # Absent
  <2>1. Entry(circuit') /\ circuit'.state = "CLOSED"
    BY <1>1, <1>4, FreshEntries
  <2> QED BY <1>2, <2>1 DEF BreakerInv, OpenedByFailure
<1> QED BY <1>3, <1>4

LEMMA FailureKeeps == ASSUME BreakerInv, ReportFailure PROVE BreakerInv'
<1>1. circuit' = Failed(circuit) /\ sinceFailure' = 0
  BY DEF ReportFailure
<1>2. circuit' # Absent => Entry(circuit')
  <2>1. CASE circuit' = Opened \/ circuit' = [state |-> "CLOSED", failures |-> Counted(circuit), opened |-> 0]
    BY <2>1, FreshEntries
  <2>2. CASE circuit # Absent /\ circuit' = [circuit EXCEPT !.failures = Counted(circuit)]
    BY <2>2 DEF BreakerInv, Entry
  <2> QED BY <1>1, <2>1, <2>2 DEF Failed
<1>3. 0 \in 0 .. Cooldown
  BY BreakerAssumption
<1>4. OpenedByFailure(circuit', 0)
  BY <1>2, BreakerAssumption DEF OpenedByFailure, Entry, Stale
<1> QED BY <1>1, <1>2, <1>3, <1>4 DEF BreakerInv

\* Time passes for the circuit and the failure alike.
LEMMA TickKeeps == ASSUME BreakerInv, Tick PROVE BreakerInv'
<1>1. circuit' = Aged(circuit) /\ sinceFailure' = Older(sinceFailure, Cooldown)
  BY DEF Tick
<1>2. sinceFailure' \in 0 .. Cooldown /\ sinceFailure' <= sinceFailure + 1
  BY <1>1, BreakerAssumption DEF BreakerInv, Older
<1>3. CASE circuit = Absent
  BY <1>1, <1>2, <1>3 DEF Aged, BreakerInv, OpenedByFailure
<1>4. CASE circuit # Absent
  <2> DEFINE o == IF circuit.state = "OPEN" THEN Older(circuit.opened, Stale + 1) ELSE 0
             f == AllOlder(circuit.failures)
  <2>1. circuit' = [circuit EXCEPT !.failures = f, !.opened = o]
    BY <1>1, <1>4 DEF Aged
  <2>2. /\ o \in 0 .. Stale + 1
        /\ circuit.state # "OPEN" => o = 0
        /\ circuit.state = "OPEN" => o = circuit.opened + 1 \/ (o = Stale + 1 /\ circuit.opened = Stale + 1)
    BY <1>4, BreakerAssumption DEF BreakerInv, Entry, Older, Stale
  <2> HIDE DEF o, f
  <2>3. circuit' = [state |-> circuit.state, failures |-> f, opened |-> o]
    BY <1>4, <2>1 DEF BreakerInv, Entry
  <2>4. Entry(circuit')
    BY <1>4, <2>2, <2>3 DEF BreakerInv, Entry
  <2>5. OpenedByFailure(circuit', sinceFailure')
    <3> SUFFICES ASSUME circuit.state = "OPEN", o < Cooldown PROVE sinceFailure' <= o
      BY <2>3 DEF OpenedByFailure
    <3>1. Cooldown < Stale + 1 /\ circuit.opened \in Nat /\ Cooldown \in Nat /\ sinceFailure \in Nat
      BY <1>4, BreakerAssumption DEF BreakerInv, Entry, Stale
    <3>2. o = circuit.opened + 1
      BY <2>2, <3>1
    <3>3. sinceFailure <= circuit.opened
      BY <1>4, <3>1, <3>2 DEF BreakerInv, OpenedByFailure
    <3> QED BY <1>2, <3>1, <3>2, <3>3
  <2> QED BY <1>2, <2>4, <2>5 DEF BreakerInv
<1> QED BY <1>3, <1>4

LEMMA BreakerInit == Init => BreakerInv
BY BreakerAssumption DEF Init, BreakerInv, OpenedByFailure

LEMMA BreakerNext == BreakerInv /\ [Next]_vars => BreakerInv'
<1> SUFFICES ASSUME BreakerInv, [Next]_vars PROVE BreakerInv'
  OBVIOUS
<1>1. ASSUME UNCHANGED <<circuit, sinceFailure>> PROVE BreakerInv'
  BY <1>1 DEF BreakerInv
<1>2. ASSUME NEW q \in Requests, Check(q) PROVE BreakerInv'
  BY <1>2, CheckedKeeps DEF Check
<1>3. ASSUME NEW q \in Requests, Retry(q) \/ Refresh(q) PROVE BreakerInv'
  BY <1>1, <1>3 DEF Retry, Refresh, NoReport
<1>4. ASSUME NEW q \in Requests, Answer(q) \/ Again(q) PROVE BreakerInv'
  <2>1. ReportSuccess \/ ReportFailure \/ NoReport
    BY <1>4 DEF Answer, Again
  <2> QED BY <1>1, <2>1, SuccessKeeps, FailureKeeps DEF NoReport
<1>5. CASE Tick
  BY <1>5, TickKeeps
<1>6. CASE Cleanup \/ Restart
  BY <1>6 DEF Cleanup, Restart, BreakerInv, OpenedByFailure
<1>7. CASE Outage \/ UNCHANGED vars
  BY <1>1, <1>7 DEF Outage, vars
<1> QED BY <1>2, <1>3, <1>4, <1>5, <1>6, <1>7 DEF Next

LEMMA BreakerKept == Spec => []BreakerInv
BY BreakerInit, BreakerNext, PTL DEF Spec

\* A circuit refuses requests only for the cooldown after a failure that was
\* really reported, whatever the order in which checks, late reports, cleanups
\* and restarts reach it: no refusal and no unreported probe prolongs it.
THEOREM RefusalsAreRecent == Spec => []RefusalIsRecent
<1>1. BreakerInv => RefusalIsRecent
  BY BreakerAssumption DEF BreakerInv, OpenedByFailure, Entry, Refuses, RefusalIsRecent
<1> QED BY <1>1, BreakerKept, PTL

\* What the periodic cleanup drops is worth nothing: the next check decides as
\* it would have, and the next failure leaves a closed circuit in the state it
\* would have left it in.
THEOREM CleanupsAreInvisible == Spec => CleanupIsInvisible
<1>1. ASSUME BreakerInv, Cleanup
      PROVE  /\ Refuses(circuit') = Refuses(circuit)
             /\ Closed(circuit) => Failed(circuit') = Failed(circuit)
  <2>1. circuit # Absent /\ Entry(circuit) /\ Expired(circuit) /\ circuit' = Absent
    BY <1>1 DEF Cleanup, BreakerInv
  <2>2. ~Refuses(circuit') /\ ~Refuses(circuit)
    BY <2>1, BreakerAssumption DEF Refuses, Expired, Entry, Stale
  <2>3. Refuses(circuit') = Refuses(circuit)
    BY <2>2 DEF Refuses
  <2>4. ASSUME Closed(circuit) PROVE Failed(circuit') = Failed(circuit)
    <3>1. circuit.state = "CLOSED" /\ circuit.failures = <<>> /\ circuit.opened = 0
      BY <2>1, <2>4 DEF Closed, Expired, Entry
    <3>2. Counted(circuit') = Counted(circuit)
      BY <2>1, <3>1 DEF Counted
    <3>3. [circuit EXCEPT !.failures = Counted(circuit)]
            = [state |-> "CLOSED", failures |-> Counted(circuit), opened |-> 0]
      BY <2>1, <3>1 DEF Entry
    <3> QED BY <2>1, <3>1, <3>2, <3>3 DEF Failed
  <2> QED BY <2>3, <2>4
<1>2. BreakerInv /\ [Next]_vars =>
        [Cleanup => /\ Refuses(circuit') = Refuses(circuit)
                    /\ Closed(circuit) => Failed(circuit') = Failed(circuit)]_vars
  BY <1>1
<1> QED BY <1>2, BreakerKept, PTL DEF Spec, CleanupIsInvisible

(***************************************************************************)
(* The list of failures.  It is in the order of time, so the old ones are  *)
(* a prefix of it, and pruning commutes with adding a failure and with the *)
(* passing of time.                                                        *)
(***************************************************************************)
\* A list of ages, oldest first.
Ages(s) ==
  /\ s \in Seq(0 .. Window + 1)
  /\ \A i, j \in 1 .. Len(s) : i <= j => s[j] <= s[i]

\* The first k of a list, and no others, lie outside the window.
Cut(s, k) ==
  /\ k \in 0 .. Len(s)
  /\ \A i \in 1 .. Len(s) : s[i] > Window <=> i <= k

\* The natural numbers are the least set with 0 that is closed under successor.
LEMMA SetInduction ==
  ASSUME NEW S, 0 \in S, \A n \in Nat : n \in S => n + 1 \in S
  PROVE  Nat \subseteq S
<1> DEFINE R == OpToRel(<, Nat)
           T == Nat \ S
<1> SUFFICES ASSUME T # {} PROVE FALSE
  OBVIOUS
<1>1. IsWellFoundedOn(R, Nat)
  BY NatLessThanWellFounded, Zenon
<1>2. \A m, n \in Nat : m < n => <<m, n>> \in R
  BY Zenon DEF OpToRel
<1>3. T \subseteq Nat
  OBVIOUS
<1> HIDE DEF R
<1>4. PICK n \in T : \A m \in T : ~(<<m, n>> \in R)
  BY <1>1, <1>3, WFMin, Zenon
<1>5. n \in Nat /\ n # 0
  BY <1>4
<1>6. n - 1 \in Nat /\ n - 1 < n /\ n = (n - 1) + 1
  BY <1>5
<1>7. n - 1 \notin T
  BY <1>2, <1>4, <1>5, <1>6
<1> QED BY <1>4, <1>6, <1>7

\* A list of ages has a length and ages in it.
LEMMA AgesAre ==
  ASSUME NEW s, Ages(s)
  PROVE  /\ Len(s) \in Nat
         /\ DOMAIN s = 1 .. Len(s)
         /\ \A i \in 1 .. Len(s) : s[i] \in 0 .. Window + 1
<1>1. s \in Seq(0 .. Window + 1)
  BY DEF Ages
<1> QED BY <1>1, LenProperties, ElementOfSeq

\* A list in the order of time has a cut.
LEMMA CutExists ==
  ASSUME NEW s, Ages(s)
  PROVE  \E k : Cut(s, k)
<1> DEFINE S == {n \in Nat : n <= Len(s) =>
                   \E k \in 0 .. n : \A i \in 1 .. n : s[i] > Window <=> i <= k}
<1>1. /\ Len(s) \in Nat
      /\ \A i \in 1 .. Len(s) : s[i] \in 0 .. Window + 1
  BY AgesAre
<1>2. 0 \in S
  OBVIOUS
<1>3. ASSUME NEW n \in Nat, n \in S PROVE n + 1 \in S
  <2> SUFFICES ASSUME n + 1 <= Len(s)
               PROVE  \E k \in 0 .. n + 1 : \A i \in 1 .. n + 1 : s[i] > Window <=> i <= k
    OBVIOUS
  <2>1. PICK k \in 0 .. n : \A i \in 1 .. n : s[i] > Window <=> i <= k
    BY <1>1, <1>3
  <2>2. CASE s[n + 1] > Window
    <3>1. \A i \in 1 .. n + 1 : s[i] > Window
      BY <1>1, <2>2, BreakerAssumption DEF Ages
    <3>2. n + 1 \in 0 .. n + 1 /\ \A i \in 1 .. n + 1 : s[i] > Window <=> i <= n + 1
      BY <3>1
    <3> QED BY <3>2
  <2>3. CASE ~(s[n + 1] > Window)
    <3>1. k \in 0 .. n + 1 /\ \A i \in 1 .. n + 1 : s[i] > Window <=> i <= k
      BY <2>1, <2>3
    <3> QED BY <3>1
  <2> QED BY <2>2, <2>3
<1> HIDE DEF S
<1>4. Nat \subseteq S
  BY <1>2, <1>3, SetInduction
<1>5. Len(s) \in S
  BY <1>1, <1>4
<1> QED BY <1>1, <1>5 DEF S, Cut

\* What is left of a list after pruning.
LEMMA RecentIs ==
  ASSUME NEW s, Ages(s), NEW k, Cut(s, k)
  PROVE  /\ Recent(s) = SubSeq(s, k + 1, Len(s))
         /\ Weighty(s) = Recent(s)
         /\ Ages(Recent(s))
         /\ Len(Recent(s)) = Len(s) - k
         /\ \A i \in 1 .. Len(s) - k : Recent(s)[i] = s[k + i]
<1>1. /\ Len(s) \in Nat
      /\ DOMAIN s = 1 .. Len(s)
      /\ \A i \in 1 .. Len(s) : s[i] \in 0 .. Window + 1
  BY AgesAre
<1>2. k \in 0 .. Len(s)
  BY DEF Cut
<1>3. {i \in DOMAIN s : s[i] > Window} = 1 .. k
  BY <1>1, <1>2 DEF Cut
<1>4. {i \in DOMAIN s : s[i] \notin 0 .. Window} = 1 .. k
  BY <1>1, <1>2, BreakerAssumption DEF Cut
<1>5. Cardinality(1 .. k) = k
  BY <1>1, <1>2, FS_Interval
<1>6. Recent(s) = SubSeq(s, k + 1, Len(s)) /\ Weighty(s) = SubSeq(s, k + 1, Len(s))
  BY <1>3, <1>4, <1>5 DEF Recent, Weighty
<1>7. \A i \in k + 1 .. Len(s) : s[i] \in 0 .. Window + 1
  BY <1>1, <1>2
<1> DEFINE t == SubSeq(s, k + 1, Len(s))
<1>8. /\ t \in Seq(0 .. Window + 1)
      /\ Len(t) = Len(s) - k
      /\ \A i \in 1 .. Len(s) - k : t[i] = s[k + i]
  <2>1. /\ t \in Seq(0 .. Window + 1)
        /\ Len(t) = IF k + 1 <= Len(s) THEN Len(s) - (k + 1) + 1 ELSE 0
        /\ \A i \in 1 .. Len(s) - (k + 1) + 1 : t[i] = s[(k + 1) + i - 1]
    BY <1>1, <1>2, <1>7, SubSeqProperties
  <2>2. Len(t) = Len(s) - k
    <3> DEFINE n == Len(s)
    <3>1. n \in Nat /\ k \in Nat /\ k <= n
      BY <1>1, <1>2
    <3>2. Len(t) = IF k + 1 <= n THEN n - (k + 1) + 1 ELSE 0
      BY <2>1
    <3> HIDE DEF n, t
    <3>3. Len(t) = n - k
      BY <3>1, <3>2
    <3> QED BY <3>3 DEF n
  <2>3. ASSUME NEW i \in 1 .. Len(s) - k PROVE t[i] = s[k + i]
    <3>1. i \in 1 .. Len(s) - (k + 1) + 1 /\ (k + 1) + i - 1 = k + i
      BY <1>1, <1>2
    <3> QED BY <2>1, <3>1
  <2> QED BY <2>1, <2>2, <2>3
<1> HIDE DEF t
<1>9. Ages(t)
  <2> SUFFICES ASSUME NEW i \in 1 .. Len(t), NEW j \in 1 .. Len(t), i <= j
               PROVE  t[j] <= t[i]
    BY <1>8 DEF Ages
  <2>1. t[i] = s[k + i] /\ t[j] = s[k + j]
    BY <1>8
  <2>2. k + i \in 1 .. Len(s) /\ k + j \in 1 .. Len(s) /\ k + i <= k + j
    BY <1>1, <1>2, <1>8
  <2> QED BY <2>1, <2>2 DEF Ages
<1> QED BY <1>6, <1>8, <1>9 DEF t

\* The empty list; and a list that has a failure added, which is the youngest.
LEMMA RecentOfNone == Ages(<<>>) /\ Len(<<>>) = 0 /\ Recent(<<>>) = <<>> /\ AllOlder(<<>>) = <<>>
<1>1. <<>> \in Seq(0 .. Window + 1) /\ Len(<<>>) = 0
  BY EmptySeq
<1>2. Ages(<<>>) /\ Cut(<<>>, 0)
  BY <1>1 DEF Ages, Cut
<1>3. Recent(<<>>) = SubSeq(<<>>, 0 + 1, Len(<<>>))
  BY <1>2, RecentIs
<1>4. SubSeq(<<>>, 0 + 1, Len(<<>>)) = <<>>
  BY <1>1, SubSeqEmpty
<1>5. AllOlder(<<>>) = <<>>
  BY DEF AllOlder
<1> QED BY <1>1, <1>2, <1>3, <1>4, <1>5

LEMMA RecentOfAdded ==
  ASSUME NEW s, Ages(s)
  PROVE  /\ Ages(Append(s, 0))
         /\ Recent(Append(s, 0)) = Append(Recent(s), 0)
<1> DEFINE a == Append(s, 0)
           n == Len(s)
<1>1. PICK k : Cut(s, k)
  BY CutExists
<1>2. /\ n \in Nat
      /\ \A i \in 1 .. n : s[i] \in 0 .. Window + 1
      /\ s \in Seq(0 .. Window + 1)
  BY AgesAre DEF Ages
<1>3. 0 \in 0 .. Window + 1
  BY BreakerAssumption
<1>4. /\ a \in Seq(0 .. Window + 1)
      /\ Len(a) = n + 1
      /\ \A i \in 1 .. n : a[i] = s[i]
      /\ a[n + 1] = 0
  BY <1>2, <1>3, AppendProperties
<1> HIDE DEF a
<1>5. Ages(a)
  <2> SUFFICES ASSUME NEW i \in 1 .. n + 1, NEW j \in 1 .. n + 1, i <= j
               PROVE  a[j] <= a[i]
    BY <1>4 DEF Ages
  <2>1. CASE j = n + 1
    <3>1. a[i] \in 0 .. Window + 1
      BY <1>2, <1>3, <1>4
    <3> QED BY <2>1, <3>1, <1>4, BreakerAssumption
  <2>2. CASE j # n + 1
    <3>1. i \in 1 .. n /\ j \in 1 .. n
      BY <1>2, <2>2
    <3> QED BY <3>1, <1>4 DEF Ages
  <2> QED BY <2>1, <2>2
<1>6. k \in 0 .. n
  BY <1>1 DEF Cut
<1>7. Cut(a, k)
  <2> SUFFICES ASSUME NEW i \in 1 .. n + 1 PROVE a[i] > Window <=> i <= k
    BY <1>2, <1>4, <1>6 DEF Cut
  <2>1. CASE i = n + 1
    BY <2>1, <1>2, <1>4, <1>6, BreakerAssumption
  <2>2. CASE i # n + 1
    <3>1. i \in 1 .. n
      BY <1>2, <2>2
    <3> QED BY <3>1, <1>1, <1>4 DEF Cut
  <2> QED BY <2>1, <2>2
<1>8. /\ Ages(Recent(a))
      /\ Len(Recent(a)) = (n + 1) - k
      /\ \A i \in 1 .. (n + 1) - k : Recent(a)[i] = a[k + i]
  <2>1. /\ Ages(Recent(a))
        /\ Len(Recent(a)) = Len(a) - k
        /\ \A i \in 1 .. Len(a) - k : Recent(a)[i] = a[k + i]
    BY <1>5, <1>7, RecentIs
  <2>2. Len(a) = n + 1
    BY <1>4
  <2> HIDE DEF n
  <2> QED BY <2>1, <2>2
<1>9. /\ Ages(Recent(s))
      /\ Len(Recent(s)) = n - k
      /\ \A i \in 1 .. n - k : Recent(s)[i] = s[k + i]
  BY <1>1, RecentIs
<1> DEFINE b == Append(Recent(s), 0)
<1>10. /\ b \in Seq(0 .. Window + 1)
       /\ Len(b) = n - k + 1
       /\ \A i \in 1 .. n - k : b[i] = s[k + i]
       /\ b[n - k + 1] = 0
  <2>1. Recent(s) \in Seq(0 .. Window + 1)
    BY <1>9 DEF Ages
  <2>2. /\ b \in Seq(0 .. Window + 1)
        /\ Len(b) = Len(Recent(s)) + 1
        /\ \A i \in 1 .. Len(Recent(s)) : b[i] = Recent(s)[i]
        /\ b[Len(Recent(s)) + 1] = 0
    BY <2>1, <1>3, AppendProperties
  <2> HIDE DEF b
  <2> QED BY <2>2, <1>9
<1>11. Recent(a) \in Seq(0 .. Window + 1)
  BY <1>8 DEF Ages
<1> HIDE DEF b
<1>12. Len(Recent(a)) = Len(b)
  BY <1>2, <1>6, <1>8, <1>10
<1>13. ASSUME NEW i \in 1 .. Len(Recent(a)) PROVE Recent(a)[i] = b[i]
  <2>1. i \in 1 .. (n + 1) - k /\ Recent(a)[i] = a[k + i]
    BY <1>8
  <2>2. CASE i = n - k + 1
    <3>1. k + i = n + 1
      BY <1>2, <1>6, <2>2
    <3>2. a[k + i] = 0
      BY <3>1, <1>4
    <3>3. b[i] = 0
      BY <2>2, <1>10
    <3> QED BY <2>1, <3>2, <3>3
  <2>3. CASE i # n - k + 1
    <3>1. i \in 1 .. n - k /\ k + i \in 1 .. n
      BY <1>2, <1>6, <2>1, <2>3
    <3> QED BY <2>1, <3>1, <1>4, <1>10
  <2> QED BY <2>2, <2>3
<1>14. Recent(a) = b
  BY <1>10, <1>11, <1>12, <1>13, SeqEqual
<1> QED BY <1>5, <1>14 DEF a, b

\* A list with every age one tick older.
LEMMA OlderIs ==
  ASSUME NEW s, Ages(s)
  PROVE  /\ Ages(AllOlder(s))
         /\ Len(AllOlder(s)) = Len(s)
         /\ \A i \in 1 .. Len(s) : AllOlder(s)[i] = Older(s[i], Window + 1)
<1> DEFINE n == Len(s)
           o == AllOlder(s)
<1>1. /\ n \in Nat
      /\ DOMAIN s = 1 .. n
      /\ \A i \in 1 .. n : s[i] \in 0 .. Window + 1
  BY AgesAre
<1>2. \A i \in 1 .. n : Older(s[i], Window + 1) \in 0 .. Window + 1
  BY <1>1, BreakerAssumption DEF Older
<1>3. o = [i \in 1 .. n |-> Older(s[i], Window + 1)]
  BY <1>1 DEF AllOlder
<1>4. o \in Seq(0 .. Window + 1) /\ Len(o) = n
  <2> DEFINE S == 0 .. Window + 1
  <2>1. o \in [1 .. n -> S]
    BY <1>2, <1>3
  <2> HIDE DEF o, n, S
  <2>2. o \in Seq(S)
    BY <1>1, <2>1, SeqDef, Zenon
  <2>3. Len(o) = n
    BY <1>1, <2>1, <2>2
  <2> QED BY <2>2, <2>3 DEF S
<1>5. \A i, j \in 1 .. n : i <= j => Older(s[j], Window + 1) <= Older(s[i], Window + 1)
  <2> SUFFICES ASSUME NEW i \in 1 .. n, NEW j \in 1 .. n, i <= j
               PROVE  Older(s[j], Window + 1) <= Older(s[i], Window + 1)
    OBVIOUS
  <2>1. s[j] <= s[i]
    BY DEF Ages
  <2> QED BY <1>1, <2>1, BreakerAssumption DEF Older
<1>6. \A i \in 1 .. n : o[i] = Older(s[i], Window + 1)
  BY <1>3
<1> HIDE DEF o
<1>7. Ages(o)
  BY <1>4, <1>5, <1>6 DEF Ages
<1> QED BY <1>4, <1>6, <1>7 DEF o

\* Pruning may be put off: what is young after a tick was young before it.
LEMMA RecentOfOlder ==
  ASSUME NEW s, Ages(s)
  PROVE  Weighty(AllOlder(Recent(s))) = Recent(AllOlder(s))
<1> DEFINE n == Len(s)
           o == AllOlder(s)
           r == Recent(s)
           q == AllOlder(r)
<1>1. PICK k : Cut(s, k)
  BY CutExists
<1>2. /\ n \in Nat
      /\ \A i \in 1 .. n : s[i] \in 0 .. Window + 1
  BY AgesAre
<1>3. /\ Ages(o)
      /\ Len(o) = n
      /\ \A i \in 1 .. n : o[i] = Older(s[i], Window + 1)
  BY OlderIs
<1>4. /\ Ages(r)
      /\ Len(r) = n - k
      /\ \A i \in 1 .. n - k : r[i] = s[k + i]
  BY <1>1, RecentIs
<1> HIDE DEF r
<1>5. /\ Ages(q)
      /\ Len(q) = Len(r)
      /\ \A i \in 1 .. Len(r) : q[i] = Older(r[i], Window + 1)
  BY <1>4, OlderIs
<1> HIDE DEF o, q
<1>6. PICK m : Cut(o, m)
  BY <1>3, CutExists
<1>7. k \in 0 .. n /\ m \in 0 .. n
  BY <1>1, <1>3, <1>6 DEF Cut
<1>8. k <= m
  <2> SUFFICES ASSUME k > 0 PROVE k <= m
    BY <1>7
  <2>1. k \in 1 .. n /\ s[k] > Window
    BY <1>1, <1>7 DEF Cut
  <2>2. o[k] > Window
    BY <2>1, <1>2, <1>3, BreakerAssumption DEF Older
  <2> QED BY <2>1, <2>2, <1>3, <1>6 DEF Cut
<1>9. \A i \in 1 .. n - k : k + i \in 1 .. n /\ q[i] = o[k + i]
  <2> SUFFICES ASSUME NEW i \in 1 .. n - k PROVE k + i \in 1 .. n /\ q[i] = o[k + i]
    OBVIOUS
  <2>1. k + i \in 1 .. n
    BY <1>2, <1>7
  <2>2. q[i] = Older(r[i], Window + 1) /\ r[i] = s[k + i]
    BY <1>4, <1>5
  <2> QED BY <2>1, <2>2, <1>3
<1>10. Cut(q, m - k)
  <2>1. m - k \in 0 .. n - k
    BY <1>2, <1>7, <1>8
  <2>2. ASSUME NEW i \in 1 .. n - k PROVE q[i] > Window <=> i <= m - k
    <3>1. q[i] > Window <=> k + i <= m
      BY <1>3, <1>6, <1>9 DEF Cut
    <3> QED BY <3>1, <1>2, <1>7
  <2>3. Len(q) = n - k
    BY <1>4, <1>5
  <2> QED BY <2>1, <2>2, <2>3 DEF Cut
<1>11. /\ Weighty(q) \in Seq(0 .. Window + 1)
       /\ Len(Weighty(q)) = Len(q) - (m - k)
       /\ \A i \in 1 .. Len(q) - (m - k) : Weighty(q)[i] = q[(m - k) + i]
  <2>1. /\ Weighty(q) = Recent(q)
        /\ Ages(Recent(q))
        /\ Len(Recent(q)) = Len(q) - (m - k)
        /\ \A i \in 1 .. Len(q) - (m - k) : Recent(q)[i] = q[(m - k) + i]
    BY <1>5, <1>10, RecentIs
  <2> QED BY <2>1 DEF Ages
<1>12. /\ Recent(o) \in Seq(0 .. Window + 1)
       /\ Len(Recent(o)) = Len(o) - m
       /\ \A i \in 1 .. Len(o) - m : Recent(o)[i] = o[m + i]
  BY <1>3, <1>6, RecentIs DEF Ages
<1>13. Len(q) - (m - k) = n - m /\ Len(o) - m = n - m
  BY <1>2, <1>3, <1>4, <1>5, <1>7
<1>14. \A i \in 1 .. n - m : Weighty(q)[i] = Recent(o)[i]
  <2> SUFFICES ASSUME NEW i \in 1 .. n - m PROVE Weighty(q)[i] = Recent(o)[i]
    OBVIOUS
  <2>1. (m - k) + i \in 1 .. n - k /\ k + ((m - k) + i) = m + i
    BY <1>2, <1>7, <1>8
  <2>2. q[(m - k) + i] = o[m + i]
    BY <2>1, <1>9
  <2>3. Weighty(q)[i] = q[(m - k) + i] /\ Recent(o)[i] = o[m + i]
    BY <1>11, <1>12, <1>13
  <2> QED BY <2>2, <2>3
<1>15. Weighty(q) = Recent(o)
  BY <1>11, <1>12, <1>13, <1>14, SeqEqual
<1> QED BY <1>15 DEF q, r, o

(***************************************************************************)
(* The evidence against a closed circuit is what its list of failures      *)
(* holds once it is pruned.  The list itself is pruned only when a failure *)
(* is added, so it may be longer, but never as long as the threshold.      *)
(***************************************************************************)
Listed(c) == IF c = Absent THEN <<>> ELSE c.failures

RequestTyped == request \in [Requests -> Request]

ListTyped(c) == Ages(Listed(c)) /\ Len(Listed(c)) < Threshold

CountInv ==
  /\ BreakerInv
  /\ RequestTyped
  /\ up \in BOOLEAN
  /\ ListTyped(circuit)
  /\ evidence = IF Closed(circuit) THEN Recent(Listed(circuit)) ELSE <<>>

\* Reports, checks and ticks keep the list and the evidence in step.
LEMMA NoFailures ==
  \A c : Listed(c) = <<>> => ListTyped(c) /\ Recent(Listed(c)) = <<>>
BY RecentOfNone, BreakerAssumption DEF ListTyped

LEMMA EntriesAreThere ==
  ASSUME NEW c, Entry(c), Ages(c.failures)
  PROVE  c \in Circuit /\ c # Absent
BY AbsentIsNoCircuit DEF Entry, Ages, Circuit

LEMMA FailureCounts ==
  ASSUME CountInv, ReportFailure
  PROVE  /\ ListTyped(circuit')
         /\ evidence' = IF Closed(circuit') THEN Recent(Listed(circuit')) ELSE <<>>
<1> DEFINE l == Listed(circuit)
           a == Append(l, 0)
<1>1. Ages(l)
  BY DEF CountInv, ListTyped
<1>2. Counted(circuit) = Recent(a)
  BY DEF Counted, Listed
<1>3. Ages(a) /\ Recent(a) = Append(Recent(l), 0)
  BY <1>1, RecentOfAdded
<1> HIDE DEF a
<1>4. Ages(Recent(a))
  BY <1>3, CutExists, RecentIs
<1>5. PICK k : Cut(a, k)
  BY <1>3, CutExists
<1>6. Recent(Recent(a)) = Recent(a)
  <2> DEFINE r == Recent(a)
  <2>1. /\ Ages(r)
        /\ Len(r) = Len(a) - k
        /\ \A i \in 1 .. Len(a) - k : r[i] = a[k + i]
    BY <1>3, <1>5, RecentIs
  <2>2. Len(a) \in Nat /\ k \in 0 .. Len(a)
    BY <1>3, <1>5, AgesAre DEF Cut
  <2> HIDE DEF r
  <2>3. Cut(r, 0)
    <3>1. ASSUME NEW i \in 1 .. Len(r) PROVE ~(r[i] > Window)
      <4>1. k + i \in 1 .. Len(a) /\ ~(k + i <= k)
        BY <2>1, <2>2
      <4>2. r[i] = a[k + i]
        BY <2>1
      <4> QED BY <4>1, <4>2, <1>5 DEF Cut
    <3>2. Len(r) \in Nat
      BY <2>1, AgesAre
    <3> QED BY <3>1, <3>2 DEF Cut
  <2>4. Recent(r) = SubSeq(r, 0 + 1, Len(r))
    BY <2>1, <2>3, RecentIs
  <2>5. SubSeq(r, 1, Len(r)) = r
    BY <2>1, SubSeqFull DEF Ages
  <2>6. Recent(r) = r
    BY <2>4, <2>5
  <2> QED BY <2>6 DEF r
<1>7. /\ circuit' = Failed(circuit)
      /\ evidence' = IF Closed(circuit) /\ Closed(circuit') THEN Append(evidence, 0) ELSE <<>>
  BY DEF ReportFailure
<1>8. CASE \/ circuit # Absent /\ circuit.state = "HALF_OPEN"
           \/ Len(Counted(circuit)) >= Threshold
  <2>1. circuit' = Opened
    BY <1>7, <1>8 DEF Failed
  <2>2. Opened.failures = <<>> /\ Opened.state = "OPEN"
    BY DEF Opened
  <2>3. Opened # Absent
    BY <2>2, EntriesAreThere, FreshEntries, RecentOfNone
  <2>4. Listed(circuit') = <<>> /\ ~Closed(circuit')
    BY <2>1, <2>2, <2>3 DEF Listed, Closed
  <2> QED BY <1>7, <2>4, NoFailures
<1>9. CASE /\ ~(circuit # Absent /\ circuit.state = "HALF_OPEN")
           /\ ~(Len(Counted(circuit)) >= Threshold)
  <2>1. circuit' = IF circuit = Absent
                   THEN [state |-> "CLOSED", failures |-> Counted(circuit), opened |-> 0]
                   ELSE [circuit EXCEPT !.failures = Counted(circuit)]
    BY <1>7, <1>9 DEF Failed
  <2>2. /\ Entry(circuit')
        /\ circuit'.failures = Counted(circuit)
        /\ circuit'.state = IF circuit = Absent THEN "CLOSED" ELSE circuit.state
    <3>1. CASE circuit = Absent
      BY <2>1, <3>1, FreshEntries
    <3>2. CASE circuit # Absent
      BY <2>1, <3>2 DEF CountInv, BreakerInv, Entry
    <3> QED BY <3>1, <3>2
  <2>3. circuit' # Absent
    BY <1>2, <1>4, <2>2, EntriesAreThere
  <2>4. Listed(circuit') = Recent(a)
    BY <1>2, <2>2, <2>3 DEF Listed
  <2>5. ListTyped(circuit')
    <3>1. Len(Recent(a)) \in Nat
      BY <1>4, AgesAre
    <3> QED BY <1>2, <1>4, <1>9, <2>4, <3>1, BreakerAssumption DEF ListTyped
  <2>6. CASE Closed(circuit)
    <3>1. Closed(circuit')
      BY <2>2, <2>6 DEF Closed
    <3>2. evidence' = Append(Recent(l), 0)
      BY <1>7, <2>6, <3>1 DEF CountInv
    <3> QED BY <1>3, <1>6, <2>4, <2>5, <3>1, <3>2
  <2>7. CASE ~Closed(circuit)
    <3>1. ~Closed(circuit')
      BY <2>2, <2>3, <2>7 DEF Closed
    <3> QED BY <1>7, <2>5, <2>7, <3>1
  <2> QED BY <2>6, <2>7
<1> QED BY <1>8, <1>9

\* The other steps that change a circuit.
LEMMA SuccessCounts ==
  ASSUME CountInv, ReportSuccess
  PROVE  /\ ListTyped(circuit')
         /\ evidence' = IF Closed(circuit') THEN Recent(Listed(circuit')) ELSE <<>>
<1>1. evidence' = <<>>
  BY DEF ReportSuccess
<1>2. circuit' = IF circuit = Absent THEN circuit
                 ELSE [state |-> "CLOSED", failures |-> <<>>, opened |-> 0]
  BY DEF ReportSuccess, Succeeded
<1>3. Listed(circuit') = <<>>
  BY <1>2 DEF Listed
<1> QED BY <1>1, <1>3, NoFailures

LEMMA CheckedCounts ==
  ASSUME CountInv, circuit' = Checked(circuit), UNCHANGED evidence
  PROVE  /\ ListTyped(circuit')
         /\ evidence' = IF Closed(circuit') THEN Recent(Listed(circuit')) ELSE <<>>
<1>1. CASE circuit # Absent /\ circuit.state = "OPEN" /\ ~Refuses(circuit)
  <2>1. circuit' = [state |-> "HALF_OPEN", failures |-> circuit.failures, opened |-> 0]
    <3>1. circuit' = [circuit EXCEPT !.state = "HALF_OPEN", !.opened = 0]
      BY <1>1 DEF Checked
    <3> QED BY <1>1, <3>1 DEF CountInv, BreakerInv, Entry
  <2>2. Ages(circuit.failures)
    BY <1>1 DEF CountInv, ListTyped, Listed
  <2>3. Entry(circuit') /\ circuit'.failures = circuit.failures /\ circuit'.state = "HALF_OPEN"
    <3>1. Entry(circuit')
      BY <2>1, FreshEntries
    <3>2. circuit'.failures = circuit.failures /\ circuit'.state = "HALF_OPEN"
      BY <2>1
    <3> QED BY <3>1, <3>2
  <2>4. circuit' # Absent
    BY <2>2, <2>3, EntriesAreThere
  <2>5. Listed(circuit') = Listed(circuit) /\ ~Closed(circuit') /\ ~Closed(circuit)
    BY <1>1, <2>3, <2>4 DEF Listed, Closed
  <2> QED BY <2>5 DEF CountInv, ListTyped
<1>2. CASE ~(circuit # Absent /\ circuit.state = "OPEN" /\ ~Refuses(circuit))
  <2>1. UNCHANGED circuit
    BY <1>2 DEF Checked
  <2> QED BY <2>1 DEF CountInv
<1> QED BY <1>1, <1>2

LEMMA TickCounts ==
  ASSUME CountInv, Tick
  PROVE  /\ ListTyped(circuit')
         /\ evidence' = IF Closed(circuit') THEN Recent(Listed(circuit')) ELSE <<>>
<1> DEFINE l == Listed(circuit)
<1>1. Ages(l) /\ Len(l) < Threshold
  BY DEF CountInv, ListTyped
<1>2. circuit' = Aged(circuit) /\ evidence' = Weighty(AllOlder(evidence))
  BY DEF Tick
<1>3. Listed(circuit') = AllOlder(l) /\ Closed(circuit') = Closed(circuit)
  <2>1. CASE circuit = Absent
    BY <1>2, <2>1, RecentOfNone DEF Aged, Listed
  <2>2. CASE circuit # Absent
    <3> DEFINE o == IF circuit.state = "OPEN" THEN Older(circuit.opened, Stale + 1) ELSE 0
               f == AllOlder(circuit.failures)
    <3>1. circuit' = [circuit EXCEPT !.failures = f, !.opened = o]
      BY <1>2, <2>2 DEF Aged
    <3>2. /\ o \in 0 .. Stale + 1
          /\ circuit.state # "OPEN" => o = 0
      BY <2>2, BreakerAssumption DEF CountInv, BreakerInv, Entry, Older, Stale
    <3>3. Ages(f)
      BY <1>1, <2>2, OlderIs DEF Listed
    <3> HIDE DEF o, f
    <3>4. circuit' = [state |-> circuit.state, failures |-> f, opened |-> o]
      BY <2>2, <3>1 DEF CountInv, BreakerInv, Entry
    <3>5. Entry(circuit') /\ circuit'.failures = f /\ circuit'.state = circuit.state
      BY <2>2, <3>2, <3>4 DEF CountInv, BreakerInv, Entry
    <3>6. circuit' # Absent
      BY <3>3, <3>5, EntriesAreThere
    <3> QED BY <2>2, <3>5, <3>6 DEF Listed, Closed, f
  <2> QED BY <2>1, <2>2
<1>4. Ages(AllOlder(l)) /\ Len(AllOlder(l)) = Len(l)
  BY <1>1, OlderIs
<1>5. ListTyped(circuit')
  BY <1>1, <1>3, <1>4 DEF ListTyped
<1>6. CASE Closed(circuit)
  <2>1. evidence = Recent(l)
    BY <1>6 DEF CountInv
  <2>2. evidence' = Recent(AllOlder(l))
    BY <1>1, <1>2, <2>1, RecentOfOlder
  <2> QED BY <1>3, <1>5, <1>6, <2>2
<1>7. CASE ~Closed(circuit)
  <2>1. evidence = <<>>
    BY <1>7 DEF CountInv
  <2>2. Weighty(AllOlder(<<>>)) = <<>>
    <3>1. \A i \in 1 .. 0 : FALSE
      OBVIOUS
    <3>2. Cut(<<>>, 0)
      BY <3>1, RecentOfNone DEF Cut
    <3> QED BY <3>2, RecentIs, RecentOfNone
  <2> QED BY <1>2, <1>3, <1>5, <1>7, <2>1, <2>2
<1> QED BY <1>6, <1>7

\* Attempts are numbered from 1, and what is known of the instance is a truth
\* value.
LEMMA AttemptTyped ==
  ASSUME up \in BOOLEAN, NEW at \in {"flight", "again"}, NEW n \in 0 .. MaxAttempts
  PROVE  Attempt(at, n) \in Request
BY DEF Attempt, Request

\* A request keeps its type.
LEMMA RequestsKeep ==
  ASSUME RequestTyped, up \in BOOLEAN, [Next]_vars
  PROVE  RequestTyped'
<1> USE BreakerAssumption DEF RequestTyped
<1>1. Idle \in Request
  BY DEF Idle, Request
<1>2. ASSUME NEW q \in Requests, Check(q) PROVE RequestTyped'
  <2>1. Attempt("flight", 1) \in Request
    BY AttemptTyped
  <2> QED BY <1>2, <2>1 DEF Check
<1>3. ASSUME NEW q \in Requests, Retry(q) PROVE RequestTyped'
  <2>1. request[q].attempt + 1 \in 0 .. MaxAttempts
    BY <1>3 DEF Retry, Request
  <2>2. Attempt("flight", request[q].attempt + 1) \in Request
    BY <2>1, AttemptTyped
  <2> QED BY <1>3, <2>2 DEF Retry
<1>4. ASSUME NEW q \in Requests, Refresh(q) PROVE RequestTyped'
  <2>1. request[q].attempt \in 0 .. MaxAttempts
    BY DEF Request
  <2>2. Attempt("again", request[q].attempt) \in Request
    BY <2>1, AttemptTyped
  <2> QED BY <1>1, <1>4, <2>2 DEF Refresh, Leave
<1>5. ASSUME NEW q \in Requests, Answer(q) \/ Again(q) PROVE RequestTyped'
  BY <1>1, <1>5 DEF Answer, Again, Leave
<1>6. CASE Restart
  BY <1>1, <1>6 DEF Restart
<1>7. CASE Outage
  <2>1. ASSUME NEW q \in Requests
        PROVE  [request[q] EXCEPT !.mayFail = TRUE] \in Request
    BY DEF Request
  <2> QED BY <1>7, <2>1 DEF Outage
<1>8. CASE Tick \/ Cleanup \/ UNCHANGED vars
  BY <1>8 DEF Tick, Cleanup, vars
<1> QED BY <1>2, <1>3, <1>4, <1>5, <1>6, <1>7, <1>8 DEF Next

LEMMA CountInit == Init => CountInv
<1> SUFFICES ASSUME Init PROVE CountInv
  OBVIOUS
<1>1. BreakerInv
  BY BreakerInit
<1>2. RequestTyped /\ up \in BOOLEAN
  BY BreakerAssumption DEF Init, RequestTyped, Request, Idle
<1>3. Listed(circuit) = <<>> /\ Closed(circuit) /\ evidence = <<>>
  BY DEF Init, Listed, Closed
<1> QED BY <1>1, <1>2, <1>3, NoFailures DEF CountInv

LEMMA CountNext == CountInv /\ [Next]_vars => CountInv'
<1> SUFFICES ASSUME CountInv, [Next]_vars PROVE CountInv'
  OBVIOUS
<1> DEFINE Counts == /\ ListTyped(circuit')
                     /\ evidence' = IF Closed(circuit') THEN Recent(Listed(circuit')) ELSE <<>>
<1>1. BreakerInv' /\ RequestTyped'
  BY BreakerNext, RequestsKeep DEF CountInv
<1>2. ASSUME up' \in BOOLEAN, Counts PROVE CountInv'
  BY <1>1, <1>2 DEF CountInv
<1>3. ASSUME UNCHANGED <<circuit, evidence>> PROVE Counts
  BY <1>3 DEF CountInv
<1> HIDE DEF Counts
<1>4. ASSUME NEW q \in Requests, Check(q) PROVE CountInv'
  <2>1. circuit' = Checked(circuit) /\ UNCHANGED <<up, evidence>>
    BY <1>4 DEF Check
  <2> QED BY <1>2, <2>1, CheckedCounts DEF CountInv, Counts
<1>5. ASSUME NEW q \in Requests, Retry(q) \/ Refresh(q) PROVE CountInv'
  <2>1. UNCHANGED <<circuit, up, evidence>>
    BY <1>5 DEF Retry, Refresh, NoReport
  <2> QED BY <1>2, <1>3, <2>1 DEF CountInv
<1>6. ASSUME NEW q \in Requests, Answer(q) \/ Again(q) PROVE CountInv'
  <2>1. UNCHANGED up /\ (ReportSuccess \/ ReportFailure \/ NoReport)
    BY <1>6 DEF Answer, Again
  <2>2. Counts
    BY <1>3, <2>1, SuccessCounts, FailureCounts DEF NoReport, Counts
  <2> QED BY <1>2, <2>1, <2>2 DEF CountInv
<1>7. CASE Tick
  <2>1. UNCHANGED up
    BY <1>7 DEF Tick
  <2> QED BY <1>2, <1>7, <2>1, TickCounts DEF CountInv, Counts
<1>8. CASE Cleanup
  <2>1. /\ circuit # Absent /\ Expired(circuit)
        /\ circuit' = Absent
        /\ UNCHANGED <<up, evidence>>
    BY <1>8 DEF Cleanup
  <2>2. Listed(circuit') = <<>> /\ Closed(circuit')
    BY <2>1 DEF Listed, Closed
  <2>3. evidence = <<>>
    <3>1. CASE circuit.state = "OPEN"
      BY <2>1, <3>1 DEF CountInv, Closed
    <3>2. CASE circuit.state = "CLOSED" /\ circuit.failures = <<>>
      BY <2>1, <3>2, NoFailures DEF CountInv, Closed, Listed
    <3> QED BY <2>1, <3>1, <3>2 DEF Expired
  <2> QED BY <1>2, <2>1, <2>2, <2>3, NoFailures DEF CountInv, Counts
<1>9. CASE Restart
  <2>1. circuit' = Absent /\ evidence' = <<>> /\ UNCHANGED up
    BY <1>9 DEF Restart
  <2>2. Listed(circuit') = <<>> /\ Closed(circuit')
    BY <2>1 DEF Listed, Closed
  <2> QED BY <1>2, <2>1, <2>2, NoFailures DEF CountInv, Counts
<1>10. CASE Outage
  BY <1>2, <1>3, <1>10 DEF Outage, CountInv
<1>11. CASE UNCHANGED vars
  BY <1>2, <1>3, <1>11 DEF vars, CountInv
<1> QED BY <1>4, <1>5, <1>6, <1>7, <1>8, <1>9, <1>10, <1>11 DEF Next

LEMMA CountKept == Spec => []CountInv
BY CountInit, CountNext, PTL DEF Spec

\* Every variable keeps its type: ages stay within the window and one more,
\* and no request goes beyond its last attempt.
THEOREM BreakerTyped == Spec => []TypeOK
<1>1. ASSUME CountInv PROVE TypeOK
  <2>1. circuit # Absent => circuit \in Circuit
    BY <1>1, EntriesAreThere DEF CountInv, BreakerInv, ListTyped, Listed
  <2>2. evidence \in Seq(0 .. Window + 1)
    <3>1. CASE Closed(circuit)
      <4>1. Ages(Listed(circuit)) /\ evidence = Recent(Listed(circuit))
        BY <1>1, <3>1 DEF CountInv, ListTyped
      <4>2. Ages(evidence)
        BY <4>1, CutExists, RecentIs
      <4> QED BY <4>2 DEF Ages
    <3>2. CASE ~Closed(circuit)
      BY <1>1, <3>2, EmptySeq DEF CountInv
    <3> QED BY <3>1, <3>2
  <2> QED BY <1>1, <2>1, <2>2 DEF CountInv, BreakerInv, RequestTyped, TypeOK
<1> QED BY <1>1, CountKept, PTL

\* A circuit that lets requests pass as closed has had fewer failures within
\* the window than the threshold, whatever the order of reports, pruning,
\* cleanups and restarts: no counted failure is lost.
THEOREM EvidenceIsCounted == Spec => []EvidenceCounts
<1>1. ASSUME CountInv, Closed(circuit) PROVE Len(evidence) < Threshold
  <2> DEFINE l == Listed(circuit)
  <2>1. Ages(l) /\ Len(l) < Threshold /\ evidence = Recent(l)
    BY <1>1 DEF CountInv, ListTyped
  <2> HIDE DEF l
  <2>2. PICK k : Cut(l, k)
    BY <2>1, CutExists
  <2>3. Len(evidence) = Len(l) - k
    BY <2>1, <2>2, RecentIs
  <2>4. Len(l) \in Nat /\ k \in 0 .. Len(l)
    BY <2>1, <2>2, AgesAre DEF Cut
  <2> QED BY <2>1, <2>3, <2>4, BreakerAssumption
<1>2. CountInv => EvidenceCounts
  BY <1>1 DEF EvidenceCounts
<1> QED BY <1>2, CountKept, PTL

(***************************************************************************)
(* Requests run out of attempts.                                           *)
(***************************************************************************)
\* Waiting for the last attempt there is less left than in flight.
LEMMA AttemptsLeft ==
  ASSUME NEW r \in Request
  PROVE  /\ r.at = "idle" => Left(r) = 0
         /\ r.at = "again" => Left(r) = 1
         /\ r.at = "flight" => Left(r) = 2 + MaxAttempts - r.attempt /\ Left(r) >= 2
BY BreakerAssumption DEF Left, Request

\* The same request at the same attempt, whatever its instance does meanwhile.
Stays(q) == [request'[q] EXCEPT !.mayFail = FALSE] = [request[q] EXCEPT !.mayFail = FALSE]

\* What each step of a request leaves: nothing, the last attempt, or one less.
LEMMA RequestGoesOn ==
  ASSUME request \in [Requests -> Request], NEW q \in Requests, request[q].at # "idle",
         [Next]_vars
  PROVE  Stays(q) \/ Left(request'[q]) < Left(request[q])
<1>1. Idle \in Request /\ Idle.at = "idle"
  BY BreakerAssumption DEF Idle, Request
<1>2. Left(request[q]) > 0 /\ Left(Idle) = 0
  <2>1. request[q] \in Request
    OBVIOUS
  <2>2. request[q].at \in {"flight", "again"}
    BY <2>1 DEF Request
  <2>3. request[q].attempt \in 0 .. MaxAttempts /\ MaxAttempts \in Nat
    BY <2>1, BreakerAssumption DEF Request
  <2>4. Left(request[q]) > 0
    BY <2>2, <2>3 DEF Left
  <2>5. Left(Idle) = 0
    BY <1>1 DEF Left
  <2> QED BY <2>4, <2>5
<1>3. ASSUME request'[q] = Idle PROVE Left(request'[q]) < Left(request[q])
  BY <1>2, <1>3
<1>4. ASSUME request'[q] = request[q] PROVE Stays(q)
  BY <1>4 DEF Stays
<1>5. CASE \E p \in Requests : Check(p) \/ Retry(p) \/ Answer(p) \/ Refresh(p) \/ Again(p)
  <2>1. ASSUME NEW p \in Requests, Check(p)
        PROVE  request'[q] = request[q]
    BY <2>1 DEF Check
  <2>2. ASSUME NEW p \in Requests, Retry(p), request'[q] # request[q]
        PROVE  Left(request'[q]) < Left(request[q])
    <3>1. /\ request[q].at = "flight" /\ request[q].attempt < MaxAttempts
          /\ request'[q] = Attempt("flight", request[q].attempt + 1)
      BY <2>2 DEF Retry
    <3>2. request'[q].at = "flight" /\ request'[q].attempt = request[q].attempt + 1
      BY <3>1 DEF Attempt
    <3>3. request[q].attempt \in 0 .. MaxAttempts
      BY DEF Request
    <3> QED BY <3>1, <3>2, <3>3, BreakerAssumption DEF Left
  <2>3. ASSUME NEW p \in Requests, Answer(p) \/ Again(p), request'[q] # request[q]
        PROVE  request'[q] = Idle
    BY <2>3 DEF Answer, Again, Leave
  <2>4. ASSUME NEW p \in Requests, Refresh(p), request'[q] # request[q], request'[q] # Idle
        PROVE  Left(request'[q]) < Left(request[q])
    <3>1. /\ request[q].at = "flight"
          /\ request'[q] = Attempt("again", request[q].attempt)
      BY <2>4 DEF Refresh, Leave
    <3>2. Left(request'[q]) = 1
      BY <3>1 DEF Attempt, Left
    <3>3. Left(request[q]) >= 2 /\ Left(request[q]) \in Int
      BY <3>1, AttemptsLeft, BreakerAssumption DEF Request
    <3> QED BY <3>2, <3>3
  <2> QED BY <1>3, <1>4, <1>5, <2>1, <2>2, <2>3, <2>4
<1>6. CASE Restart
  BY <1>3, <1>6 DEF Restart
<1>7. CASE Outage
  <2>1. \/ request'[q] = request[q]
        \/ request'[q] = [request[q] EXCEPT !.mayFail = TRUE]
    BY <1>7 DEF Outage
  <2>2. [[request[q] EXCEPT !.mayFail = TRUE] EXCEPT !.mayFail = FALSE]
          = [request[q] EXCEPT !.mayFail = FALSE]
    BY DEF Request
  <2> QED BY <1>4, <2>1, <2>2 DEF Stays
<1>8. CASE Tick \/ Cleanup \/ UNCHANGED vars
  BY <1>4, <1>8 DEF Tick, Cleanup, vars
<1> QED BY <1>5, <1>6, <1>7, <1>8 DEF Next

\* An admitted request makes at most as many attempts as allowed and one more
\* with new credentials, whatever the instance answers and however the outcomes
\* of retries and refreshed credentials follow each other.
THEOREM RequestsRunOut == Spec => AttemptsRunOut
<1>1. TypeOK /\ [Next]_vars =>
        [\A q \in Requests :
           request[q].at # "idle" =>
             \/ [request'[q] EXCEPT !.mayFail = FALSE] = [request[q] EXCEPT !.mayFail = FALSE]
             \/ Left(request'[q]) < Left(request[q])]_vars
  BY RequestGoesOn DEF TypeOK, Stays
<1> QED BY <1>1, BreakerTyped, PTL DEF Spec, AttemptsRunOut
=============================================================================
