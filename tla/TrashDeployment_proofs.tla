----------------------- MODULE TrashDeployment_proofs -----------------------
(***************************************************************************)
(* What TrashDeployment keeps for every set of deployments, formats and    *)
(* recovery requests, whatever fails, and however often the process is     *)
(* restarted.                                                              *)
(***************************************************************************)
EXTENDS TrashDeployment, FiniteSetTheorems, TLAPS

Phases == {"new", "begun", "backed", "formats", "write", "identify", "recheck",
           "verify", "capture", "naming", "finalize", "failing", "over"}

\* The types, without the bounds on counters.
LedgersTyped ==
  /\ upstream \in [Resources -> Values]
  /\ ledger \in [Deploys -> Ledger]
  /\ mem \in [Deploys -> Ledger]
  /\ seen \in [Deploys -> [Resources -> Values]]
  /\ pc \in [Deploys -> Phases]
  /\ item \in [Deploys -> Resources]
  /\ wrote \in [Deploys -> SUBSET Resources]

-----------------------------------------------------------------------------
(***************************************************************************)
(* Ledgers                                                                 *)
(***************************************************************************)

\* An empty ledger is a ledger.
LEMMA EmptyLedgerTyped == EmptyLedger \in Ledger
BY DEF EmptyLedger, Ledger, Untouched, Entry, Values

\* Replacing one entry of a ledger leaves a ledger, whose other entries are
\* the same.
LEMMA WithEntryTyped ==
  ASSUME LedgersTyped, NEW d \in Deploys, NEW r \in Resources, NEW e \in Entry
  PROVE  /\ WithEntry(d, r, e) \in Ledger
         /\ WithEntry(d, r, e).entry[r] = e
         /\ \A s \in Resources \ {r} : WithEntry(d, r, e).entry[s] = mem[d].entry[s]
<1>1. mem[d] \in Ledger
  BY DEF LedgersTyped
<1> QED BY <1>1 DEF WithEntry, Ledger

\* The entries of a ledger are entries.
LEMMA EntryOf ==
  ASSUME NEW l \in Ledger, NEW r \in Resources
  PROVE  l.entry[r] \in Entry
BY DEF Ledger

\* The intent of a step is an entry.
LEMMA IntentTyped ==
  ASSUME LedgersTyped, NEW d \in Deploys, NEW r \in Resources
  PROVE  Intent(d, r) \in Entry /\ Intent(d, r).st = "pending"
<1>1. seen[d][r] \in Values
  BY DEF LedgersTyped
<1> QED BY <1>1 DEF Intent, Entry, Values

\* What a call writes is a value.
LEMMA PayloadTyped == ASSUME NEW d \in Deploys PROVE Payload(d) \in Values
BY DEF Payload, Values

\* Deployments name values.
LEMMA DeployIsValue == ASSUME NEW d \in Deploys PROVE d \in Values
BY DEF Values

\* A ledger with the identity of a created resource is a ledger in which the
\* same resources are recorded.
LEMMA IdentifiedTyped ==
  ASSUME LedgersTyped, NEW d \in Deploys
  PROVE  /\ Identified(d) \in Ledger
         /\ \A r \in Resources : Identified(d).entry[r].st = mem[d].entry[r].st
<1> DEFINE e == [mem[d].entry[item[d]] EXCEPT !.known = TRUE, !.post = Payload(d)]
<1>1. item[d] \in Resources /\ mem[d] \in Ledger
  BY DEF LedgersTyped
<1>2. mem[d].entry[item[d]] \in Entry
  BY <1>1, EntryOf
<1>3. e \in Entry /\ e.st = mem[d].entry[item[d]].st
  BY <1>2, PayloadTyped DEF Entry
<1>4. Identified(d) = WithEntry(d, item[d], e)
  BY DEF Identified
<1> HIDE DEF e
<1> QED BY <1>1, <1>3, <1>4, WithEntryTyped

\* So is one with the value intended for a fresh profile.
LEMMA RecheckedTyped ==
  ASSUME LedgersTyped, NEW d \in Deploys
  PROVE  LET l == WithEntry(d, Profile, [mem[d].entry[Profile] EXCEPT !.want = d]) IN
         /\ l \in Ledger
         /\ \A r \in Resources : l.entry[r].st = mem[d].entry[r].st
<1> DEFINE e == [mem[d].entry[Profile] EXCEPT !.want = d]
<1>1. Profile \in Resources /\ mem[d] \in Ledger
  BY DEF LedgersTyped, Resources
<1>2. mem[d].entry[Profile] \in Entry
  BY <1>1, EntryOf
<1>3. e \in Entry /\ e.st = mem[d].entry[Profile].st
  BY <1>2, DeployIsValue DEF Entry
<1> HIDE DEF e
<1>4. /\ WithEntry(d, Profile, e) \in Ledger
      /\ \A r \in Resources : WithEntry(d, Profile, e).entry[r].st = mem[d].entry[r].st
  BY <1>1, <1>3, WithEntryTyped
<1> QED BY <1>4 DEF e

\* A verified resource is recorded, and nothing else changes.
LEMMA VerifiedTyped ==
  ASSUME LedgersTyped, NEW d \in Deploys
  PROVE  /\ Verified(d) \in Ledger
         /\ Verified(d).entry[item[d]].st # "none"
         /\ \A r \in Resources \ {item[d]} : Verified(d).entry[r] = mem[d].entry[r]
<1> DEFINE e == [mem[d].entry[item[d]] EXCEPT
                   !.st = IF item[d] = Profile THEN "pending" ELSE "applied", !.post = d]
<1>1. item[d] \in Resources /\ mem[d] \in Ledger
  BY DEF LedgersTyped
<1>2. mem[d].entry[item[d]] \in Entry
  BY <1>1, EntryOf
<1>3. e \in Entry /\ e.st # "none"
  BY <1>2, DeployIsValue DEF Entry
<1>4. Verified(d) = WithEntry(d, item[d], e)
  BY DEF Verified
<1> HIDE DEF e
<1> QED BY <1>1, <1>3, <1>4, WithEntryTyped

\* The captured ledger records what it recorded, and the profile.
LEMMA CapturedTyped ==
  ASSUME LedgersTyped, NEW d \in Deploys
  PROVE  /\ Captured(d) \in Ledger
         /\ \A r \in Resources : mem[d].entry[r].st # "none" => Captured(d).entry[r].st # "none"
<1> DEFINE p == [mem[d].entry[Profile] EXCEPT !.st = "applied"]
           g == [f \in Formats |-> IF f \in TemplateFormats(d) THEN upstream[f] ELSE NoValue]
           n == [mem[d].entry EXCEPT ![Profile] = p]
<1>1. Profile \in Resources /\ mem[d] \in Ledger
  BY DEF LedgersTyped, Resources
<1>2. mem[d].entry[Profile] \in Entry
  BY <1>1, EntryOf
<1>3. p \in Entry /\ p.st = "applied"
  BY <1>2 DEF Entry
<1>4. g \in [Formats -> Values \cup {NoValue}]
  BY DEF LedgersTyped, Resources
<1>5. Captured(d) = [mem[d] EXCEPT !.entry = n, !.captured = TRUE, !.managed = g]
  BY <1>1, <1>2 DEF Captured, Ledger, Entry
<1>6. n \in [Resources -> Entry] /\ n[Profile].st = "applied"
      /\ \A r \in Resources \ {Profile} : n[r] = mem[d].entry[r]
  <2> HIDE DEF p
  <2> QED BY <1>1, <1>3 DEF Ledger
<1> HIDE DEF p, g, n
<1>7. Captured(d) \in Ledger /\ Captured(d).entry = n
  BY <1>1, <1>4, <1>5, <1>6 DEF Ledger
<1> QED BY <1>6, <1>7

-----------------------------------------------------------------------------
(***************************************************************************)
(* What a step of a deployment does to the ledgers.  A step either leaves  *)
(* them alone, or stores a ledger that is typed and made from the one in   *)
(* memory.                                                                 *)
(***************************************************************************)

\* l may be the next ledger of d: it still has whatever memory has.
Extends(d, l) ==
  /\ l \in Ledger
  /\ \A r \in Resources : mem[d].entry[r].st # "none" => l.entry[r].st # "none"

LEMMA IntentExtends ==
  ASSUME LedgersTyped, NEW d \in Deploys, NEW r \in Resources
  PROVE  LET l == WithEntry(d, r, Intent(d, r)) IN
         Extends(d, l) /\ l.entry[r].st = "pending"
<1>1. Intent(d, r) \in Entry /\ Intent(d, r).st = "pending"
  BY IntentTyped
<1> DEFINE e == Intent(d, r)
<1> HIDE DEF e
<1>2. /\ WithEntry(d, r, e) \in Ledger
      /\ WithEntry(d, r, e).entry[r] = e
      /\ \A s \in Resources \ {r} : WithEntry(d, r, e).entry[s] = mem[d].entry[s]
  BY <1>1, WithEntryTyped DEF e
<1>3. Extends(d, WithEntry(d, r, e)) /\ WithEntry(d, r, e).entry[r].st = "pending"
  BY <1>1, <1>2 DEF Extends, e
<1> QED BY <1>3 DEF e

LEMMA OthersExtend ==
  ASSUME LedgersTyped, NEW d \in Deploys
  PROVE  /\ Extends(d, Identified(d))
         /\ Extends(d, WithEntry(d, Profile, [mem[d].entry[Profile] EXCEPT !.want = d]))
         /\ Extends(d, Verified(d))
         /\ Extends(d, Captured(d))
<1>1. Extends(d, Identified(d))
  BY IdentifiedTyped DEF Extends
<1>2. Extends(d, WithEntry(d, Profile, [mem[d].entry[Profile] EXCEPT !.want = d]))
  BY RecheckedTyped DEF Extends
<1>3. Extends(d, Verified(d))
  BY VerifiedTyped DEF Extends
<1>4. Extends(d, Captured(d))
  BY CapturedTyped DEF Extends
<1> QED BY <1>1, <1>2, <1>3, <1>4

\* The phases in which a deployment holds the endpoint, and those in which it
\* works on the resource item.
Busy(d) == pc[d] \notin {"new", "over"}

AtItem(d) == pc[d] \in {"write", "identify", "recheck", "verify"}

\* One step of a deployment that goes on, as the proofs about ledgers see it.
LedgerStep(d) ==
  /\ \/ UNCHANGED <<ledger, mem>>
     \/ \E l \in Ledger :
          /\ Extends(d, l)
          /\ \/ Persist(d, l)
             \/ PersistFails(d, l) /\ UNCHANGED mem
  /\ \/ UNCHANGED wrote
     \/ pc[d] = "write" /\ wrote' = [wrote EXCEPT ![d] = @ \cup {item[d]}]
  /\ \/ UNCHANGED item
     \/ \E r \in Resources : item' = [item EXCEPT ![d] = r]
  /\ upstream' \in [Resources -> Values]
  /\ UNCHANGED seen
  /\ \/ UNCHANGED pc
     \/ \E x \in Phases \ {"new", "over"} : pc' = [pc EXCEPT ![d] = x]
  /\ pc'[d] = "write" =>
       /\ ledger'[d] = mem'[d]
       /\ mem'[d].entry[item'[d]].st # "none"
  /\ AtItem(d)' => mem'[d].entry[item'[d]].st # "none"
  /\ pc'[d] = "recheck" => item'[d] = Profile

\* What is known of a deployment at work on a resource.
ItemKnown ==
  \A d \in Deploys :
    /\ AtItem(d) => mem[d].entry[item[d]].st # "none"
    /\ pc[d] = "write" => ledger[d] = mem[d]
    /\ pc[d] = "recheck" => item[d] = Profile

\* The steps of a deployment that do not end it.
Steps(d) ==
  \/ CreateBackup(d) \/ CreateHistory(d) \/ CreateHistoryFails(d)
  \/ \E r \in Resources : Resource(d, r)
  \/ Write(d) \/ WriteFails(d) \/ Identify(d) \/ IdentifyFails(d)
  \/ Recheck(d) \/ RecheckFails(d) \/ Verify(d) \/ VerifyFails(d)
  \/ Capture(d) \/ CaptureFails(d)

\* The steps that end it.
Ends(d) == CreateBackupFails(d) \/ Finalize(d) \/ FinalizeFails(d) \/ Fail(d)

LEMMA WorkIsStepsOrEnds == ASSUME NEW d \in Deploys, Work(d) PROVE Steps(d) \/ Ends(d)
BY DEF Work, Steps, Ends

\* Every step that does not end a deployment is such a step.
LEMMA StepsAreLedgerSteps ==
  ASSUME LedgersTyped, ItemKnown, NEW d \in Deploys, Steps(d)
  PROVE  LedgerStep(d) /\ Busy(d)
<1> USE DEF LedgersTyped
<1>1. CASE CreateBackup(d)
  BY <1>1 DEF CreateBackup, LedgerStep, AtItem, Busy, Phases
<1>2. CASE CreateHistory(d)
  BY <1>2 DEF CreateHistory, LedgerStep, AtItem, Busy, Phases
<1>3. CASE CreateHistoryFails(d)
  BY <1>3 DEF CreateHistoryFails, Failing, LedgerStep, AtItem, Busy, Phases
<1>4. CASE \E r \in Resources : Resource(d, r)
  <2> PICK r \in Resources : Resource(d, r)
    BY <1>4
  <2>1. CASE KeepFormat(d, r)
    BY <2>1, r \in Resources DEF KeepFormat, Step, Next1, LedgerStep, AtItem, Busy, Phases
  <2>2. CASE Intend(d, r)
    <3> DEFINE l == WithEntry(d, r, Intent(d, r))
    <3>1. Extends(d, l) /\ l.entry[r].st = "pending"
      BY IntentExtends
    <3>2. l \in Ledger
      BY <3>1 DEF Extends
    <3>3. /\ Persist(d, l)
          /\ item' = [item EXCEPT ![d] = r]
          /\ pc' = [pc EXCEPT ![d] = "write"]
          /\ UNCHANGED <<upstream, wrote, seen>>
          /\ Busy(d)
      BY <2>2 DEF Intend, Step, Next1, Busy
    <3> HIDE DEF l
    <3>4. ledger'[d] = l /\ mem'[d] = l /\ item'[d] = r /\ pc'[d] = "write"
      BY <3>3 DEF Persist
    <3> QED BY <3>1, <3>2, <3>3, <3>4 DEF LedgerStep, AtItem, Phases
  <2>3. CASE Changed(d, r)
    BY <2>3 DEF Changed, Failing, Step, Next1, LedgerStep, AtItem, Busy, Phases
  <2>4. CASE Skip(d, r)
    <3> DEFINE l == WithEntry(d, r, Intent(d, r))
    <3>1. Extends(d, l)
      BY IntentExtends
    <3>2. l \in Ledger
      BY <3>1 DEF Extends
    <3>3. /\ UNCHANGED ledger \/ PersistFails(d, l)
          /\ UNCHANGED <<upstream, mem, item, wrote, seen>>
          /\ UNCHANGED pc \/ pc' = [pc EXCEPT ![d] = "finalize"]
          /\ pc[d] \in {"formats", "naming"}
      BY <2>4 DEF Skip, Step, Next1
    <3> HIDE DEF l
    <3>4. pc'[d] \in {"formats", "naming", "finalize"}
      BY <3>3
    <3> QED BY <3>1, <3>2, <3>3, <3>4 DEF LedgerStep, AtItem, Busy, Phases
  <2> QED BY <2>1, <2>2, <2>3, <2>4 DEF Resource
<1>5. CASE Write(d)
  <2>1. Payload(d) \in Values
    BY PayloadTyped
  <2>2. upstream' \in [Resources -> Values]
    BY <1>5, <2>1 DEF Write, Apply
  <2>3. \E x \in {"verify", "identify"} : pc' = [pc EXCEPT ![d] = x]
    BY <1>5 DEF Write
  <2>4. /\ pc[d] = "write"
        /\ UNCHANGED <<ledger, mem, item, seen>>
        /\ wrote' = [wrote EXCEPT ![d] = @ \cup {item[d]}]
    BY <1>5 DEF Write, Apply, Step
  <2>5. mem[d].entry[item[d]].st # "none"
    BY <2>4 DEF ItemKnown, AtItem
  <2> QED BY <2>2, <2>3, <2>4, <2>5 DEF LedgerStep, AtItem, Busy, Phases
<1>6. CASE WriteFails(d)
  <2>1. Payload(d) \in Values
    BY PayloadTyped
  <2>2. upstream' \in [Resources -> Values]
    BY <1>6, <2>1 DEF WriteFails, Apply
  <2>3. /\ pc[d] = "write"
        /\ UNCHANGED <<ledger, mem, item, seen>>
        /\ UNCHANGED wrote \/ wrote' = [wrote EXCEPT ![d] = @ \cup {item[d]}]
        /\ pc' = [pc EXCEPT ![d] = "failing"]
    BY <1>6 DEF WriteFails, Failing, Apply, Step
  <2> QED BY <2>2, <2>3 DEF LedgerStep, AtItem, Busy, Phases
<1>7. CASE Identify(d)
  <2> DEFINE l == Identified(d)
  <2>1. l \in Ledger /\ Extends(d, l) /\ \A r \in Resources : l.entry[r].st = mem[d].entry[r].st
    BY IdentifiedTyped, OthersExtend
  <2>2. /\ pc[d] = "identify"
        /\ Persist(d, l)
        /\ UNCHANGED <<upstream, item, wrote, seen>>
        /\ pc' = [pc EXCEPT ![d] = IF item[d] = Profile THEN "recheck" ELSE "verify"]
    BY <1>7 DEF Identify, Step
  <2>3. item[d] \in Resources /\ mem[d].entry[item[d]].st # "none"
    BY <2>2 DEF ItemKnown, AtItem
  <2> HIDE DEF l
  <2>4. mem'[d] = l /\ item'[d] = item[d]
    BY <2>2 DEF Persist
  <2> QED BY <2>1, <2>2, <2>3, <2>4 DEF LedgerStep, AtItem, Busy, Phases
<1>8. CASE IdentifyFails(d)
  <2>1. Identified(d) \in Ledger /\ Extends(d, Identified(d))
    BY IdentifiedTyped, OthersExtend
  <2>2. /\ pc[d] = "identify"
        /\ PersistFails(d, Identified(d))
        /\ UNCHANGED <<upstream, mem, item, wrote, seen>>
        /\ pc' = [pc EXCEPT ![d] = "failing"]
    BY <1>8 DEF IdentifyFails, Failing, Step
  <2> QED BY <2>1, <2>2 DEF LedgerStep, AtItem, Busy, Phases
<1>9. CASE Recheck(d)
  <2> DEFINE l == WithEntry(d, Profile, [mem[d].entry[Profile] EXCEPT !.want = d])
  <2>1. l \in Ledger /\ Extends(d, l) /\ \A r \in Resources : l.entry[r].st = mem[d].entry[r].st
    BY RecheckedTyped, OthersExtend
  <2>2. /\ pc[d] = "recheck"
        /\ Persist(d, l)
        /\ UNCHANGED <<upstream, item, wrote, seen>>
        /\ pc' = [pc EXCEPT ![d] = "write"]
    BY <1>9 DEF Recheck, Step
  <2>3. item[d] \in Resources /\ mem[d].entry[item[d]].st # "none"
    BY <2>2 DEF ItemKnown, AtItem
  <2> HIDE DEF l
  <2>4. mem'[d] = l /\ ledger'[d] = l /\ item'[d] = item[d]
    BY <2>2 DEF Persist
  <2> QED BY <2>1, <2>2, <2>3, <2>4 DEF LedgerStep, AtItem, Busy, Phases
<1>10. CASE RecheckFails(d)
  <2> DEFINE l == WithEntry(d, Profile, [mem[d].entry[Profile] EXCEPT !.want = d])
  <2>1. l \in Ledger /\ Extends(d, l)
    BY RecheckedTyped, OthersExtend
  <2>2. /\ pc[d] = "recheck"
        /\ UNCHANGED ledger \/ PersistFails(d, l)
        /\ UNCHANGED <<upstream, mem, item, wrote, seen>>
        /\ pc' = [pc EXCEPT ![d] = "failing"]
    BY <1>10 DEF RecheckFails, Failing, Step
  <2> HIDE DEF l
  <2> QED BY <2>1, <2>2 DEF LedgerStep, AtItem, Busy, Phases
<1>11. CASE Verify(d)
  <2>1. Verified(d) \in Ledger /\ Extends(d, Verified(d))
    BY VerifiedTyped, OthersExtend
  <2>2. /\ pc[d] = "verify"
        /\ Persist(d, Verified(d))
        /\ UNCHANGED <<upstream, item, wrote, seen>>
    BY <1>11 DEF Verify, Step
  <2>3. \E x \in {"formats", "capture", "finalize"} : pc' = [pc EXCEPT ![d] = x]
    <3>1. item[d] \in Formats \/ item[d] = Profile \/ item[d] = Naming
      BY DEF Resources
    <3> QED BY <1>11, <3>1, ResourcesAreDistinct DEF Verify
  <2> QED BY <2>1, <2>2, <2>3 DEF LedgerStep, AtItem, Busy, Phases
<1>12. CASE VerifyFails(d)
  <2>1. Verified(d) \in Ledger /\ Extends(d, Verified(d))
    BY VerifiedTyped, OthersExtend
  <2>2. /\ pc[d] = "verify"
        /\ UNCHANGED ledger \/ PersistFails(d, Verified(d))
        /\ UNCHANGED <<upstream, mem, item, wrote, seen>>
        /\ pc' = [pc EXCEPT ![d] = "failing"]
    BY <1>12 DEF VerifyFails, Failing, Step
  <2> QED BY <2>1, <2>2 DEF LedgerStep, AtItem, Busy, Phases
<1>13. CASE Capture(d)
  <2>1. Captured(d) \in Ledger /\ Extends(d, Captured(d))
    BY CapturedTyped, OthersExtend
  <2>2. /\ pc[d] = "capture"
        /\ Persist(d, Captured(d))
        /\ UNCHANGED <<upstream, item, wrote, seen>>
        /\ \E x \in {"naming", "finalize"} : pc' = [pc EXCEPT ![d] = x]
    BY <1>13 DEF Capture, Step
  <2> QED BY <2>1, <2>2 DEF LedgerStep, AtItem, Busy, Phases
<1>14. CASE CaptureFails(d)
  <2>1. Captured(d) \in Ledger /\ Extends(d, Captured(d))
    BY CapturedTyped, OthersExtend
  <2>2. /\ pc[d] = "capture"
        /\ UNCHANGED ledger \/ PersistFails(d, Captured(d))
        /\ UNCHANGED <<upstream, mem, item, wrote, seen>>
        /\ pc' = [pc EXCEPT ![d] = "failing"]
    BY <1>14 DEF CaptureFails, Failing, Step
  <2> QED BY <2>1, <2>2 DEF LedgerStep, AtItem, Busy, Phases
<1> QED BY <1>1, <1>2, <1>3, <1>4, <1>5, <1>6, <1>7, <1>8, <1>9, <1>10, <1>11,
           <1>12, <1>13, <1>14 DEF Steps

-----------------------------------------------------------------------------
(***************************************************************************)
(* WriteAhead.  A deployment stores the whole ledger it has in memory, so  *)
(* what it has changed must be in both: memory never forgets a resource    *)
(* that was written, and a call is made only when the stored ledger is the *)
(* one in memory and has the resource.                                     *)
(***************************************************************************)
MemoryKnows == \A d \in Deploys : Busy(d) => \A r \in wrote[d] : mem[d].entry[r].st # "none"

NothingYet == \A d \in Deploys : pc[d] = "new" => wrote[d] = {}

WriteAheadInv == LedgersTyped /\ ItemKnown /\ MemoryKnows /\ NothingYet /\ WriteAhead

\* The variables the invariant speaks of.
ledgerVars == <<upstream, ledger, mem, seen, pc, item, wrote>>

LEMMA InitWriteAhead == Init => WriteAheadInv
<1> SUFFICES ASSUME Init PROVE WriteAheadInv
  OBVIOUS
<1>1. EmptyLedger \in Ledger
  BY EmptyLedgerTyped
<1>2. Initial \in [Resources -> Values]
  BY InitialIsComplete DEF Values
<1>3. Profile \in Resources
  BY DEF Resources
<1>4. LedgersTyped
  BY <1>1, <1>2, <1>3 DEF Init, LedgersTyped, Phases
<1>5. ItemKnown /\ MemoryKnows /\ NothingYet /\ WriteAhead
  BY DEF Init, ItemKnown, AtItem, MemoryKnows, Busy, NothingYet, WriteAhead
<1> QED BY <1>4, <1>5 DEF WriteAheadInv

\* A step of a deployment that goes on keeps the invariant.
LEMMA LedgerStepKeeps ==
  ASSUME WriteAheadInv, NEW d \in Deploys, LedgerStep(d), Busy(d)
  PROVE  WriteAheadInv'
<1> USE DEF WriteAheadInv, LedgersTyped
<1>1. \A e \in Deploys \ {d} : /\ ledger'[e] = ledger[e] /\ mem'[e] = mem[e]
                               /\ pc'[e] = pc[e] /\ item'[e] = item[e] /\ wrote'[e] = wrote[e]
  BY DEF LedgerStep, Persist, PersistFails
<1>2. /\ ledger'[d] = ledger[d] \/ Extends(d, ledger'[d])
      /\ mem'[d] = mem[d] \/ Extends(d, mem'[d])
  BY DEF LedgerStep, Persist, PersistFails
<1>3. LedgersTyped'
  <2>1. ledger' \in [Deploys -> Ledger] /\ mem' \in [Deploys -> Ledger]
    <3>1. ledger \in [Deploys -> Ledger] /\ mem \in [Deploys -> Ledger]
      OBVIOUS
    <3>2. \/ UNCHANGED <<ledger, mem>>
          \/ \E l \in Ledger : Persist(d, l) \/ (PersistFails(d, l) /\ UNCHANGED mem)
      BY DEF LedgerStep
    <3> QED BY ONLY <3>1, <3>2, d \in Deploys DEF Persist, PersistFails
  <2>2. wrote' \in [Deploys -> SUBSET Resources] /\ item' \in [Deploys -> Resources]
    <3>1. wrote \in [Deploys -> SUBSET Resources] /\ item \in [Deploys -> Resources]
      OBVIOUS
    <3>2. /\ UNCHANGED wrote \/ wrote' = [wrote EXCEPT ![d] = @ \cup {item[d]}]
          /\ UNCHANGED item \/ \E r \in Resources : item' = [item EXCEPT ![d] = r]
      BY DEF LedgerStep
    <3> QED BY ONLY <3>1, <3>2, d \in Deploys
  <2>3. pc' \in [Deploys -> Phases]
    BY DEF LedgerStep
  <2>4. upstream' \in [Resources -> Values] /\ seen' \in [Deploys -> [Resources -> Values]]
    BY DEF LedgerStep
  <2> QED BY <2>1, <2>2, <2>3, <2>4
<1>4. pc'[d] # "new"
  BY DEF LedgerStep, Busy
<1>5. \A r \in wrote'[d] : r \in Resources /\ ledger'[d].entry[r].st # "none" /\ mem'[d].entry[r].st # "none"
  <2> SUFFICES ASSUME NEW r \in wrote'[d]
               PROVE  r \in Resources /\ ledger'[d].entry[r].st # "none" /\ mem'[d].entry[r].st # "none"
    OBVIOUS
  <2>1. r \in Resources
    BY <1>3
  <2>2. ledger[d].entry[r].st # "none" /\ mem[d].entry[r].st # "none"
    <3>1. CASE r \in wrote[d]
      BY <3>1 DEF MemoryKnows, WriteAhead
    <3>2. CASE r \notin wrote[d]
      <4>1. pc[d] = "write" /\ r = item[d]
        BY <3>2 DEF LedgerStep
      <4> QED BY <4>1 DEF ItemKnown, AtItem
    <3> QED BY <3>1, <3>2
  <2> QED BY <1>2, <2>1, <2>2 DEF Extends
<1>6. ItemKnown'
  <2>1. ASSUME NEW e \in Deploys \ {d}
        PROVE  /\ AtItem(e)' => mem'[e].entry[item'[e]].st # "none"
               /\ pc'[e] = "write" => ledger'[e] = mem'[e]
               /\ pc'[e] = "recheck" => item'[e] = Profile
    BY <1>1, <2>1 DEF ItemKnown, AtItem
  <2>2. /\ AtItem(d)' => mem'[d].entry[item'[d]].st # "none"
        /\ pc'[d] = "write" => ledger'[d] = mem'[d]
        /\ pc'[d] = "recheck" => item'[d] = Profile
    BY DEF LedgerStep
  <2> QED BY <2>1, <2>2 DEF ItemKnown, AtItem
<1>7. MemoryKnows' /\ NothingYet' /\ WriteAhead'
  <2>1. ASSUME NEW e \in Deploys \ {d}
        PROVE  /\ Busy(e)' => \A r \in wrote'[e] : mem'[e].entry[r].st # "none"
               /\ pc'[e] = "new" => wrote'[e] = {}
               /\ \A r \in wrote'[e] : ledger'[e].entry[r].st # "none"
    BY <1>1, <2>1 DEF MemoryKnows, NothingYet, WriteAhead, Busy
  <2> QED BY <1>4, <1>5, <2>1 DEF MemoryKnows, NothingYet, WriteAhead
<1> QED BY <1>3, <1>6, <1>7

\* The end of a deployment keeps the invariant.
LEMMA EndKeeps ==
  ASSUME WriteAheadInv, NEW d \in Deploys, Leave(d), UNCHANGED <<upstream, ledger, wrote>>
  PROVE  WriteAheadInv'
<1> USE DEF WriteAheadInv, LedgersTyped
<1>1. EmptyLedger \in Ledger /\ Initial \in [Resources -> Values] /\ Profile \in Resources
  BY EmptyLedgerTyped, InitialIsComplete DEF Values, Resources
<1>2. LedgersTyped'
  BY <1>1 DEF Leave, Phases
<1>3. pc'[d] = "over" /\ \A e \in Deploys \ {d} : pc'[e] = pc[e] /\ mem'[e] = mem[e] /\ item'[e] = item[e]
  BY DEF Leave
<1>4. ItemKnown' /\ MemoryKnows'
  <2>1. ItemKnown'
    <3>1. ~AtItem(d)' /\ pc'[d] # "write" /\ pc'[d] # "recheck"
      BY ONLY <1>3 DEF AtItem
    <3>2. ASSUME NEW e \in Deploys \ {d}
          PROVE  /\ AtItem(e)' <=> AtItem(e)
                 /\ pc'[e] = pc[e] /\ item'[e] = item[e] /\ mem'[e] = mem[e] /\ ledger'[e] = ledger[e]
      BY ONLY <1>3, <3>2, UNCHANGED ledger DEF AtItem
    <3> QED BY ONLY ItemKnown, <3>1, <3>2 DEF ItemKnown
  <2>2. \A e \in Deploys : Busy(e)' => e # d /\ Busy(e)
    BY ONLY <1>3, d \in Deploys DEF Busy
  <2>3. MemoryKnows'
    BY ONLY MemoryKnows, <1>3, <2>2, UNCHANGED wrote DEF MemoryKnows
  <2> QED BY <2>1, <2>3
<1>5. NothingYet' /\ WriteAhead'
  BY <1>3 DEF NothingYet, WriteAhead
<1> QED BY <1>2, <1>4, <1>5

\* Every step keeps the invariant.
LEMMA NextWriteAhead == WriteAheadInv /\ [Next]_vars => WriteAheadInv'
<1> SUFFICES ASSUME WriteAheadInv, [Next]_vars PROVE WriteAheadInv'
  OBVIOUS
<1>1. ASSUME NEW d \in Deploys, Begin(d) PROVE WriteAheadInv'
  <2>1. LedgersTyped'
    BY <1>1 DEF Begin, WriteAheadInv, LedgersTyped, Phases
  <2>2. pc[d] = "new" /\ pc'[d] = "begun" /\ \A e \in Deploys \ {d} : pc'[e] = pc[e]
    BY <1>1 DEF Begin, WriteAheadInv, LedgersTyped
  <2>3. UNCHANGED <<ledger, mem, item, wrote>>
    BY <1>1 DEF Begin
  <2>4. wrote[d] = {}
    BY <2>2 DEF WriteAheadInv, NothingYet
  <2>5. ItemKnown' /\ MemoryKnows' /\ NothingYet' /\ WriteAhead'
    BY <2>2, <2>3, <2>4 DEF WriteAheadInv, ItemKnown, AtItem, MemoryKnows, Busy, NothingYet, WriteAhead
  <2> QED BY <2>1, <2>5 DEF WriteAheadInv
<1>2. ASSUME NEW d \in Deploys, Work(d) PROVE WriteAheadInv'
  <2>1. CASE Steps(d)
    BY <2>1, StepsAreLedgerSteps, LedgerStepKeeps DEF WriteAheadInv
  <2>2. CASE Ends(d)
    <3>1. Leave(d) /\ UNCHANGED <<upstream, ledger, wrote>>
      BY <2>2 DEF Ends, CreateBackupFails, Finalize, FinalizeFails, Fail
    <3> QED BY <3>1, EndKeeps
  <2> QED BY <1>2, <2>1, <2>2, WorkIsStepsOrEnds
<1>3. ASSUME UNCHANGED ledgerVars PROVE WriteAheadInv'
  BY <1>3 DEF ledgerVars, WriteAheadInv, LedgersTyped, ItemKnown, AtItem, MemoryKnows, Busy,
              NothingYet, WriteAhead
<1>4. ASSUME NEW d \in Deploys, CheckDelete(d) \/ Delete(d) PROVE WriteAheadInv'
  BY <1>3, <1>4 DEF CheckDelete, Delete, deployVars, ledgerVars
<1>5. ASSUME NEW u \in Undos,
             LookUp(u) \/ Claim(u) \/ ClaimRefused(u) \/ Enter(u) \/ EnterFails(u) \/ EnterTooLate(u)
      PROVE  WriteAheadInv'
  BY <1>3, <1>5 DEF LookUp, Claim, ClaimRefused, Enter, EnterFails, EnterTooLate, deployVars, ledgerVars
<1>6. ASSUME NEW u \in Undos, Recover(u) PROVE WriteAheadInv'
  <2>1. CASE \E r \in Resources : CheckResource(u, r) \/ CheckUnreported(u, r)
    BY <1>3, <2>1 DEF CheckResource, CheckUnreported, deployVars, ledgerVars
  <2>2. CASE Finish(u) \/ FinishFails(u) \/ Release(u) \/ ReleaseFails(u)
    BY <1>3, <2>2 DEF Finish, FinishFails, Release, ReleaseFails, deployVars, ledgerVars
  <2> QED BY <1>6, <2>1, <2>2 DEF Recover
<1>7. ASSUME UNCHANGED <<ledger, mem, seen, pc, item, wrote>>, upstream' \in [Resources -> Values]
      PROVE  WriteAheadInv'
  BY <1>7 DEF WriteAheadInv, LedgersTyped, ItemKnown, AtItem, MemoryKnows, Busy, NothingYet, WriteAhead
<1>8. ASSUME NEW r \in Resources, Edit(r) PROVE WriteAheadInv'
  <2>1. upstream' \in [Resources -> Values]
    BY <1>8 DEF Edit, WriteAheadInv, LedgersTyped, Values
  <2> QED BY <1>7, <1>8, <2>1 DEF Edit, deployVars
<1>9. ASSUME NEW r \in Resources, NEW d \in Deploys, Restore(d, r) PROVE WriteAheadInv'
  <2>1. ledger[d].entry[r] \in Entry
    BY EntryOf DEF WriteAheadInv, LedgersTyped
  <2>2. upstream' \in [Resources -> Values]
    BY <1>9, <2>1 DEF Restore, WriteAheadInv, LedgersTyped, Entry
  <2> QED BY <1>7, <1>9, <2>2 DEF Restore, deployVars
<1>10. ASSUME Restart PROVE WriteAheadInv'
  <2>1. EmptyLedger \in Ledger /\ Initial \in [Resources -> Values] /\ Profile \in Resources
    BY EmptyLedgerTyped, InitialIsComplete DEF Values, Resources
  <2>2. LedgersTyped'
    BY <1>10, <2>1 DEF Restart, WriteAheadInv, LedgersTyped, Phases
  <2>3. /\ UNCHANGED <<ledger, wrote>>
        /\ \A d \in Deploys : pc'[d] \in {"new", "over"} /\ (pc'[d] = "new" => pc[d] = "new")
    BY <1>10 DEF Restart
  <2>4. ItemKnown' /\ MemoryKnows' /\ NothingYet' /\ WriteAhead'
    BY <2>3 DEF WriteAheadInv, ItemKnown, AtItem, MemoryKnows, Busy, NothingYet, WriteAhead
  <2> QED BY <2>2, <2>4 DEF WriteAheadInv
<1>11. CASE UNCHANGED vars
  BY <1>3, <1>11 DEF vars, ledgerVars
<1> QED BY <1>1, <1>2, <1>4, <1>5, <1>6, <1>8, <1>9, <1>10, <1>11 DEF Next

\* Whatever a deployment changed upstream is in its stored ledger, for any
\* number of deployments, formats, failing calls and restarts: a process that
\* dies leaves nothing behind that a recovery would not find.
THEOREM WritesAhead == Spec => []WriteAhead
<1>1. WriteAheadInv => WriteAhead
  BY DEF WriteAheadInv
<1> QED BY <1>1, InitWriteAhead, NextWriteAhead, PTL DEF Spec

-----------------------------------------------------------------------------
(***************************************************************************)
(* The history rows                                                        *)
(***************************************************************************)
Undoing == {"none", "IN_PROGRESS", "PARTIAL", "COMPLETED"}

RowTables == [Tables -> [Deploys -> Rows]]

RowsTyped ==
  /\ row \in RowTables
  /\ prior \in [Undos -> Rows]
  /\ progress \in [Undos -> [Resources -> Outcomes]]
  /\ upc \in [Undos -> {"idle", "looked", "claimed", "undoing", "releasing"}]

\* A row is what its fields are.
LEMMA RowFields ==
  ASSUME NEW x \in Rows
  PROVE  /\ x.status \in Statuses /\ x.undo \in Undoing /\ x.stamp \in Stamps
         /\ x.rolledBack \in BOOLEAN /\ x.progress \in [Resources -> Outcomes]
BY DEF Rows, Undoing

LEMMA NoRowTyped ==
  /\ NoRow \in Rows
  /\ [NoRow EXCEPT !.status = "IN_PROGRESS"] \in Rows
  /\ [NoRow EXCEPT !.status = "deleted"] \in Rows
<1>1. NoProgress \in [Resources -> Outcomes]
  BY DEF NoProgress, Outcomes
<1> HIDE DEF NoProgress
<1> QED BY <1>1 DEF NoRow, Rows, Statuses, Stamps

\* Changing a row changes no other.
LEMMA RowExcept ==
  ASSUME RowsTyped, NEW t \in Tables, NEW d \in Deploys, NEW x \in Rows
  PROVE  LET r == [row EXCEPT ![t][d] = x] IN
         /\ r \in RowTables
         /\ r[t][d] = x
         /\ \A s \in Tables, e \in Deploys : (s # t \/ e # d) => r[s][e] = row[s][e]
BY DEF RowsTyped, RowTables

\* The status that a deployment records.
LEMMA WithStatusTyped ==
  ASSUME RowsTyped, NEW t \in Tables, NEW d \in Deploys, NEW s \in Statuses
  PROVE  /\ WithStatus(t, d, s) \in [Deploys -> Rows]
         /\ \A e \in Deploys \ {d} : WithStatus(t, d, s)[e] = row[t][e]
         /\ WithStatus(t, d, s)[d].rolledBack = row[t][d].rolledBack
         /\ WithStatus(t, d, s)[d].undo = row[t][d].undo
         /\ WithStatus(t, d, s)[d].stamp = row[t][d].stamp
         /\ WithStatus(t, d, s)[d].status = IF Exists(t, d) THEN s ELSE row[t][d].status
<1>1. row[t] \in [Deploys -> Rows] /\ row[t][d] \in Rows
  BY DEF RowsTyped, RowTables
<1> DEFINE x == [row[t][d] EXCEPT !.status = s]
<1>2. /\ x \in Rows /\ x.rolledBack = row[t][d].rolledBack /\ x.undo = row[t][d].undo
      /\ x.stamp = row[t][d].stamp /\ x.status = s
  BY <1>1 DEF Rows
<1>3. [row[t] EXCEPT ![d].status = s] = [row[t] EXCEPT ![d] = x]
  BY <1>1
<1> HIDE DEF x
<1> QED BY <1>1, <1>2, <1>3 DEF WithStatus

\* What a deployment records in its rows.
LEMMA RecordTyped ==
  ASSUME RowsTyped, NEW d \in Deploys, NEW s \in Statuses \ {"none", "deleted"}, Record(d, s)
  PROVE  /\ row' \in RowTables
         /\ \A t \in Tables, e \in Deploys \ {d} : row'[t][e] = row[t][e]
         /\ \A t \in Tables : /\ row'[t][d].rolledBack = row[t][d].rolledBack
                              /\ row'[t][d].undo = row[t][d].undo
                              /\ row'[t][d].stamp = row[t][d].stamp
                              /\ Exists(t, d)' <=> Exists(t, d)
<1>1. \A t \in Tables : row'[t] = WithStatus(t, d, s) \/ row'[t] = row[t]
  BY DEF Record
<1>2. row' = [t \in Tables |-> row'[t]]
  BY DEF Record
<1>3. \A t \in Tables : /\ row'[t] \in [Deploys -> Rows]
                        /\ \A e \in Deploys \ {d} : row'[t][e] = row[t][e]
                        /\ row'[t][d].rolledBack = row[t][d].rolledBack
                        /\ row'[t][d].undo = row[t][d].undo
                        /\ row'[t][d].stamp = row[t][d].stamp
                        /\ Exists(t, d)' <=> Exists(t, d)
  <2> SUFFICES ASSUME NEW t \in Tables
               PROVE  /\ row'[t] \in [Deploys -> Rows]
                      /\ \A e \in Deploys \ {d} : row'[t][e] = row[t][e]
                      /\ row'[t][d].rolledBack = row[t][d].rolledBack
                      /\ row'[t][d].undo = row[t][d].undo
                      /\ row'[t][d].stamp = row[t][d].stamp
                      /\ Exists(t, d)' <=> Exists(t, d)
    OBVIOUS
  <2>1. CASE row'[t] = row[t]
    BY <2>1 DEF RowsTyped, RowTables, Exists
  <2>2. CASE row'[t] = WithStatus(t, d, s)
    BY <2>2, WithStatusTyped DEF Exists
  <2> QED BY <1>1, <2>1, <2>2
<1> QED BY <1>2, <1>3 DEF RowTables

\* The stamps of a request.
LEMMA StampTyped ==
  ASSUME NEW u \in Undos
  PROVE  StampOf(u) \in Stamps /\ <<u, "claim">> \in Stamps
BY DEF StampOf, Stamps

\* What a recovery request reports, on the rows that exist.
LEMMA ReportedTyped ==
  ASSUME RowsTyped, NEW u \in Undos, NEW undo \in Undoing, NEW prog \in [Resources -> Outcomes]
  PROVE  LET r == Reported(u, undo, prog)
             d == Target[u] IN
         /\ r \in RowTables
         /\ \A t \in Tables, e \in Deploys \ {d} : r[t][e] = row[t][e]
         /\ \A t \in Tables : /\ r[t][d].status = row[t][d].status
                              /\ r[t][d].rolledBack = row[t][d].rolledBack
                              /\ Exists(t, d) => r[t][d].undo = undo /\ r[t][d].stamp = StampOf(u)
                                                 /\ r[t][d].progress = prog
                              /\ ~Exists(t, d) => r[t][d] = row[t][d]
<1> DEFINE d == Target[u]
           r == Reported(u, undo, prog)
           x(t) == [row[t][d] EXCEPT !.undo = undo, !.stamp = StampOf(u), !.progress = prog]
<1>1. d \in Deploys
  BY UndosAreNamed
<1>2. StampOf(u) \in Stamps
  BY StampTyped
<1>3. \A t \in Tables : row[t] \in [Deploys -> Rows] /\ row[t][d] \in Rows
  BY <1>1 DEF RowsTyped, RowTables
<1>4. \A t \in Tables : /\ x(t) \in Rows /\ x(t).undo = undo /\ x(t).stamp = StampOf(u)
                        /\ x(t).progress = prog /\ x(t).status = row[t][d].status
                        /\ x(t).rolledBack = row[t][d].rolledBack
  BY <1>2, <1>3 DEF Rows, Undoing
<1>5. r = [t \in Tables |-> IF Exists(t, d) THEN [row[t] EXCEPT ![d] = x(t)] ELSE row[t]]
  BY DEF Reported
<1> HIDE DEF d, r, x
<1>6. \A t \in Tables : r[t] \in [Deploys -> Rows]
  BY <1>1, <1>3, <1>4, <1>5
<1>7. r \in RowTables
  BY <1>5, <1>6 DEF RowTables
<1>8. \A t \in Tables, e \in Deploys \ {d} : r[t][e] = row[t][e]
  BY <1>1, <1>3, <1>5
<1>9. \A t \in Tables : r[t][d] = IF Exists(t, d) THEN x(t) ELSE row[t][d]
  BY <1>1, <1>3, <1>5
<1> QED BY <1>4, <1>7, <1>8, <1>9 DEF d, r

\* The end of a recovery: as a report, and both rows agree on rolledBack.
LEMMA ConclusionTyped ==
  ASSUME RowsTyped, NEW u \in Undos
  PROVE  LET r == Conclusion(u)
             d == Target[u] IN
         /\ r \in RowTables
         /\ \A t \in Tables, e \in Deploys \ {d} : r[t][e] = row[t][e]
         /\ \A t \in Tables : /\ r[t][d].status = row[t][d].status
                              /\ Exists(t, d) =>
                                   /\ r[t][d].rolledBack = AllDone(u)
                                   /\ r[t][d].undo = IF AllDone(u) THEN "COMPLETED" ELSE "PARTIAL"
                              /\ ~Exists(t, d) => r[t][d] = row[t][d]
<1> DEFINE d == Target[u]
           undo == IF AllDone(u) THEN "COMPLETED" ELSE "PARTIAL"
           rows == Reported(u, undo, progress[u])
           r == Conclusion(u)
           x(t) == [rows[t][d] EXCEPT !.rolledBack = AllDone(u)]
<1>1. d \in Deploys /\ progress[u] \in [Resources -> Outcomes] /\ AllDone(u) \in BOOLEAN
  BY UndosAreNamed DEF RowsTyped, AllDone
<1>2. undo \in Undoing
  BY DEF Undoing
<1>3. r = [t \in Tables |-> IF Exists(t, d) THEN [rows[t] EXCEPT ![d].rolledBack = AllDone(u)] ELSE rows[t]]
      \/ r = [t \in Tables |-> IF Exists(t, d) THEN [rows[t] EXCEPT ![d].rolledBack = AllDone(u)] ELSE row[t]]
  BY DEF Conclusion
<1> HIDE DEF undo
<1>4. /\ rows \in RowTables
      /\ \A t \in Tables, e \in Deploys \ {d} : rows[t][e] = row[t][e]
      /\ \A t \in Tables : /\ rows[t][d].status = row[t][d].status
                           /\ Exists(t, d) => rows[t][d].undo = undo
                           /\ ~Exists(t, d) => rows[t][d] = row[t][d]
  BY <1>1, <1>2, ReportedTyped
<1> HIDE DEF rows, d, r
<1>5. \A t \in Tables : rows[t] \in [Deploys -> Rows] /\ rows[t][d] \in Rows /\ row[t] \in [Deploys -> Rows]
  BY <1>1, <1>4 DEF RowTables, RowsTyped
<1>6. \A t \in Tables : x(t) \in Rows /\ x(t).rolledBack = AllDone(u) /\ x(t).status = row[t][d].status
                        /\ x(t).undo = rows[t][d].undo
  BY <1>1, <1>4, <1>5 DEF Rows
<1>7. \A t \in Tables : [rows[t] EXCEPT ![d].rolledBack = AllDone(u)] = [rows[t] EXCEPT ![d] = x(t)]
  BY <1>1, <1>5
<1> HIDE DEF x
<1>8. \A t \in Tables : \/ r[t] = [rows[t] EXCEPT ![d] = x(t)]
                        \/ ~Exists(t, d) /\ (r[t] = row[t] \/ r[t] = rows[t])
  BY <1>3, <1>7
<1>9. \A t \in Tables : Exists(t, d) => r[t] = [rows[t] EXCEPT ![d] = x(t)]
  BY <1>3, <1>7
<1>10. r \in RowTables
  <2>1. ASSUME NEW t \in Tables PROVE r[t] \in [Deploys -> Rows]
    <3>1. [rows[t] EXCEPT ![d] = x(t)] \in [Deploys -> Rows]
      BY ONLY <1>1, <1>5, <1>6, <2>1
    <3> QED
      BY ONLY <1>5, <1>8, <2>1, <3>1
  <2> QED BY <1>3, <2>1 DEF RowTables
<1>11. ASSUME NEW t \in Tables, NEW e \in Deploys \ {d} PROVE r[t][e] = row[t][e]
  <2>1. [rows[t] EXCEPT ![d] = x(t)][e] = rows[t][e]
    BY ONLY <1>1, <1>5, <1>11
  <2>2. rows[t][e] = row[t][e]
    BY ONLY <1>4, <1>11
  <2> QED
    BY ONLY <1>8, <1>11, <2>1, <2>2
<1>12. ASSUME NEW t \in Tables
       PROVE  /\ Exists(t, d) => r[t][d] = x(t)
              /\ ~Exists(t, d) => r[t][d] = row[t][d] \/ r[t][d] = x(t)
  <2>1. [rows[t] EXCEPT ![d] = x(t)][d] = x(t)
    BY ONLY <1>1, <1>5, <1>12
  <2>2. ~Exists(t, d) => rows[t][d] = row[t][d]
    BY ONLY <1>4, <1>12
  <2> QED
    BY ONLY <1>8, <1>9, <1>12, <2>1, <2>2
<1>13. \A t \in Tables : ~Exists(t, d) => r[t][d] = row[t][d]
  BY <1>3, <1>4
<1>14. \A t \in Tables : Exists(t, d) => r[t][d].undo = undo
  BY <1>4, <1>6, <1>12
<1> QED BY <1>6, <1>10, <1>11, <1>12, <1>13, <1>14 DEF d, r, undo

\* The reconciliation of a restart keeps every row, rolled back or not.
LEMMA ReconciledTyped ==
  ASSUME RowsTyped
  PROVE  /\ Reconciled \in RowTables
         /\ \A t \in Tables, d \in Deploys :
              /\ Reconciled[t][d].rolledBack = row[t][d].rolledBack
              /\ row[t][d].status # "IN_PROGRESS" => Reconciled[t][d].status = row[t][d].status
              /\ row[t][d].status = "IN_PROGRESS" => Reconciled[t][d].status \notin {"none", "deleted"}
<1>1. \A d \in Deploys : Classified(ledger[d]) \in {"UNCERTAIN", "FAILED"}
  BY DEF Classified
<1>2. \A d \in Deploys : row["sync"][d] \in Rows /\ row["deployment"][d] \in Rows
  BY DEF RowsTyped, RowTables, Tables
<1>3. \A d \in Deploys :
        /\ ReconciledDeployment(d) \in Rows
        /\ ReconciledDeployment(d).rolledBack = row["deployment"][d].rolledBack
        /\ row["deployment"][d].status # "IN_PROGRESS"
             => ReconciledDeployment(d).status = row["deployment"][d].status
        /\ row["deployment"][d].status = "IN_PROGRESS"
             => ReconciledDeployment(d).status \notin {"none", "deleted"}
  BY <1>1, <1>2 DEF ReconciledDeployment, Rows, Statuses
<1>4. \A d \in Deploys :
        /\ ReconciledSync(d) \in Rows
        /\ ReconciledSync(d).rolledBack = row["sync"][d].rolledBack
        /\ row["sync"][d].status # "IN_PROGRESS"
             => ReconciledSync(d).status = row["sync"][d].status
        /\ row["sync"][d].status = "IN_PROGRESS"
             => ReconciledSync(d).status \notin {"none", "deleted"}
  BY <1>1, <1>2 DEF ReconciledSync, Rows, Statuses
<1> QED BY <1>3, <1>4 DEF Reconciled, RowTables, Tables

-----------------------------------------------------------------------------
(***************************************************************************)
(* The endpoint and the rows.  Most steps are gentle to the rows: they     *)
(* change what is noted in a row, and neither whether it exists nor        *)
(* whether it is rolled back.                                              *)
(***************************************************************************)
Gone == {"none", "deleted"}

SameKind(t, d) ==
  /\ row'[t][d].rolledBack = row[t][d].rolledBack
  /\ \/ row'[t][d].status = row[t][d].status
     \/ row[t][d].status \notin Gone /\ row'[t][d].status \notin Gone

Gentle == row' \in RowTables /\ \A t \in Tables, d \in Deploys : SameKind(t, d)

\* Whoever holds the endpoint is at work, and nobody else is.
Exclusive ==
  /\ \A d \in Deploys : holder = d <=> Busy(d)
  /\ \A u \in Undos : holder = u <=> upc[u] = "undoing"

\* The row of a deployment comes after that of its synchronisation, and both
\* are rolled back together.
Together ==
  \A d \in Deploys : Exists("deployment", d) =>
    /\ Exists("sync", d)
    /\ row["sync"][d].rolledBack = row["deployment"][d].rolledBack

\* Before the second row is written there is none, and nobody could have rolled
\* the first one back.
Early ==
  \A d \in Deploys :
    /\ pc[d] \in {"new", "begun", "backed"} => row["deployment"][d].status = "none"
    /\ pc[d] = "backed" => Unrolled("sync", d)

\* Only a history that was there is about to be deleted.
DeletingKnown == \A d \in deleting : row["deployment"][d].status # "none"

\* What a recovery request has read is a row that exists.
PriorKnown == \A u \in Undos : upc[u] # "idle" => prior[u].status \notin Gone

\* A deployment is at work only while nothing of the others is in doubt.
Certain ==
  \A d \in Deploys : Busy(d) =>
    \A e \in Deploys \ {d} : ~(Unverified(e) /\ Recoverable(e))

RowInv ==
  /\ RowsTyped /\ deleting \subseteq Deploys
  /\ Exclusive /\ Together /\ Early /\ DeletingKnown /\ PriorKnown
  /\ Certain /\ EnteredIsClaimed

\* A gentle step keeps what is said of rows alone.
LEMMA GentleKeeps ==
  ASSUME Gentle, UNCHANGED <<ledger, wrote, pc>>, Together, Early, Certain
  PROVE  Together' /\ Early' /\ Certain'
<1>1. \A t \in Tables, d \in Deploys :
        /\ Exists(t, d)' <=> Exists(t, d)
        /\ Unrolled(t, d)' <=> Unrolled(t, d)
        /\ row'[t][d].rolledBack = row[t][d].rolledBack
        /\ row'[t][d].status = "none" <=> row[t][d].status = "none"
  BY DEF Gentle, SameKind, Gone, Exists, Unrolled
<1>2. "sync" \in Tables /\ "deployment" \in Tables
  BY DEF Tables
<1>3. Together'
  BY <1>1, <1>2 DEF Together
<1>4. Early'
  BY <1>1, <1>2 DEF Early
<1>5. Certain'
  <2>1. \A e \in Deploys : (Recoverable(e)' <=> Recoverable(e)) /\ (Unverified(e)' <=> Unverified(e))
    BY <1>1 DEF Recoverable, Unverified
  <2> QED BY <2>1 DEF Certain, Busy
<1> QED BY <1>3, <1>4, <1>5

\* So does it keep the histories about to be deleted, if there are no new ones.
LEMMA GentleKeepsDeleting ==
  ASSUME Gentle, deleting' \subseteq deleting, deleting \subseteq Deploys, DeletingKnown
  PROVE  DeletingKnown' /\ deleting' \subseteq Deploys
<1>1. \A d \in Deploys : row["deployment"][d].status # "none" => row'["deployment"][d].status # "none"
  BY DEF Gentle, SameKind, Gone, Tables
<1> QED BY <1>1 DEF DeletingKnown

\* Doing nothing to the rows is gentle, and so are reports, claims, releases,
\* the records of a deployment and the reconciliation.
LEMMA StillIsGentle == ASSUME RowsTyped, UNCHANGED row PROVE Gentle
BY DEF RowsTyped, Gentle, SameKind

LEMMA ReportIsGentle ==
  ASSUME RowsTyped, NEW u \in Undos, NEW undo \in Undoing, NEW prog \in [Resources -> Outcomes],
         row' = Reported(u, undo, prog)
  PROVE  Gentle
<1>1. Target[u] \in Deploys
  BY UndosAreNamed
<1>2. /\ row' \in RowTables
      /\ \A t \in Tables, e \in Deploys \ {Target[u]} : row'[t][e] = row[t][e]
      /\ \A t \in Tables : /\ row'[t][Target[u]].status = row[t][Target[u]].status
                           /\ row'[t][Target[u]].rolledBack = row[t][Target[u]].rolledBack
  BY ReportedTyped
<1>3. ASSUME NEW t \in Tables, NEW e \in Deploys PROVE SameKind(t, e)
  BY <1>2 DEF SameKind
<1> QED BY <1>2, <1>3 DEF Gentle

\* One row changed in its notes only.
LEMMA NoteIsGentle ==
  ASSUME RowsTyped, NEW t \in Tables, NEW d \in Deploys, NEW x \in Rows,
         x.rolledBack = row[t][d].rolledBack,
         x.status = row[t][d].status \/ {x.status, row[t][d].status} \cap Gone = {},
         row' = [row EXCEPT ![t][d] = x]
  PROVE  Gentle
<1>1. /\ row' \in RowTables
      /\ row'[t][d] = x
      /\ \A s \in Tables, e \in Deploys : (s # t \/ e # d) => row'[s][e] = row[s][e]
  <2>1. LET r == [row EXCEPT ![t][d] = x] IN
        /\ r \in RowTables
        /\ r[t][d] = x
        /\ \A s \in Tables, e \in Deploys : (s # t \/ e # d) => r[s][e] = row[s][e]
    BY ONLY RowExcept, RowsTyped, t \in Tables, d \in Deploys, x \in Rows
  <2> QED BY ONLY <2>1, row' = [row EXCEPT ![t][d] = x]
<1>2. ASSUME NEW s \in Tables, NEW e \in Deploys PROVE SameKind(s, e)
  BY <1>1 DEF SameKind
<1> QED BY <1>1, <1>2 DEF Gentle

LEMMA RecordIsGentle ==
  ASSUME RowsTyped, NEW d \in Deploys, NEW s \in Statuses \ {"none", "deleted"}, Record(d, s)
  PROVE  Gentle
<1>1. /\ row' \in RowTables
      /\ \A t \in Tables, e \in Deploys \ {d} : row'[t][e] = row[t][e]
      /\ \A t \in Tables : row'[t][d].rolledBack = row[t][d].rolledBack
  BY RecordTyped
<1>2. \A t \in Tables : row'[t] = WithStatus(t, d, s) \/ row'[t] = row[t]
  BY DEF Record
<1>3. \A t \in Tables : \/ row'[t][d].status = row[t][d].status
                        \/ row[t][d].status \notin Gone /\ row'[t][d].status \notin Gone
  BY <1>2, WithStatusTyped DEF Exists, Gone
<1>4. ASSUME NEW t \in Tables, NEW e \in Deploys PROVE SameKind(t, e)
  BY <1>1, <1>3 DEF SameKind
<1> QED BY <1>1, <1>4 DEF Gentle

LEMMA ReconciliationIsGentle == ASSUME RowsTyped, row' = Reconciled PROVE Gentle
<1>1. /\ row' \in RowTables
      /\ \A t \in Tables, d \in Deploys :
           /\ row'[t][d].rolledBack = row[t][d].rolledBack
           /\ row[t][d].status # "IN_PROGRESS" => row'[t][d].status = row[t][d].status
           /\ row[t][d].status = "IN_PROGRESS" => row'[t][d].status \notin Gone
  BY ReconciledTyped DEF Gone
<1>2. \A t \in Tables, d \in Deploys : SameKind(t, d)
  BY ONLY <1>1 DEF SameKind, Gone
<1> QED BY <1>1, <1>2 DEF Gentle

-----------------------------------------------------------------------------
(***************************************************************************)
(* Deployments                                                             *)
(***************************************************************************)
LEMMA TablesAre == Tables = {"sync", "deployment"} /\ "sync" \in Tables /\ "deployment" \in Tables
BY DEF Tables

LEMMA InitRows == Init => RowInv
<1> SUFFICES ASSUME Init PROVE RowInv
  OBVIOUS
<1>1. RowsTyped
  <2>1. NoRow \in Rows
    BY NoRowTyped
  <2>2. NoProgress \in [Resources -> Outcomes]
    BY DEF NoProgress, Outcomes
  <2> HIDE DEF NoRow, NoProgress
  <2> QED BY <2>1, <2>2 DEF Init, RowsTyped, RowTables
<1>2. \A t \in Tables, d \in Deploys : row[t][d].status = "none"
  BY DEF Init, NoRow
<1>3. \A d \in Deploys : pc[d] = "new"
  BY DEF Init
<1>4. Exclusive
  BY <1>3, UndosAreNamed DEF Init, Exclusive, Busy
<1>5. Together /\ Early
  BY <1>2, <1>3, TablesAre DEF Together, Early, Exists
<1>6. DeletingKnown /\ PriorKnown /\ EnteredIsClaimed /\ deleting \subseteq Deploys
  BY DEF Init, DeletingKnown, PriorKnown, EnteredIsClaimed
<1>7. Certain
  BY <1>3 DEF Certain, Busy
<1> QED BY <1>1, <1>4, <1>5, <1>6, <1>7 DEF RowInv

\* Whoever is at work works alone.
LEMMA WorksAlone ==
  ASSUME Exclusive, NEW d \in Deploys, Busy(d)
  PROVE  /\ holder = d
         /\ \A e \in Deploys \ {d} : ~Busy(e)
         /\ \A u \in Undos : upc[u] # "undoing"
BY UndosAreNamed DEF Exclusive

\* A deployment begins where nothing of the others is in doubt: the gate finds
\* what is pending, and what is not recorded at all was not written.
LEMMA BeginKeepsRows ==
  ASSUME WriteAheadInv, RowInv, NEW d \in Deploys, Begin(d)
  PROVE  RowInv'
<1> USE DEF RowInv
<1>1. /\ pc[d] = "new" /\ holder = Nobody /\ holder' = d /\ pc' = [pc EXCEPT ![d] = "begun"]
      /\ UNCHANGED <<ledger, wrote, row, upc, prior, progress, deleting>>
  BY DEF Begin, undoVars
<1>2. pc \in [Deploys -> Phases]
  BY DEF WriteAheadInv, LedgersTyped
<1>3. pc'[d] = "begun" /\ \A e \in Deploys \ {d} : pc'[e] = pc[e]
  BY <1>1, <1>2
<1>4. RowsTyped'
  BY <1>1 DEF RowsTyped
<1>5. Exclusive'
  BY <1>1, <1>3, UndosAreNamed DEF Exclusive, Busy
<1>6. Together' /\ DeletingKnown' /\ PriorKnown' /\ deleting' \subseteq Deploys
  BY <1>1 DEF Together, Exists, DeletingKnown, PriorKnown
<1>7. Early'
  BY <1>1, <1>3 DEF Early, Unrolled, Exists
<1>8. EnteredIsClaimed'
  BY <1>1 DEF EnteredIsClaimed, Exists
<1>9. Certain'
  <2>1. \A e \in Deploys : ~(Unverified(e) /\ Recoverable(e))
    <3> SUFFICES ASSUME NEW e \in Deploys, Unverified(e), Recoverable(e) PROVE FALSE
      OBVIOUS
    <3>1. PICK t \in Tables : Unrolled(t, e)
      BY DEF Recoverable
    <3>2. ~HasPending(ledger[e])
      BY <3>1 DEF Begin, GateOpen, Settled
    <3>3. PICK r \in wrote[e] : ledger[e].entry[r].st # "applied"
      BY DEF Unverified
    <3>4. r \in Resources
      BY DEF WriteAheadInv, LedgersTyped
    <3>5. ledger[e].entry[r].st # "none"
      BY DEF WriteAheadInv, WriteAhead
    <3>6. ledger[e].entry[r] \in Entry
      BY <3>4, EntryOf DEF WriteAheadInv, LedgersTyped
    <3>7. ledger[e].entry[r].st = "pending"
      BY <3>3, <3>5, <3>6 DEF Entry
    <3> QED BY <3>2, <3>4, <3>7 DEF HasPending
  <2>2. \A e \in Deploys : (Recoverable(e)' <=> Recoverable(e)) /\ (Unverified(e)' <=> Unverified(e))
    BY <1>1 DEF Recoverable, Unrolled, Exists, Unverified
  <2> QED BY <2>1, <2>2 DEF Certain
<1> QED BY <1>4, <1>5, <1>6, <1>7, <1>8, <1>9

\* The row of d that is added in table t.
AddsRow(t, d) ==
  /\ row' \in RowTables
  /\ row'[t][d].status = "IN_PROGRESS" /\ ~row'[t][d].rolledBack
  /\ row'[t][d].undo = "none"
  /\ \A s \in Tables, e \in Deploys : (s # t \/ e # d) => row'[s][e] = row[s][e]

LEMMA AddRowAdds ==
  ASSUME RowsTyped, NEW t \in Tables, NEW d \in Deploys, AddRow(t, d)
  PROVE  AddsRow(t, d)
<1> DEFINE x == [NoRow EXCEPT !.status = "IN_PROGRESS"]
<1>1. x \in Rows /\ x.status = "IN_PROGRESS" /\ x.rolledBack = FALSE /\ x.undo = "none"
  BY NoRowTyped DEF NoRow
<1>2. row' = [row EXCEPT ![t][d] = x]
  BY DEF AddRow
<1> HIDE DEF x
<1>3. LET r == [row EXCEPT ![t][d] = x] IN
      /\ r \in RowTables
      /\ r[t][d] = x
      /\ \A s \in Tables, e \in Deploys : (s # t \/ e # d) => r[s][e] = row[s][e]
  BY <1>1, RowExcept
<1> QED BY ONLY <1>1, <1>2, <1>3 DEF AddsRow

\* The statuses that a deployment records are those of a row that exists.
LEMMA RecordedStatuses ==
  ASSUME NEW d \in Deploys
  PROVE  /\ FinalStatus(d) \in Statuses \ {"none", "deleted"}
         /\ FailureStatus(d) \in Statuses \ {"none", "deleted"}
         /\ "UNCERTAIN" \in Statuses \ {"none", "deleted"}
BY DEF FinalStatus, FailureStatus, Statuses

\* What a step of a deployment does to the rows, as a function of its phase.
LEMMA WorkOnRows ==
  ASSUME WriteAheadInv, RowInv, NEW d \in Deploys, Work(d)
  PROVE  \/ Gentle /\ pc'[d] \notin {"new", "begun", "backed"}
         \/ pc[d] = "begun" /\ AddsRow("sync", d) /\ pc'[d] \in {"backed", "over"}
         \/ pc[d] = "backed" /\ AddsRow("deployment", d) /\ pc'[d] \in {"formats", "failing"}
<1> USE DEF RowInv
<1>1. pc \in [Deploys -> Phases]
  BY DEF WriteAheadInv, LedgersTyped
<1>2. CASE CreateBackup(d)
  BY <1>1, <1>2, AddRowAdds, TablesAre DEF CreateBackup
<1>3. CASE CreateBackupFails(d)
  BY <1>1, <1>3, AddRowAdds, StillIsGentle, TablesAre DEF CreateBackupFails, Leave
<1>4. CASE CreateHistory(d)
  BY <1>1, <1>4, AddRowAdds, TablesAre DEF CreateHistory
<1>5. CASE CreateHistoryFails(d)
  BY <1>1, <1>5, AddRowAdds, StillIsGentle, TablesAre DEF CreateHistoryFails, Failing
<1>6. CASE \E r \in Resources : Resource(d, r)
  <2>1. UNCHANGED row /\ pc[d] \in {"formats", "naming"}
        /\ (UNCHANGED pc \/ \E x \in {"write", "failing", "finalize"} : pc' = [pc EXCEPT ![d] = x])
    BY <1>6 DEF Resource, KeepFormat, Intend, Changed, Skip, Next1, Failing, Step
  <2> QED BY <1>1, <2>1, StillIsGentle
<1>7. CASE Write(d) \/ WriteFails(d) \/ Identify(d) \/ IdentifyFails(d)
  <2>1. UNCHANGED row
        /\ \E x \in {"verify", "identify", "recheck", "failing"} : pc' = [pc EXCEPT ![d] = x]
    BY <1>7 DEF Write, WriteFails, Identify, IdentifyFails, Failing, Step
  <2> QED BY <1>1, <2>1, StillIsGentle
<1>8. CASE Recheck(d) \/ RecheckFails(d) \/ VerifyFails(d) \/ CaptureFails(d)
  <2>1. UNCHANGED row /\ \E x \in {"write", "failing"} : pc' = [pc EXCEPT ![d] = x]
    BY <1>8 DEF Recheck, RecheckFails, VerifyFails, CaptureFails, Failing, Step
  <2> QED BY <1>1, <2>1, StillIsGentle
<1>9. CASE Verify(d)
  <2>1. UNCHANGED row /\ item[d] \in Formats \cup {Profile, Naming}
    BY <1>9 DEF Verify, Step, WriteAheadInv, LedgersTyped, Resources
  <2>2. \E x \in {"formats", "capture", "finalize"} : pc' = [pc EXCEPT ![d] = x]
    <3>1. CASE item[d] \in Formats
      BY <1>9, <3>1, ResourcesAreDistinct DEF Verify
    <3>2. CASE item[d] = Profile
      BY <1>9, <3>2, ResourcesAreDistinct DEF Verify
    <3>3. CASE item[d] = Naming
      BY <1>9, <3>3, ResourcesAreDistinct DEF Verify
    <3> QED BY <2>1, <3>1, <3>2, <3>3
  <2> QED BY <1>1, <2>1, <2>2, StillIsGentle
<1>10. CASE Capture(d)
  <2>1. UNCHANGED row /\ \E x \in {"naming", "finalize"} : pc' = [pc EXCEPT ![d] = x]
    BY <1>10 DEF Capture, Step
  <2> QED BY <1>1, <2>1, StillIsGentle
<1>11. CASE Finalize(d) \/ FinalizeFails(d) \/ Fail(d)
  <2>1. pc'[d] = "over"
    BY <1>1, <1>11 DEF Finalize, FinalizeFails, Fail, Leave
  <2>2. UNCHANGED row \/ \E s \in Statuses \ {"none", "deleted"} : Record(d, s)
    BY <1>11, RecordedStatuses DEF Finalize, FinalizeFails, Fail
  <2> QED BY <2>1, <2>2, StillIsGentle, RecordIsGentle
<1> QED BY <1>2, <1>3, <1>4, <1>5, <1>6, <1>7, <1>8, <1>9, <1>10, <1>11 DEF Work

\* What a step of a deployment leaves alone, and who holds the endpoint then.
LEMMA WorkFrame ==
  ASSUME WriteAheadInv, RowInv, NEW d \in Deploys, Work(d)
  PROVE  /\ Busy(d)
         /\ UNCHANGED <<upc, prior, progress, deleting>>
         /\ \A e \in Deploys \ {d} : pc'[e] = pc[e] /\ ledger'[e] = ledger[e] /\ wrote'[e] = wrote[e]
         /\ holder' = IF Busy(d)' THEN holder ELSE Nobody
<1>1. pc \in [Deploys -> Phases] /\ ledger \in [Deploys -> Ledger] /\ wrote \in [Deploys -> SUBSET Resources]
  BY DEF WriteAheadInv, LedgersTyped
<1>2. CASE Steps(d)
  <2>1. LedgerStep(d) /\ Busy(d)
    BY <1>2, StepsAreLedgerSteps DEF WriteAheadInv
  <2>2. \A e \in Deploys \ {d} : pc'[e] = pc[e] /\ ledger'[e] = ledger[e] /\ wrote'[e] = wrote[e]
    BY <1>1, <2>1 DEF LedgerStep, Persist, PersistFails
  <2>3. pc'[d] \notin {"new", "over"}
    BY <1>1, <2>1 DEF LedgerStep, Busy
  <2>4. UNCHANGED <<undoVars, deleting, holder>>
    <3>1. CASE CreateBackup(d) \/ CreateHistory(d) \/ CreateHistoryFails(d)
      BY <3>1 DEF CreateBackup, CreateHistory, CreateHistoryFails
    <3>2. CASE \E r \in Resources : Resource(d, r)
      BY <3>2 DEF Resource, KeepFormat, Intend, Changed, Skip, Step
    <3>3. CASE Write(d) \/ WriteFails(d) \/ Identify(d) \/ IdentifyFails(d)
      BY <3>3 DEF Write, WriteFails, Identify, IdentifyFails, Step
    <3>4. CASE Recheck(d) \/ RecheckFails(d) \/ Verify(d) \/ VerifyFails(d)
      BY <3>4 DEF Recheck, RecheckFails, Verify, VerifyFails, Step
    <3>5. CASE Capture(d) \/ CaptureFails(d)
      BY <3>5 DEF Capture, CaptureFails, Step
    <3> QED BY <1>2, <3>1, <3>2, <3>3, <3>4, <3>5 DEF Steps
  <2> QED BY <2>1, <2>2, <2>3, <2>4 DEF undoVars, Busy
<1>3. CASE Ends(d)
  <2>1. /\ Leave(d) /\ UNCHANGED <<ledger, wrote, undoVars, deleting>>
        /\ pc[d] \in {"begun", "finalize", "failing"}
    BY <1>3 DEF Ends, CreateBackupFails, Finalize, FinalizeFails, Fail
  <2>2. pc'[d] = "over" /\ holder' = Nobody /\ \A e \in Deploys \ {d} : pc'[e] = pc[e]
    BY <1>1, <2>1 DEF Leave
  <2> QED BY <2>1, <2>2 DEF undoVars, Busy
<1> QED BY <1>2, <1>3, WorkIsStepsOrEnds

\* A step of a deployment keeps the invariant.
LEMMA WorkKeepsRows ==
  ASSUME WriteAheadInv, RowInv, NEW d \in Deploys, Work(d)
  PROVE  RowInv'
<1> USE DEF RowInv
<1>1. /\ Busy(d) /\ UNCHANGED <<upc, prior, progress, deleting>>
      /\ \A e \in Deploys \ {d} : pc'[e] = pc[e] /\ ledger'[e] = ledger[e] /\ wrote'[e] = wrote[e]
      /\ holder' = IF Busy(d)' THEN holder ELSE Nobody
  BY WorkFrame
<1>2. /\ holder = d
      /\ \A e \in Deploys \ {d} : ~Busy(e) /\ ~Busy(e)'
      /\ \A u \in Undos : upc[u] # "undoing"
  BY <1>1, WorksAlone DEF Busy
<1>3. \/ Gentle /\ pc'[d] \notin {"new", "begun", "backed"}
      \/ pc[d] = "begun" /\ AddsRow("sync", d) /\ pc'[d] \in {"backed", "over"}
      \/ pc[d] = "backed" /\ AddsRow("deployment", d) /\ pc'[d] \in {"formats", "failing"}
  BY WorkOnRows
<1>4. \A t \in Tables, e \in Deploys \ {d} : SameKind(t, e)
  BY <1>3, TablesAre DEF Gentle, AddsRow, SameKind
<1>5. RowsTyped'
  BY <1>1, <1>3 DEF RowsTyped, Gentle, AddsRow
<1>6. Exclusive'
  BY <1>1, <1>2, UndosAreNamed DEF Exclusive
<1>7. EnteredIsClaimed' /\ PriorKnown' /\ deleting' \subseteq Deploys
  <2>1. EnteredIsClaimed'
    BY <1>1, <1>2 DEF EnteredIsClaimed
  <2>2. PriorKnown'
    BY <1>1 DEF PriorKnown
  <2> QED BY <1>1, <2>1, <2>2
<1>8. \A e \in Deploys \ {d}, t \in Tables :
        /\ Exists(t, e)' <=> Exists(t, e)
        /\ Unrolled(t, e)' <=> Unrolled(t, e)
        /\ row'[t][e].rolledBack = row[t][e].rolledBack
        /\ row'[t][e].status = "none" <=> row[t][e].status = "none"
  BY <1>4 DEF SameKind, Gone, Exists, Unrolled
<1>9. Together'
  <2>1. ASSUME NEW e \in Deploys \ {d}, Exists("deployment", e)'
        PROVE  Exists("sync", e)' /\ row'["sync"][e].rolledBack = row'["deployment"][e].rolledBack
    BY <1>8, <2>1, TablesAre DEF Together
  <2>2. ASSUME Exists("deployment", d)'
        PROVE  Exists("sync", d)' /\ row'["sync"][d].rolledBack = row'["deployment"][d].rolledBack
    <3>1. CASE Gentle
      BY <2>2, <3>1, TablesAre DEF Together, Gentle, SameKind, Gone, Exists
    <3>2. CASE pc[d] = "begun" /\ AddsRow("sync", d)
      <4>1. row["deployment"][d].status = "none"
        BY <3>2 DEF Early
      <4> QED BY <2>2, <3>2, <4>1, TablesAre DEF AddsRow, Exists
    <3>3. CASE pc[d] = "backed" /\ AddsRow("deployment", d)
      <4>1. Unrolled("sync", d) /\ row'["sync"][d] = row["sync"][d]
        BY <3>3, TablesAre DEF Early, AddsRow
      <4>2. row["sync"][d] \in Rows /\ row'["deployment"][d] \in Rows
        BY <1>5, TablesAre DEF RowsTyped, RowTables
      <4>3. row["sync"][d].rolledBack = FALSE /\ row'["deployment"][d].rolledBack = FALSE
        BY <3>3, <4>1, <4>2, RowFields DEF Unrolled, AddsRow
      <4> QED BY <4>1, <4>3 DEF Unrolled, Exists
    <3> QED BY <1>3, <3>1, <3>2, <3>3
  <2> QED BY <2>1, <2>2 DEF Together
<1>10. Early'
  <2>1. ASSUME NEW e \in Deploys \ {d}
        PROVE  /\ pc'[e] \in {"new", "begun", "backed"} => row'["deployment"][e].status = "none"
               /\ pc'[e] = "backed" => Unrolled("sync", e)'
    BY <1>1, <1>8, <2>1, TablesAre DEF Early
  <2>2. /\ pc'[d] \in {"new", "begun", "backed"} => row'["deployment"][d].status = "none"
        /\ pc'[d] = "backed" => Unrolled("sync", d)'
    BY <1>3, TablesAre DEF Early, AddsRow, Unrolled, Exists
  <2> QED BY <2>1, <2>2 DEF Early
<1>11. DeletingKnown'
  <2>1. \A e \in Deploys : row["deployment"][e].status # "none" => row'["deployment"][e].status # "none"
    BY <1>3, TablesAre DEF Gentle, SameKind, Gone, AddsRow
  <2> QED BY <1>1, <2>1 DEF DeletingKnown
<1>12. Certain'
  <2>1. \A e \in Deploys \ {d} : Unverified(e)' /\ Recoverable(e)' => Unverified(e) /\ Recoverable(e)
    BY <1>1, <1>8 DEF Unverified, Recoverable
  <2> QED BY <1>1, <1>2, <2>1 DEF Certain
<1> QED BY <1>5, <1>6, <1>7, <1>9, <1>10, <1>11, <1>12

-----------------------------------------------------------------------------
(***************************************************************************)
(* Recovery requests                                                       *)
(***************************************************************************)

\* A request takes the endpoint, leaves it, or is not inside it.
LEMMA RequestExclusive ==
  ASSUME RowsTyped, Exclusive, NEW u \in Undos, NEW x, upc' = [upc EXCEPT ![u] = x], UNCHANGED pc,
         \/ holder' = holder /\ (upc[u] = "undoing" <=> x = "undoing")
         \/ holder = Nobody /\ holder' = u /\ x = "undoing"
         \/ upc[u] = "undoing" /\ holder' = Nobody /\ x # "undoing"
  PROVE  Exclusive'
<1>1. upc'[u] = x /\ \A v \in Undos \ {u} : upc'[v] = upc[v]
  BY DEF RowsTyped
<1>2. \A d \in Deploys : Busy(d)' <=> Busy(d)
  BY DEF Busy
<1> QED BY <1>1, <1>2, UndosAreNamed DEF Exclusive

\* What it has read stays.
LEMMA RequestPriorKnown ==
  ASSUME RowsTyped, PriorKnown, NEW u \in Undos, NEW x, upc' = [upc EXCEPT ![u] = x],
         \/ x = "idle" /\ (\A v \in Undos \ {u} : prior'[v] = prior[v])
         \/ prior' = prior /\ upc[u] # "idle"
  PROVE  PriorKnown'
<1>1. upc'[u] = x /\ \A v \in Undos \ {u} : upc'[v] = upc[v]
  BY DEF RowsTyped
<1> QED BY <1>1 DEF PriorKnown

\* The local state of a request that is over.
LEMMA IdleTyped ==
  ASSUME RowsTyped, NEW u \in Undos, Idle(u)
  PROVE  /\ prior' \in [Undos -> Rows]
         /\ progress' \in [Undos -> [Resources -> Outcomes]]
         /\ upc' \in [Undos -> {"idle", "looked", "claimed", "undoing", "releasing"}]
         /\ upc' = [upc EXCEPT ![u] = "idle"]
         /\ \A v \in Undos \ {u} : prior'[v] = prior[v]
<1>1. NoRow \in Rows
  BY NoRowTyped
<1>2. NoProgress \in [Resources -> Outcomes]
  BY DEF NoProgress, Outcomes
<1> HIDE DEF NoRow, NoProgress
<1> QED BY <1>1, <1>2 DEF RowsTyped, Idle

\* A request that enters or leaves without touching the rows of others keeps
\* the claims of those that have entered: nobody else is inside.
LEMMA EnteredAlone ==
  ASSUME Exclusive, NEW u \in Undos, upc[u] = "undoing"
  PROVE  /\ \A v \in Undos \ {u} : upc[v] # "undoing"
         /\ \A d \in Deploys : ~Busy(d)
         /\ holder = u
BY UndosAreNamed DEF Exclusive

LEMMA NobodyInside ==
  ASSUME Exclusive, holder = Nobody
  PROVE  (\A v \in Undos : upc[v] # "undoing") /\ (\A d \in Deploys : ~Busy(d))
BY UndosAreNamed DEF Exclusive

\* A gentle step of a request keeps the invariant, if it keeps what concerns
\* requests.
LEMMA GentleRequest ==
  ASSUME RowInv, Gentle, UNCHANGED <<ledger, wrote, pc, deleting>>,
         RowsTyped', Exclusive', PriorKnown', EnteredIsClaimed'
  PROVE  RowInv'
<1>1. Together' /\ Early' /\ Certain'
  BY GentleKeeps DEF RowInv
<1>2. DeletingKnown' /\ deleting' \subseteq Deploys
  BY GentleKeepsDeleting DEF RowInv
<1> QED BY <1>1, <1>2 DEF RowInv

LEMMA LookUpKeeps == ASSUME RowInv, NEW u \in Undos, LookUp(u) PROVE RowInv'
<1> USE DEF RowInv
<1>1. /\ upc[u] = "idle" /\ upc' = [upc EXCEPT ![u] = "looked"] /\ prior' = [prior EXCEPT ![u] = Own(u)]
      /\ UNCHANGED <<row, ledger, wrote, pc, deleting, holder, progress>>
      /\ Unrolled(Table[u], Target[u])
  BY DEF LookUp, deployVars
<1>2. Own(u) \in Rows /\ Own(u).status \notin Gone
  <2>1. Table[u] \in Tables /\ Target[u] \in Deploys
    BY UndosAreNamed
  <2>2. Own(u) \in Rows
    BY <2>1 DEF Own, RowsTyped, RowTables
  <2> QED BY <1>1, <2>2 DEF Own, Unrolled, Exists, Gone
<1>3. Gentle
  BY <1>1, StillIsGentle
<1>4. RowsTyped'
  BY <1>1, <1>2 DEF RowsTyped
<1>5. Exclusive'
  BY <1>1, RequestExclusive
<1>6. PriorKnown'
  BY <1>1, <1>2 DEF PriorKnown, RowsTyped
<1>7. EnteredIsClaimed'
  BY <1>1 DEF EnteredIsClaimed, Exists, RowsTyped
<1> QED BY <1>1, <1>3, <1>4, <1>5, <1>6, <1>7, GentleRequest

\* A request that gives up before it has claimed or entered.
LEMMA GivingUpKeeps ==
  ASSUME RowInv, NEW u \in Undos, ClaimRefused(u) \/ EnterTooLate(u) \/ ReleaseFails(u)
  PROVE  RowInv'
<1> USE DEF RowInv
<1>1. /\ upc[u] # "undoing" /\ Idle(u)
      /\ UNCHANGED <<row, ledger, wrote, pc, deleting, holder>>
  BY DEF ClaimRefused, EnterTooLate, ReleaseFails, deployVars
<1>2. /\ prior' \in [Undos -> Rows]
      /\ progress' \in [Undos -> [Resources -> Outcomes]]
      /\ upc' \in [Undos -> {"idle", "looked", "claimed", "undoing", "releasing"}]
      /\ upc' = [upc EXCEPT ![u] = "idle"]
      /\ \A v \in Undos \ {u} : prior'[v] = prior[v]
  BY <1>1, IdleTyped
<1>3. Gentle
  BY <1>1, StillIsGentle
<1>4. RowsTyped'
  BY <1>1, <1>2 DEF RowsTyped
<1>5. Exclusive'
  BY <1>1, <1>2, RequestExclusive
<1>6. PriorKnown'
  BY <1>2, RequestPriorKnown
<1>7. EnteredIsClaimed'
  BY <1>1, <1>2 DEF EnteredIsClaimed, Exists, RowsTyped
<1> QED BY <1>1, <1>3, <1>4, <1>5, <1>6, <1>7, GentleRequest

\* A claim is made on a row that is not claimed: not on those of a request that
\* has entered.
LEMMA ClaimKeeps == ASSUME RowInv, NEW u \in Undos, Claim(u) PROVE RowInv'
<1> USE DEF RowInv
<1> DEFINE t == Table[u]
           d == Target[u]
           x == [row[t][d] EXCEPT !.undo = "IN_PROGRESS", !.stamp = <<u, "claim">>]
<1>1. t \in Tables /\ d \in Deploys
  BY UndosAreNamed
<1>2. /\ upc[u] = "looked" /\ upc' = [upc EXCEPT ![u] = "claimed"] /\ Claimable(t, d)
      /\ row' = [row EXCEPT ![t][d].undo = "IN_PROGRESS", ![t][d].stamp = <<u, "claim">>]
      /\ UNCHANGED <<ledger, wrote, pc, deleting, holder, prior, progress>>
  BY DEF Claim, deployVars
<1>3. row \in RowTables /\ row[t][d] \in Rows
  BY <1>1 DEF RowsTyped, RowTables
<1>4. x \in Rows /\ x.status = row[t][d].status /\ x.rolledBack = row[t][d].rolledBack
  BY <1>3, StampTyped DEF Rows
<1>5. row' = [row EXCEPT ![t][d] = x]
  BY <1>1, <1>2, <1>3 DEF RowTables
<1> HIDE DEF t, d, x
<1>6. LET r == [row EXCEPT ![t][d] = x] IN
      /\ r \in RowTables
      /\ r[t][d] = x
      /\ \A s \in Tables, e \in Deploys : (s # t \/ e # d) => r[s][e] = row[s][e]
  BY <1>1, <1>4, RowExcept
<1>7. row' \in RowTables /\ \A s \in Tables, e \in Deploys : (s # t \/ e # d) => row'[s][e] = row[s][e]
  BY ONLY <1>5, <1>6
<1>8. Gentle
  BY <1>1, <1>4, <1>5, NoteIsGentle
<1>9. RowsTyped'
  BY <1>2, <1>7 DEF RowsTyped
<1>10. Exclusive'
  BY <1>2, RequestExclusive
<1>11. PriorKnown'
  BY <1>2, RequestPriorKnown
<1>12. EnteredIsClaimed'
  <2> SUFFICES ASSUME NEW v \in Undos, upc'[v] = "undoing", NEW s \in Tables, Exists(s, Target[v])'
               PROVE  row'[s][Target[v]].undo = "IN_PROGRESS" /\ row'[s][Target[v]].stamp = StampOf(v)
    BY DEF EnteredIsClaimed, StampOf
  <2>1. upc[v] = "undoing" /\ Target[v] \in Deploys
    BY <1>2, UndosAreNamed DEF RowsTyped
  <2>2. Exists(s, Target[v])
    BY <1>8, <2>1 DEF Gentle, SameKind, Gone, Exists
  <2>3. row[s][Target[v]].undo = "IN_PROGRESS" /\ row[s][Target[v]].stamp = StampOf(v)
    BY <2>1, <2>2 DEF EnteredIsClaimed
  <2>4. s # t \/ Target[v] # d
    BY <1>2, <2>3 DEF Claimable
  <2> QED BY <1>7, <2>1, <2>3, <2>4
<1> QED BY <1>2, <1>8, <1>9, <1>10, <1>11, <1>12, GentleRequest

\* Reports of the request that is inside, or about to be: they are gentle, and
\* they claim both rows under its stamp.
LEMMA ReportClaims ==
  ASSUME RowsTyped, NEW u \in Undos, NEW prog \in [Resources -> Outcomes],
         row' = Reported(u, "IN_PROGRESS", prog)
  PROVE  /\ Gentle
         /\ row' \in RowTables
         /\ \A t \in Tables : Exists(t, Target[u])' =>
              row'[t][Target[u]].undo = "IN_PROGRESS" /\ row'[t][Target[u]].stamp = StampOf(u)
<1>1. "IN_PROGRESS" \in Undoing
  BY DEF Undoing
<1>2. Gentle
  BY <1>1, ReportIsGentle
<1>3. Target[u] \in Deploys
  BY UndosAreNamed
<1>4. /\ row' \in RowTables
      /\ \A t \in Tables : /\ row'[t][Target[u]].status = row[t][Target[u]].status
                           /\ Exists(t, Target[u]) =>
                                /\ row'[t][Target[u]].undo = "IN_PROGRESS"
                                /\ row'[t][Target[u]].stamp = StampOf(u)
  BY <1>1, ReportedTyped
<1>5. \A t \in Tables : Exists(t, Target[u])' <=> Exists(t, Target[u])
  BY <1>2, <1>3 DEF Gentle, SameKind, Gone, Exists
<1> QED BY <1>2, <1>4, <1>5

LEMMA OwnTyped ==
  ASSUME RowsTyped, NEW u \in Undos
  PROVE  Table[u] \in Tables /\ Target[u] \in Deploys /\ Own(u) \in Rows
         /\ Own(u).progress \in [Resources -> Outcomes]
<1>1. Table[u] \in Tables /\ Target[u] \in Deploys
  BY UndosAreNamed
<1>2. Own(u) \in Rows
  BY <1>1 DEF Own, RowsTyped, RowTables
<1> QED BY <1>1, <1>2, RowFields

LEMMA EnterKeeps == ASSUME RowInv, NEW u \in Undos, Enter(u) PROVE RowInv'
<1> USE DEF RowInv
<1>1. /\ upc[u] = "claimed" /\ upc' = [upc EXCEPT ![u] = "undoing"]
      /\ holder = Nobody /\ holder' = u
      /\ row' = Reported(u, "IN_PROGRESS", Own(u).progress)
      /\ progress' = [progress EXCEPT ![u] = Own(u).progress]
      /\ UNCHANGED <<ledger, wrote, pc, deleting, prior>>
  BY DEF Enter, deployVars
<1>2. Own(u).progress \in [Resources -> Outcomes]
  BY OwnTyped
<1>3. /\ Gentle
      /\ row' \in RowTables
      /\ \A t \in Tables : Exists(t, Target[u])' =>
           row'[t][Target[u]].undo = "IN_PROGRESS" /\ row'[t][Target[u]].stamp = StampOf(u)
  BY <1>1, <1>2, ReportClaims
<1>4. RowsTyped'
  BY <1>1, <1>2, <1>3 DEF RowsTyped
<1>5. Exclusive'
  BY <1>1, RequestExclusive
<1>6. PriorKnown'
  BY <1>1, RequestPriorKnown
<1>7. \A v \in Undos : upc'[v] = "undoing" => v = u
  BY <1>1, NobodyInside DEF RowsTyped
<1>8. EnteredIsClaimed'
  BY <1>3, <1>7 DEF EnteredIsClaimed, StampOf
<1> QED BY <1>1, <1>3, <1>4, <1>5, <1>6, <1>8, GentleRequest

LEMMA EnterFailsKeeps == ASSUME RowInv, NEW u \in Undos, EnterFails(u) PROVE RowInv'
<1> USE DEF RowInv
<1>1. /\ upc[u] = "claimed" /\ upc' = [upc EXCEPT ![u] = "releasing"]
      /\ \/ UNCHANGED row
         \/ holder = Nobody /\ row' = Reported(u, "IN_PROGRESS", Own(u).progress)
      /\ UNCHANGED <<ledger, wrote, pc, deleting, prior, progress, holder>>
  BY DEF EnterFails, deployVars
<1>2. Own(u).progress \in [Resources -> Outcomes]
  BY OwnTyped
<1>3. Gentle
  BY <1>1, <1>2, ReportClaims, StillIsGentle
<1>4. RowsTyped'
  BY <1>1, <1>3 DEF RowsTyped, Gentle
<1>5. Exclusive'
  BY <1>1, RequestExclusive
<1>6. PriorKnown'
  BY <1>1, RequestPriorKnown
<1>7. EnteredIsClaimed'
  <2>1. \A v \in Undos : upc'[v] = "undoing" => upc[v] = "undoing"
    BY <1>1 DEF RowsTyped
  <2>2. CASE UNCHANGED row
    BY <2>1, <2>2 DEF EnteredIsClaimed, Exists
  <2>3. CASE holder = Nobody
    BY <2>1, <2>3, NobodyInside DEF EnteredIsClaimed
  <2> QED BY <1>1, <2>2, <2>3
<1> QED BY <1>1, <1>3, <1>4, <1>5, <1>6, <1>7, GentleRequest

\* The outcomes of a check.
LEMMA OutcomeTyped ==
  ASSUME NEW u \in Undos, NEW r \in Resources
  PROVE  Outcome(Target[u], r) \in Outcomes /\ "failed" \in Outcomes
BY DEF Outcome, Outcomes

LEMMA CheckResourceKeeps ==
  ASSUME RowInv, NEW u \in Undos, NEW r \in Resources, CheckResource(u, r)
  PROVE  RowInv'
<1> USE DEF RowInv
<1>1. PICK outcome \in {Outcome(Target[u], r), "failed"} :
        /\ Check(u, r, outcome)
        /\ row' = Reported(u, "IN_PROGRESS", progress'[u])
        /\ UNCHANGED <<ledger, wrote, pc, deleting, prior, upc, holder>>
  BY DEF CheckResource, deployVars
<1>2. /\ upc[u] = "undoing"
      /\ progress' = [progress EXCEPT ![u][r] = outcome]
  BY <1>1 DEF Check, NextUndo
<1>3. outcome \in Outcomes
  BY OutcomeTyped
<1>4. /\ progress' \in [Undos -> [Resources -> Outcomes]]
      /\ progress'[u] \in [Resources -> Outcomes]
  BY <1>2, <1>3 DEF RowsTyped
<1>5. /\ Gentle
      /\ row' \in RowTables
      /\ \A t \in Tables : Exists(t, Target[u])' =>
           row'[t][Target[u]].undo = "IN_PROGRESS" /\ row'[t][Target[u]].stamp = StampOf(u)
  BY <1>1, <1>4, ReportClaims
<1>6. RowsTyped'
  BY <1>1, <1>4, <1>5 DEF RowsTyped
<1>7. Exclusive'
  BY <1>1 DEF Exclusive, Busy
<1>8. PriorKnown'
  BY <1>1 DEF PriorKnown
<1>9. EnteredIsClaimed'
  BY <1>1, <1>2, <1>5, EnteredAlone DEF EnteredIsClaimed, StampOf
<1> QED BY <1>1, <1>5, <1>6, <1>7, <1>8, <1>9, GentleRequest

LEMMA CheckUnreportedKeeps ==
  ASSUME RowInv, NEW u \in Undos, NEW r \in Resources, CheckUnreported(u, r)
  PROVE  RowInv'
<1> USE DEF RowInv
<1>1. /\ Check(u, r, Outcome(Target[u], r))
      /\ UNCHANGED row \/ row' = Reported(u, "IN_PROGRESS", progress'[u])
      /\ holder' = Nobody
      /\ upc' = [upc EXCEPT ![u] = "releasing"]
      /\ UNCHANGED <<ledger, wrote, pc, deleting, prior>>
  BY DEF CheckUnreported, deployVars
<1>2. /\ upc[u] = "undoing"
      /\ progress' = [progress EXCEPT ![u][r] = Outcome(Target[u], r)]
  BY <1>1 DEF Check, NextUndo
<1>3. Outcome(Target[u], r) \in Outcomes
  BY OutcomeTyped
<1>4. /\ progress' \in [Undos -> [Resources -> Outcomes]]
      /\ progress'[u] \in [Resources -> Outcomes]
  BY <1>2, <1>3 DEF RowsTyped
<1>5. Gentle
  BY <1>1, <1>4, ReportClaims, StillIsGentle
<1>6. RowsTyped'
  BY <1>1, <1>4, <1>5 DEF RowsTyped, Gentle
<1>7. Exclusive'
  BY <1>1, <1>2, RequestExclusive
<1>8. PriorKnown'
  BY <1>1, <1>2, RequestPriorKnown
<1>9. EnteredIsClaimed'
  BY <1>1, <1>2, EnteredAlone DEF EnteredIsClaimed, RowsTyped
<1> QED BY <1>1, <1>5, <1>6, <1>7, <1>8, <1>9, GentleRequest

\* What a release writes is a row that exists and is not rolled back.
LEMMA ReleasedTyped ==
  ASSUME RowsTyped, PriorKnown, NEW u \in Undos, upc[u] = "releasing", StillClaimed(u)
  PROVE  /\ Released(u) \in Rows
         /\ Released(u).rolledBack = Own(u).rolledBack
         /\ {Released(u).status, Own(u).status} \cap Gone = {}
<1>1. Own(u) \in Rows /\ prior[u] \in Rows
  BY OwnTyped DEF RowsTyped
<1>2. prior[u].status \notin Gone /\ Own(u).status \notin Gone
  BY DEF PriorKnown, StillClaimed, Unrolled, Exists, Own, Gone
<1>3. /\ prior[u].status \in Statuses /\ prior[u].undo \in Undoing /\ prior[u].stamp \in Stamps
      /\ prior[u].progress \in [Resources -> Outcomes]
  BY <1>1, RowFields
<1>4. "PARTIAL_UNDEPLOY" \in Statuses \ Gone /\ "PARTIAL" \in Undoing
  BY DEF Statuses, Gone, Undoing
<1>5. CASE attempted[u]
  BY <1>1, <1>2, <1>4, <1>5 DEF Released, Rows, Undoing
<1>6. CASE ~attempted[u]
  BY <1>1, <1>2, <1>3, <1>6 DEF Released, Rows, Undoing
<1> QED BY <1>5, <1>6

\* A release changes the row of its own claim only, which is not the one of a
\* request that has entered.
LEMMA ReleaseKeeps == ASSUME RowInv, NEW u \in Undos, Release(u) PROVE RowInv'
<1> USE DEF RowInv
<1> DEFINE t == Table[u]
           d == Target[u]
           x == Released(u)
<1>1. t \in Tables /\ d \in Deploys
  BY OwnTyped
<1>2. /\ upc[u] = "releasing" /\ Idle(u)
      /\ \/ UNCHANGED row
         \/ StillClaimed(u) /\ row' = [row EXCEPT ![t][d] = x]
      /\ UNCHANGED <<ledger, wrote, pc, deleting, holder>>
  BY DEF Release, deployVars
<1>3. /\ prior' \in [Undos -> Rows]
      /\ progress' \in [Undos -> [Resources -> Outcomes]]
      /\ upc' \in [Undos -> {"idle", "looked", "claimed", "undoing", "releasing"}]
      /\ upc' = [upc EXCEPT ![u] = "idle"]
      /\ \A v \in Undos \ {u} : prior'[v] = prior[v]
  BY <1>2, IdleTyped
<1>4. ASSUME StillClaimed(u), row' = [row EXCEPT ![t][d] = x]
      PROVE  Gentle /\ \A s \in Tables, e \in Deploys : (s # t \/ e # d) => row'[s][e] = row[s][e]
  <2>1. x \in Rows /\ x.rolledBack = row[t][d].rolledBack /\ {x.status, row[t][d].status} \cap Gone = {}
    BY <1>2, <1>4, ReleasedTyped DEF Own
  <2> HIDE DEF t, d, x
  <2>2. Gentle
    BY <1>1, <1>4, <2>1, NoteIsGentle
  <2>3. LET r == [row EXCEPT ![t][d] = x] IN
        /\ r \in RowTables
        /\ r[t][d] = x
        /\ \A s \in Tables, e \in Deploys : (s # t \/ e # d) => r[s][e] = row[s][e]
    BY <1>1, <2>1, RowExcept
  <2>4. row' = [row EXCEPT ![t][d] = x]
    BY <1>4
  <2>5. \A s \in Tables, e \in Deploys : (s # t \/ e # d) => row'[s][e] = row[s][e]
    BY ONLY <2>3, <2>4
  <2> QED BY <2>2, <2>5
<1>5. Gentle
  BY <1>2, <1>4, StillIsGentle
<1>6. RowsTyped'
  BY <1>3, <1>5 DEF RowsTyped, Gentle
<1>7. Exclusive'
  BY <1>2, <1>3, RequestExclusive
<1>8. PriorKnown'
  BY <1>3, RequestPriorKnown
<1>9. EnteredIsClaimed'
  <2> SUFFICES ASSUME NEW v \in Undos, upc'[v] = "undoing", NEW s \in Tables, Exists(s, Target[v])'
               PROVE  row'[s][Target[v]].undo = "IN_PROGRESS" /\ row'[s][Target[v]].stamp = StampOf(v)
    BY DEF EnteredIsClaimed, StampOf
  <2>1. upc[v] = "undoing" /\ Target[v] \in Deploys /\ v # u
    BY <1>2, <1>3, UndosAreNamed DEF RowsTyped
  <2>2. Exists(s, Target[v])
    BY <1>5, <2>1 DEF Gentle, SameKind, Gone, Exists
  <2>3. row[s][Target[v]].undo = "IN_PROGRESS" /\ row[s][Target[v]].stamp = StampOf(v)
    BY <2>1, <2>2 DEF EnteredIsClaimed
  <2>4. CASE UNCHANGED row
    BY <2>3, <2>4
  <2>5. CASE StillClaimed(u) /\ row' = [row EXCEPT ![t][d] = x]
    <3>1. row[t][d].stamp = <<u, "claim">>
      BY <2>5 DEF StillClaimed, Own
    <3>2. StampOf(v) # <<u, "claim">>
      BY <2>1 DEF StampOf
    <3>3. s # t \/ Target[v] # d
      BY <2>3, <3>1, <3>2
    <3> QED BY <1>4, <2>1, <2>3, <2>5, <3>3
  <2> QED BY <1>2, <2>4, <2>5
<1> QED BY <1>2, <1>5, <1>6, <1>7, <1>8, <1>9, GentleRequest

\* The end of a recovery, recorded or not.
LEMMA FinishKeeps ==
  ASSUME RowInv, NEW u \in Undos, Finish(u) \/ FinishFails(u)
  PROVE  RowInv'
<1> USE DEF RowInv
<1>1. /\ upc[u] = "undoing" /\ holder' = Nobody
      /\ UNCHANGED row \/ row' = Conclusion(u)
      /\ UNCHANGED <<ledger, wrote, pc, deleting>>
      /\ Idle(u) \/ (upc' = [upc EXCEPT ![u] = "releasing"] /\ UNCHANGED <<prior, progress>>)
  BY DEF Finish, FinishFails, deployVars
<1>2. /\ prior' \in [Undos -> Rows]
      /\ progress' \in [Undos -> [Resources -> Outcomes]]
      /\ upc' \in [Undos -> {"idle", "looked", "claimed", "undoing", "releasing"}]
      /\ \/ upc' = [upc EXCEPT ![u] = "idle"] /\ \A v \in Undos \ {u} : prior'[v] = prior[v]
         \/ upc' = [upc EXCEPT ![u] = "releasing"] /\ UNCHANGED prior
  BY <1>1, IdleTyped DEF RowsTyped
<1>3. /\ \A v \in Undos \ {u} : upc[v] # "undoing"
      /\ \A d \in Deploys : ~Busy(d)
  BY <1>1, EnteredAlone
<1>4. Target[u] \in Deploys /\ row \in RowTables
  BY OwnTyped DEF RowsTyped
<1>5. /\ row' \in RowTables
      /\ \A t \in Tables, d \in Deploys : row'[t][d].status = row[t][d].status
      /\ \A t \in Tables, d \in Deploys \ {Target[u]} : row'[t][d] = row[t][d]
      /\ \/ UNCHANGED row
         \/ \A t \in Tables : Exists(t, Target[u]) => row'[t][Target[u]].rolledBack = AllDone(u)
  <2>1. CASE UNCHANGED row
    BY <1>4, <2>1
  <2>2. CASE row' = Conclusion(u)
    <3>1. /\ row' \in RowTables
          /\ \A t \in Tables, e \in Deploys \ {Target[u]} : row'[t][e] = row[t][e]
          /\ \A t \in Tables : /\ row'[t][Target[u]].status = row[t][Target[u]].status
                               /\ Exists(t, Target[u]) => row'[t][Target[u]].rolledBack = AllDone(u)
      BY <2>2, ConclusionTyped
    <3>2. \A t \in Tables, d \in Deploys : row'[t][d].status = row[t][d].status
      BY <1>4, <3>1
    <3> QED BY <3>1, <3>2
  <2> QED BY <1>1, <2>1, <2>2
<1>6. RowsTyped'
  BY <1>2, <1>5 DEF RowsTyped
<1>7. Exclusive'
  BY <1>1, <1>2, RequestExclusive
<1>8. PriorKnown'
  BY <1>1, <1>2, RequestPriorKnown
<1>9. EnteredIsClaimed'
  BY <1>2, <1>3 DEF EnteredIsClaimed, RowsTyped
<1>10. Together'
  <2>1. ASSUME NEW d \in Deploys, Exists("deployment", d)'
        PROVE  Exists("sync", d)' /\ row'["sync"][d].rolledBack = row'["deployment"][d].rolledBack
    <3>1. Exists("deployment", d) /\ Exists("sync", d) /\ Exists("sync", d)'
          /\ row["sync"][d].rolledBack = row["deployment"][d].rolledBack
      BY <1>5, <2>1, TablesAre DEF Together, Exists
    <3> QED BY <1>5, <3>1, TablesAre
  <2> QED BY <2>1 DEF Together
<1>11. Early'
  BY <1>1, <1>3, <1>5, TablesAre DEF Early, Busy
<1>12. DeletingKnown' /\ deleting' \subseteq Deploys
  BY <1>1, <1>5, TablesAre DEF DeletingKnown
<1>13. Certain'
  BY <1>1, <1>3 DEF Certain, Busy
<1> QED BY <1>6, <1>7, <1>8, <1>9, <1>10, <1>11, <1>12, <1>13

LEMMA RecoverKeeps == ASSUME RowInv, NEW u \in Undos, Recover(u) PROVE RowInv'
BY CheckResourceKeeps, CheckUnreportedKeeps, FinishKeeps, ReleaseKeeps, GivingUpKeeps DEF Recover

-----------------------------------------------------------------------------
(***************************************************************************)
(* Deletions, users and restarts                                           *)
(***************************************************************************)
\* What RowInv speaks of, but for the histories about to be deleted.
rowVars == <<row, ledger, wrote, pc, holder, upc, prior, progress>>

LEMMA FrameKeeps ==
  ASSUME RowInv, UNCHANGED rowVars, DeletingKnown', deleting' \subseteq Deploys
  PROVE  RowInv'
<1> USE DEF rowVars
<1>1. RowsTyped'
  BY DEF RowInv, RowsTyped
<1>2. Exclusive' /\ PriorKnown'
  BY DEF RowInv, Exclusive, Busy, PriorKnown
<1>3. Together' /\ Early' /\ EnteredIsClaimed'
  BY DEF RowInv, Together, Early, EnteredIsClaimed, Unrolled, Exists
<1>4. Certain'
  <2>1. \A e \in Deploys : (Recoverable(e)' <=> Recoverable(e)) /\ (Unverified(e)' <=> Unverified(e))
    BY DEF Recoverable, Unrolled, Exists, Unverified
  <2> QED BY <2>1 DEF RowInv, Certain, Busy
<1> QED BY <1>1, <1>2, <1>3, <1>4 DEF RowInv

LEMMA CheckDeleteKeeps == ASSUME RowInv, NEW d \in Deploys, CheckDelete(d) PROVE RowInv'
<1>1. /\ UNCHANGED rowVars
      /\ deleting' = deleting \cup {d}
      /\ row["deployment"][d].status # "none"
  BY DEF CheckDelete, Exists, rowVars, deployVars, undoVars
<1>2. DeletingKnown' /\ deleting' \subseteq Deploys
  BY <1>1 DEF RowInv, DeletingKnown, rowVars
<1> QED BY <1>1, <1>2, FrameKeeps

\* A deletion takes away the row of a deployment whose two rows were written:
\* nothing becomes recoverable by it, and nobody works before that row.
LEMMA DeleteKeeps == ASSUME RowInv, NEW d \in Deploys, Delete(d) PROVE RowInv'
<1> USE DEF RowInv
<1> DEFINE x == [NoRow EXCEPT !.status = "deleted"]
<1>1. /\ d \in deleting /\ deleting' = deleting \ {d}
      /\ UNCHANGED <<ledger, wrote, pc, holder, upc, prior, progress>>
      /\ UNCHANGED row \/ row' = [row EXCEPT !["deployment"][d] = x]
  BY DEF Delete, deployVars, undoVars
<1>2. CASE UNCHANGED row
  <2>1. DeletingKnown' /\ deleting' \subseteq Deploys
    BY <1>1, <1>2 DEF DeletingKnown
  <2> QED BY <1>1, <1>2, <2>1, FrameKeeps DEF rowVars
<1>3. CASE row' = [row EXCEPT !["deployment"][d] = x]
  <2>1. x \in Rows /\ x.status = "deleted"
    BY NoRowTyped DEF NoRow
  <2> HIDE DEF x
  <2>2. LET r == [row EXCEPT !["deployment"][d] = x] IN
        /\ r \in RowTables
        /\ r["deployment"][d] = x
        /\ \A s \in Tables, e \in Deploys : (s # "deployment" \/ e # d) => r[s][e] = row[s][e]
    BY <2>1, TablesAre, RowExcept
  <2>3. /\ row' \in RowTables
        /\ row'["deployment"][d] = x
        /\ \A s \in Tables, e \in Deploys : (s # "deployment" \/ e # d) => row'[s][e] = row[s][e]
    BY ONLY <1>3, <2>2
  <2>4. \A e \in Deploys : row'["sync"][e] = row["sync"][e]
    BY <2>3, TablesAre
  <2>5. \A e \in Deploys \ {d} : row'["deployment"][e] = row["deployment"][e]
    BY <2>3, TablesAre
  <2>6. /\ ~Exists("deployment", d)'
        /\ \A s \in Tables, e \in Deploys : (s # "deployment" \/ e # d) => (Exists(s, e)' <=> Exists(s, e))
    BY <2>1, <2>3 DEF Exists
  <2>7. \A s \in Tables, e \in Deploys : Exists(s, e)' => Exists(s, e) /\ row'[s][e] = row[s][e]
    BY <2>3, <2>6
  <2>8. row["deployment"][d].status # "none"
    BY <1>1 DEF DeletingKnown
  <2>9. RowsTyped'
    BY <1>1, <2>3 DEF RowsTyped
  <2>10. Exclusive' /\ PriorKnown'
    BY <1>1 DEF Exclusive, Busy, PriorKnown
  <2>11. Together'
    BY <2>4, <2>6, <2>7, TablesAre DEF Together
  <2>12. Early'
    BY <1>1, <2>4, <2>5, <2>8 DEF Early, Unrolled, Exists
  <2>13. DeletingKnown' /\ deleting' \subseteq Deploys
    BY <1>1, <2>5 DEF DeletingKnown
  <2>14. Certain'
    <3>1. \A e \in Deploys : (Recoverable(e)' => Recoverable(e)) /\ (Unverified(e)' <=> Unverified(e))
      BY <1>1, <2>7 DEF Recoverable, Unrolled, Unverified
    <3> QED BY <1>1, <3>1 DEF Certain, Busy
  <2>15. EnteredIsClaimed'
    <3>1. \A u \in Undos : Target[u] \in Deploys
      BY UndosAreNamed
    <3> QED BY <1>1, <2>7, <3>1 DEF EnteredIsClaimed, StampOf
  <2> QED BY <2>9, <2>10, <2>11, <2>12, <2>13, <2>14, <2>15
<1> QED BY <1>1, <1>2, <1>3

LEMMA UserKeeps ==
  ASSUME RowInv, NEW r \in Resources, Edit(r) \/ \E d \in Deploys : Restore(d, r)
  PROVE  RowInv'
<1>1. UNCHANGED rowVars /\ UNCHANGED deleting
  BY DEF Edit, Restore, rowVars, deployVars, undoVars
<1>2. DeletingKnown' /\ deleting' \subseteq Deploys
  BY <1>1 DEF RowInv, DeletingKnown, rowVars
<1> QED BY <1>1, <1>2, FrameKeeps

\* After a restart nobody is at work, and the reconciliation is gentle.
LEMMA RestartKeeps == ASSUME RowInv, Restart PROVE RowInv'
<1> USE DEF RowInv
<1>1. /\ row' = Reconciled /\ holder' = Nobody
      /\ pc' = [d \in Deploys |-> IF pc[d] = "new" THEN "new" ELSE "over"]
      /\ upc' = [u \in Undos |-> "idle"]
      /\ prior' = [u \in Undos |-> NoRow]
      /\ progress' = [u \in Undos |-> NoProgress]
      /\ deleting' = {}
      /\ UNCHANGED <<ledger, wrote>>
  BY DEF Restart
<1>2. Gentle
  BY <1>1, ReconciliationIsGentle
<1>3. RowsTyped'
  <2>1. NoRow \in Rows
    BY NoRowTyped
  <2>2. NoProgress \in [Resources -> Outcomes]
    BY DEF NoProgress, Outcomes
  <2> HIDE DEF NoRow, NoProgress
  <2> QED BY <1>1, <1>2, <2>1, <2>2 DEF RowsTyped, Gentle
<1>4. \A d \in Deploys : ~Busy(d)' /\ (pc'[d] \in {"new", "begun", "backed"} => pc[d] = "new" /\ pc'[d] = "new")
  BY <1>1 DEF Busy
<1>5. Exclusive'
  BY <1>1, <1>4, UndosAreNamed DEF Exclusive
<1>6. \A t \in Tables, d \in Deploys :
        /\ Exists(t, d)' <=> Exists(t, d)
        /\ row'[t][d].rolledBack = row[t][d].rolledBack
        /\ row'[t][d].status = "none" <=> row[t][d].status = "none"
  BY <1>2 DEF Gentle, SameKind, Gone, Exists
<1>7. Together'
  BY <1>6, TablesAre DEF Together
<1>8. Early'
  BY <1>4, <1>6, TablesAre DEF Early
<1>9. DeletingKnown' /\ PriorKnown' /\ EnteredIsClaimed' /\ deleting' \subseteq Deploys
  BY <1>1 DEF DeletingKnown, PriorKnown, EnteredIsClaimed
<1>10. Certain'
  BY <1>4 DEF Certain
<1> QED BY <1>3, <1>5, <1>7, <1>8, <1>9, <1>10

-----------------------------------------------------------------------------
LEMMA NextRows == WriteAheadInv /\ RowInv /\ [Next]_vars => RowInv'
<1> SUFFICES ASSUME WriteAheadInv, RowInv, [Next]_vars PROVE RowInv'
  OBVIOUS
<1>1. ASSUME NEW d \in Deploys, Begin(d) \/ Work(d) \/ CheckDelete(d) \/ Delete(d) PROVE RowInv'
  BY <1>1, BeginKeepsRows, WorkKeepsRows, CheckDeleteKeeps, DeleteKeeps
<1>2. ASSUME NEW u \in Undos, LookUp(u) \/ Claim(u) \/ ClaimRefused(u) \/ Enter(u)
                                \/ EnterFails(u) \/ EnterTooLate(u) \/ Recover(u)
      PROVE  RowInv'
  BY <1>2, LookUpKeeps, ClaimKeeps, GivingUpKeeps, EnterKeeps, EnterFailsKeeps, RecoverKeeps
<1>3. ASSUME NEW r \in Resources, Edit(r) \/ \E d \in Deploys : Restore(d, r) PROVE RowInv'
  BY <1>3, UserKeeps
<1>4. CASE Restart
  BY <1>4, RestartKeeps
<1>5. CASE UNCHANGED vars
  <2>1. UNCHANGED rowVars /\ UNCHANGED deleting
    BY <1>5 DEF vars, rowVars
  <2>2. DeletingKnown' /\ deleting' \subseteq Deploys
    BY <2>1 DEF RowInv, DeletingKnown, rowVars
  <2> QED BY <2>1, <2>2, FrameKeeps
<1> QED BY <1>1, <1>2, <1>3, <1>4, <1>5 DEF Next

\* Both invariants hold together.
LEMMA RowsKept == Spec => [](WriteAheadInv /\ RowInv)
<1>1. Init => WriteAheadInv /\ RowInv
  BY InitWriteAhead, InitRows
<1>2. WriteAheadInv /\ RowInv /\ [Next]_vars => (WriteAheadInv /\ RowInv)'
  BY NextWriteAhead, NextRows
<1> QED BY <1>1, <1>2, PTL DEF Spec

\* While a deployment may write to the endpoint, nothing another one changed
\* there is unverified and still to be recovered: the gate that a deployment
\* passes when it takes the endpoint (assertNoPendingDeploymentOperation) is
\* enough, for nobody else writes while it holds it.
THEOREM NothingOnUncertain == Spec => []NoWorkOnUncertain
<1>1. RowInv => NoWorkOnUncertain
  BY DEF RowInv, Certain, Busy, NoWorkOnUncertain
<1> QED BY <1>1, RowsKept, PTL

\* The two history rows of a deployment are rolled back together, whichever of
\* the two routes did it, whatever is deleted or reconciled in between.
THEOREM RowsAgree == Spec => []RolledBackTogether
<1>1. RowInv => RolledBackTogether
  BY TablesAre DEF RowInv, Together, RolledBackTogether, Exists
<1> QED BY <1>1, RowsKept, PTL

\* A recovery request that has entered keeps its claim on both rows until it
\* leaves: the releases and the claims of other requests, which compare stamps
\* and need no lease, do not take it away.
THEOREM ClaimsLast == Spec => []EnteredIsClaimed
<1>1. RowInv => EnteredIsClaimed
  BY DEF RowInv
<1> QED BY <1>1, RowsKept, PTL

-----------------------------------------------------------------------------
(***************************************************************************)
(* What is rolled back                                                     *)
(***************************************************************************)

\* A row that is rolled back is that of a deployment that is over, and says of
\* each resource the deployment changed that it is finished.
Sealed ==
  \A t \in Tables, d \in Deploys : row[t][d].rolledBack =>
    /\ Exists(t, d)
    /\ pc[d] = "over"
    /\ \A r \in wrote[d] : Finished(row[t][d].progress, r)

\* Before its backup is created a deployment has no row.
Unwritten == \A d \in Deploys : pc[d] \in {"new", "begun"} => ~Exists("sync", d)

\* All that the ledger recorded is still to be checked or finished.
Covered(u) ==
  \A r \in Resources :
    ledger[Target[u]].entry[r].st # "none" => r \in left[u] \/ Finished(progress[u], r)

\* Something failed that this attempt does not check again.
Failed(u) == \E s \in Resources \ left[u] : progress[u][s] = "failed"

\* A request that has entered works on rows that are not rolled back, and
\* passes over nothing unless it will not conclude.
WorkingOn(u) ==
  /\ \A t \in Tables : ~row[t][Target[u]].rolledBack
  /\ Covered(u) \/ Failed(u)

Working == \A u \in Undos : upc[u] = "undoing" => WorkingOn(u)

CompleteInv ==
  /\ left \in [Undos -> SUBSET Resources]
  /\ Sealed /\ Unwritten /\ Working

\* A step that rolls nothing back, and keeps what is.
KeepsSealed ==
  \A t \in Tables, d \in Deploys : row'[t][d].rolledBack =>
    /\ row[t][d].rolledBack
    /\ row'[t][d].progress = row[t][d].progress
    /\ Exists(t, d)'

LEMMA InitComplete == Init => CompleteInv
<1> SUFFICES ASSUME Init PROVE CompleteInv
  OBVIOUS
<1>1. \A t \in Tables, d \in Deploys : row[t][d].status = "none" /\ row[t][d].rolledBack = FALSE
  BY DEF Init, NoRow
<1>2. Sealed /\ Unwritten
  BY <1>1, TablesAre DEF Sealed, Unwritten, Exists
<1>3. left \in [Undos -> SUBSET Resources] /\ Working
  BY DEF Init, Working
<1> QED BY <1>2, <1>3 DEF CompleteInv

LEMMA SealedStays ==
  ASSUME Sealed, KeepsSealed, UNCHANGED wrote, \A d \in Deploys : pc[d] = "over" => pc'[d] = "over"
  PROVE  Sealed'
BY DEF Sealed, KeepsSealed, Finished

\* Nobody outside the endpoint touches what the one inside works on.
LEMMA WorkingStays ==
  ASSUME Working, KeepsSealed, UNCHANGED ledger,
         \A v \in Undos : upc'[v] = "undoing" =>
           upc[v] = "undoing" /\ left'[v] = left[v] /\ progress'[v] = progress[v]
  PROVE  Working'
<1> SUFFICES ASSUME NEW v \in Undos, upc'[v] = "undoing" PROVE WorkingOn(v)'
  BY DEF Working
<1>1. WorkingOn(v) /\ left'[v] = left[v] /\ progress'[v] = progress[v]
  BY DEF Working
<1>2. Target[v] \in Deploys
  BY UndosAreNamed
<1>3. \A t \in Tables : ~row'[t][Target[v]].rolledBack
  BY <1>1, <1>2 DEF WorkingOn, KeepsSealed
<1>4. (Covered(v) => Covered(v)') /\ (Failed(v) => Failed(v)')
  BY <1>1 DEF Covered, Failed, Finished
<1> QED BY <1>1, <1>3, <1>4 DEF WorkingOn

\* A step of a request, as far as others see it.
LEMMA RequestComplete ==
  ASSUME CompleteInv, NEW u \in Undos, Gentle, KeepsSealed, UNCHANGED <<ledger, wrote, pc>>,
         left' \in [Undos -> SUBSET Resources],
         \A v \in Undos \ {u} : upc'[v] = upc[v] /\ left'[v] = left[v] /\ progress'[v] = progress[v],
         upc'[u] = "undoing" => WorkingOn(u)'
  PROVE  CompleteInv'
<1>1. Sealed'
  BY SealedStays DEF CompleteInv
<1>2. Unwritten'
  BY TablesAre DEF CompleteInv, Unwritten, Gentle, SameKind, Gone, Exists
<1>3. Working'
  <2> SUFFICES ASSUME NEW v \in Undos \ {u}, upc'[v] = "undoing" PROVE WorkingOn(v)'
    BY DEF Working
  <2>1. WorkingOn(v) /\ left'[v] = left[v] /\ progress'[v] = progress[v]
    BY DEF CompleteInv, Working
  <2>2. Target[v] \in Deploys
    BY UndosAreNamed
  <2>3. \A t \in Tables : ~row'[t][Target[v]].rolledBack
    BY <2>1, <2>2 DEF WorkingOn, KeepsSealed
  <2>4. (Covered(v) => Covered(v)') /\ (Failed(v) => Failed(v)')
    BY <2>1 DEF Covered, Failed, Finished
  <2> QED BY <2>1, <2>3, <2>4 DEF WorkingOn
<1> QED BY <1>1, <1>2, <1>3 DEF CompleteInv

\* What leaves the rows alone keeps what is rolled back, and so does what is
\* written to rows that are not.
LEMMA StillKeepsSealed == ASSUME Sealed, UNCHANGED row PROVE KeepsSealed
BY DEF Sealed, KeepsSealed, Exists

LEMMA NoteKeepsSealed ==
  ASSUME RowsTyped, Sealed, NEW t \in Tables, NEW d \in Deploys, NEW x \in Rows, ~x.rolledBack,
         row' = [row EXCEPT ![t][d] = x]
  PROVE  KeepsSealed
<1>1. LET r == [row EXCEPT ![t][d] = x] IN
      /\ r \in RowTables
      /\ r[t][d] = x
      /\ \A s \in Tables, e \in Deploys : (s # t \/ e # d) => r[s][e] = row[s][e]
  BY ONLY RowExcept, RowsTyped, t \in Tables, d \in Deploys, x \in Rows
<1>2. /\ row'[t][d] = x
      /\ \A s \in Tables, e \in Deploys : (s # t \/ e # d) => row'[s][e] = row[s][e]
  BY ONLY <1>1, row' = [row EXCEPT ![t][d] = x]
<1> QED BY <1>2 DEF Sealed, KeepsSealed, Exists

LEMMA ReportKeepsSealed ==
  ASSUME RowsTyped, Sealed, NEW u \in Undos, NEW undo \in Undoing,
         NEW prog \in [Resources -> Outcomes],
         row' = Reported(u, undo, prog), \A t \in Tables : ~row[t][Target[u]].rolledBack
  PROVE  KeepsSealed /\ \A t \in Tables : ~row'[t][Target[u]].rolledBack
<1>1. Target[u] \in Deploys
  BY UndosAreNamed
<1>2. /\ \A t \in Tables, e \in Deploys \ {Target[u]} : row'[t][e] = row[t][e]
      /\ \A t \in Tables : row'[t][Target[u]].rolledBack = row[t][Target[u]].rolledBack
  BY ReportedTyped
<1> QED BY <1>1, <1>2 DEF Sealed, KeepsSealed, Exists

\* If the row that a request claims is not rolled back, neither is the other.
LEMMA NeitherRolledBack ==
  ASSUME Together, Sealed, NEW u \in Undos, Unrolled(Table[u], Target[u])
  PROVE  \A t \in Tables : ~row[t][Target[u]].rolledBack
<1>1. Table[u] \in Tables /\ Target[u] \in Deploys
  BY UndosAreNamed
<1> QED BY <1>1, TablesAre DEF Together, Sealed, Unrolled

\* What a step of a deployment writes to the rows.
LEMMA WorkWrites ==
  ASSUME NEW d \in Deploys, Work(d)
  PROVE  \/ UNCHANGED row
         \/ pc[d] = "begun" /\ AddRow("sync", d)
         \/ pc[d] = "backed" /\ AddRow("deployment", d)
         \/ \E s \in Statuses \ {"none", "deleted"} : Record(d, s)
<1>1. CASE CreateBackup(d) \/ CreateBackupFails(d) \/ CreateHistory(d) \/ CreateHistoryFails(d)
  BY <1>1, TablesAre DEF CreateBackup, CreateBackupFails, CreateHistory, CreateHistoryFails
<1>2. CASE \E r \in Resources : Resource(d, r)
  BY <1>2 DEF Resource, KeepFormat, Intend, Changed, Skip, Step
<1>3. CASE Write(d) \/ WriteFails(d) \/ Identify(d) \/ IdentifyFails(d)
  BY <1>3 DEF Write, WriteFails, Identify, IdentifyFails, Step
<1>4. CASE Recheck(d) \/ RecheckFails(d) \/ Verify(d) \/ VerifyFails(d)
  BY <1>4 DEF Recheck, RecheckFails, Verify, VerifyFails, Step
<1>5. CASE Capture(d) \/ CaptureFails(d)
  BY <1>5 DEF Capture, CaptureFails, Step
<1>6. CASE Finalize(d) \/ FinalizeFails(d) \/ Fail(d)
  BY <1>6, RecordedStatuses DEF Finalize, FinalizeFails, Fail
<1> QED BY <1>1, <1>2, <1>3, <1>4, <1>5, <1>6 DEF Work

\* A deployment at work has no row that is rolled back, and writes to no other.
LEMMA WorkComplete ==
  ASSUME WriteAheadInv, RowInv, CompleteInv, NEW d \in Deploys, Work(d), UNCHANGED left
  PROVE  CompleteInv'
<1> USE DEF RowInv, CompleteInv
<1>1. /\ Busy(d) /\ UNCHANGED upc
      /\ \A e \in Deploys \ {d} : pc'[e] = pc[e] /\ wrote'[e] = wrote[e]
  BY WorkFrame
<1>2. \A t \in Tables : ~row[t][d].rolledBack
  BY <1>1 DEF Sealed, Busy
<1>3. /\ \A t \in Tables : ~row'[t][d].rolledBack
      /\ \A t \in Tables, e \in Deploys \ {d} : row'[t][e] = row[t][e]
  <2>1. CASE UNCHANGED row
    BY <1>2, <2>1
  <2>2. CASE AddRow("sync", d) \/ AddRow("deployment", d)
    <3>1. PICK t \in Tables : AddsRow(t, d)
      BY <2>2, AddRowAdds, TablesAre
    <3> QED BY <1>2, <3>1 DEF AddsRow
  <2>3. CASE \E s \in Statuses \ {"none", "deleted"} : Record(d, s)
    BY <1>2, <2>3, RecordTyped
  <2> QED BY <2>1, <2>2, <2>3, WorkWrites
<1>4. Sealed'
  <2> SUFFICES ASSUME NEW t \in Tables, NEW e \in Deploys, row'[t][e].rolledBack
               PROVE  /\ Exists(t, e)' /\ pc'[e] = "over"
                      /\ \A r \in wrote'[e] : Finished(row'[t][e].progress, r)
    BY DEF Sealed, Finished
  <2>1. e # d
    BY <1>3
  <2> QED BY <1>1, <1>3, <2>1 DEF Sealed, Exists
<1>5. Unwritten'
  <2>1. pc'[d] \notin {"new", "begun"}
    BY WorkOnRows
  <2> QED BY <1>1, <1>3, <2>1, TablesAre DEF Unwritten, Exists
<1>6. Working'
  BY <1>1, WorksAlone DEF Working
<1> QED BY <1>4, <1>5, <1>6

\* A deployment that begins has no row.
LEMMA BeginComplete ==
  ASSUME WriteAheadInv, RowInv, CompleteInv, NEW d \in Deploys, Begin(d)
  PROVE  CompleteInv'
<1> USE DEF RowInv, CompleteInv
<1>1. /\ pc[d] = "new" /\ holder = Nobody /\ pc' = [pc EXCEPT ![d] = "begun"]
      /\ UNCHANGED <<wrote, row, upc, left>>
  BY DEF Begin, undoVars
<1>2. pc'[d] = "begun" /\ \A e \in Deploys \ {d} : pc'[e] = pc[e]
  BY <1>1 DEF WriteAheadInv, LedgersTyped
<1>3. Sealed' /\ Unwritten'
  <2>1. \A e \in Deploys : pc[e] = "over" => pc'[e] = "over"
    BY <1>1, <1>2
  <2>2. Sealed'
    BY <1>1, <2>1, StillKeepsSealed, SealedStays
  <2>3. Unwritten'
    BY <1>1, <1>2 DEF Unwritten, Exists
  <2> QED BY <2>2, <2>3
<1>4. Working'
  BY <1>1, NobodyInside DEF Working
<1> QED BY <1>1, <1>3, <1>4

\* Requests outside the endpoint write to rows that are not rolled back.
LEMMA OutsideComplete ==
  ASSUME RowInv, CompleteInv, NEW u \in Undos,
         LookUp(u) \/ Claim(u) \/ ClaimRefused(u) \/ EnterFails(u) \/ EnterTooLate(u)
                   \/ Release(u) \/ ReleaseFails(u)
  PROVE  CompleteInv'
<1> USE DEF RowInv, CompleteInv
<1>1. /\ UNCHANGED <<ledger, wrote, pc>>
      /\ \/ UNCHANGED <<left, progress>> /\ \E x \in {"looked", "claimed", "releasing"} : upc' = [upc EXCEPT ![u] = x]
         \/ Idle(u)
  BY DEF LookUp, Claim, ClaimRefused, EnterFails, EnterTooLate, Release, ReleaseFails, deployVars
<1>2. /\ left' \in [Undos -> SUBSET Resources]
      /\ \A v \in Undos \ {u} : upc'[v] = upc[v] /\ left'[v] = left[v] /\ progress'[v] = progress[v]
      /\ upc'[u] # "undoing"
  BY <1>1 DEF Idle, RowsTyped
<1>3. Gentle /\ KeepsSealed
  <2>1. CASE UNCHANGED row
    BY <2>1, StillIsGentle, StillKeepsSealed
  <2>2. CASE Claim(u)
    <3> DEFINE t == Table[u]
               d == Target[u]
               x == [row[t][d] EXCEPT !.undo = "IN_PROGRESS", !.stamp = <<u, "claim">>]
    <3>1. t \in Tables /\ d \in Deploys /\ row \in RowTables /\ row[t][d] \in Rows
      BY OwnTyped DEF Own, RowsTyped
    <3>2. x \in Rows /\ x.status = row[t][d].status /\ x.rolledBack = row[t][d].rolledBack
      BY <3>1, StampTyped DEF Rows
    <3>3. /\ ~row[t][d].rolledBack
          /\ row' = [row EXCEPT ![t][d].undo = "IN_PROGRESS", ![t][d].stamp = <<u, "claim">>]
      BY <2>2 DEF Claim, Claimable, Unrolled
    <3>4. row' = [row EXCEPT ![t][d] = x]
      BY <3>1, <3>3 DEF RowTables
    <3> HIDE DEF t, d, x
    <3> QED BY <3>1, <3>2, <3>3, <3>4, NoteIsGentle, NoteKeepsSealed
  <2>3. CASE EnterFails(u) /\ ~UNCHANGED row
    <3>1. Unrolled(Table[u], Target[u]) /\ row' = Reported(u, "IN_PROGRESS", Own(u).progress)
      BY <2>3 DEF EnterFails
    <3>2. Own(u).progress \in [Resources -> Outcomes] /\ "IN_PROGRESS" \in Undoing
      BY OwnTyped DEF Undoing
    <3>3. \A t \in Tables : ~row[t][Target[u]].rolledBack
      BY <3>1, NeitherRolledBack
    <3> QED BY <3>1, <3>2, <3>3, ReportIsGentle, ReportKeepsSealed
  <2>4. CASE Release(u) /\ ~UNCHANGED row
    <3> DEFINE t == Table[u]
               d == Target[u]
               x == Released(u)
    <3>1. upc[u] = "releasing" /\ StillClaimed(u) /\ row' = [row EXCEPT ![t][d] = x]
      BY <2>4 DEF Release
    <3>2. t \in Tables /\ d \in Deploys
      BY OwnTyped
    <3>3. x \in Rows /\ x.rolledBack = row[t][d].rolledBack /\ {x.status, row[t][d].status} \cap Gone = {}
      BY <3>1, ReleasedTyped DEF Own
    <3>4. ~row[t][d].rolledBack
      BY <3>1 DEF StillClaimed, Unrolled
    <3> HIDE DEF t, d, x
    <3> QED BY <3>1, <3>2, <3>3, <3>4, NoteIsGentle, NoteKeepsSealed
  <2>5. UNCHANGED row \/ Claim(u) \/ EnterFails(u) \/ Release(u)
    BY DEF LookUp, ClaimRefused, EnterTooLate, ReleaseFails
  <2> QED BY <2>1, <2>2, <2>3, <2>4, <2>5
<1> QED BY <1>1, <1>2, <1>3, RequestComplete

\* A request enters with all the ledger recorded but what is finished.
LEMMA EnterComplete ==
  ASSUME RowInv, CompleteInv, NEW u \in Undos, Enter(u)
  PROVE  CompleteInv'
<1> USE DEF RowInv, CompleteInv
<1>1. /\ upc' = [upc EXCEPT ![u] = "undoing"]
      /\ row' = Reported(u, "IN_PROGRESS", Own(u).progress)
      /\ progress' = [progress EXCEPT ![u] = Own(u).progress]
      /\ left' = [left EXCEPT ![u] = Remaining(u)]
      /\ Unrolled(Table[u], Target[u])
      /\ UNCHANGED <<ledger, wrote, pc>>
  BY DEF Enter, deployVars
<1>2. Own(u).progress \in [Resources -> Outcomes] /\ "IN_PROGRESS" \in Undoing
  BY OwnTyped DEF Undoing
<1>3. \A t \in Tables : ~row[t][Target[u]].rolledBack
  BY <1>1, NeitherRolledBack
<1>4. Gentle /\ KeepsSealed /\ \A t \in Tables : ~row'[t][Target[u]].rolledBack
  BY <1>1, <1>2, <1>3, ReportIsGentle, ReportKeepsSealed
<1>5. /\ left' \in [Undos -> SUBSET Resources]
      /\ left'[u] = Remaining(u) /\ progress'[u] = Own(u).progress
      /\ \A v \in Undos \ {u} : upc'[v] = upc[v] /\ left'[v] = left[v] /\ progress'[v] = progress[v]
  BY <1>1 DEF Remaining, RowsTyped
<1>6. Covered(u)'
  BY <1>1, <1>5 DEF Covered, Remaining, Finished
<1>7. WorkingOn(u)'
  BY <1>4, <1>6 DEF WorkingOn
<1> QED BY <1>1, <1>4, <1>5, <1>7, RequestComplete

\* A check that fails leaves a failure that this attempt does not check again;
\* one that succeeds finishes its resource.
LEMMA CheckComplete ==
  ASSUME RowInv, CompleteInv, NEW u \in Undos, NEW r \in Resources,
         CheckResource(u, r) \/ CheckUnreported(u, r)
  PROVE  CompleteInv'
<1> USE DEF RowInv, CompleteInv
<1>1. PICK outcome \in {Outcome(Target[u], r), "failed"} :
        /\ Check(u, r, outcome)
        /\ UNCHANGED row \/ row' = Reported(u, "IN_PROGRESS", progress'[u])
        /\ \/ /\ UNCHANGED upc
              /\ left' = [left EXCEPT ![u] = IF r = Profile /\ outcome = "failed" THEN {} ELSE @ \ {r}]
           \/ upc' = [upc EXCEPT ![u] = "releasing"] /\ UNCHANGED left
  BY DEF CheckResource, CheckUnreported
<1>2. UNCHANGED <<ledger, wrote, pc>>
  BY DEF CheckResource, CheckUnreported, deployVars
<1>3. /\ upc[u] = "undoing" /\ r \in left[u]
      /\ progress' = [progress EXCEPT ![u][r] = outcome]
  BY <1>1 DEF Check, NextUndo
<1>4. outcome \in {"failed", "reversed", "shared"}
  BY <1>1 DEF Outcome
<1>5. /\ progress'[u] \in [Resources -> Outcomes]
      /\ progress'[u][r] = outcome
      /\ \A s \in Resources \ {r} : progress'[u][s] = progress[u][s]
      /\ \A v \in Undos \ {u} : progress'[v] = progress[v]
  BY <1>3, <1>4 DEF RowsTyped, Outcomes
<1>6. WorkingOn(u)
  BY <1>3 DEF Working
<1>7. Gentle /\ KeepsSealed /\ \A t \in Tables : ~row'[t][Target[u]].rolledBack
  <2>1. "IN_PROGRESS" \in Undoing
    BY DEF Undoing
  <2>2. CASE UNCHANGED row
    BY <1>6, <2>2, StillIsGentle, StillKeepsSealed DEF WorkingOn
  <2>3. CASE row' = Reported(u, "IN_PROGRESS", progress'[u])
    BY <1>5, <1>6, <2>1, <2>3, ReportIsGentle, ReportKeepsSealed DEF WorkingOn
  <2> QED BY <1>1, <2>2, <2>3
<1>8. /\ left' \in [Undos -> SUBSET Resources]
      /\ \A v \in Undos \ {u} : upc'[v] = upc[v] /\ left'[v] = left[v]
  BY <1>1 DEF RowsTyped
<1>9. ASSUME upc'[u] = "undoing" PROVE WorkingOn(u)'
  <2>1. left' = [left EXCEPT ![u] = IF r = Profile /\ outcome = "failed" THEN {} ELSE @ \ {r}]
    BY <1>1, <1>9 DEF RowsTyped
  <2>2. r \notin left'[u] /\ left'[u] \subseteq left[u] /\ (outcome # "failed" => left'[u] = left[u] \ {r})
    BY <2>1
  <2>3. CASE outcome = "failed"
    BY <1>5, <1>7, <2>2, <2>3 DEF WorkingOn, Failed
  <2>4. CASE outcome # "failed"
    <3>1. Finished(progress'[u], r)
      BY <1>4, <1>5, <2>4 DEF Finished
    <3>2. Covered(u) => Covered(u)'
      BY <1>2, <1>5, <2>2, <2>4, <3>1 DEF Covered, Finished
    <3>3. Failed(u) => Failed(u)'
      BY <1>3, <1>5, <2>2 DEF Failed
    <3> QED BY <1>6, <1>7, <3>2, <3>3 DEF WorkingOn
  <2> QED BY <2>3, <2>4
<1> QED BY <1>2, <1>5, <1>7, <1>8, <1>9, RequestComplete

\* What a conclusion says of the progress.
LEMMA ConclusionProgress ==
  ASSUME RowsTyped, NEW u \in Undos, NEW t \in Tables, Exists(t, Target[u])
  PROVE  Conclusion(u)[t][Target[u]].progress = progress[u]
<1> DEFINE d == Target[u]
           undo == IF AllDone(u) THEN "COMPLETED" ELSE "PARTIAL"
           rows == Reported(u, undo, progress[u])
<1>1. d \in Deploys /\ progress[u] \in [Resources -> Outcomes] /\ undo \in Undoing
  BY UndosAreNamed DEF RowsTyped, Undoing
<1>2. Conclusion(u)[t] = [rows[t] EXCEPT ![d].rolledBack = AllDone(u)]
  BY DEF Conclusion
<1> HIDE DEF undo
<1>3. rows \in RowTables /\ rows[t][d].progress = progress[u]
  BY <1>1, ReportedTyped
<1> HIDE DEF rows, d
<1>4. rows[t] \in [Deploys -> Rows] /\ rows[t][d] \in Rows
  BY <1>1, <1>3 DEF RowTables
<1>5. Conclusion(u)[t][d].progress = rows[t][d].progress
  BY <1>1, <1>2, <1>4 DEF Rows
<1> QED BY <1>3, <1>5 DEF d

\* A recovery concludes with everything the ledger recorded finished, or with a
\* failure; and what the deployment changed is recorded.
LEMMA FinishComplete ==
  ASSUME WriteAheadInv, RowInv, CompleteInv, NEW u \in Undos, Finish(u) \/ FinishFails(u)
  PROVE  CompleteInv'
<1> USE DEF RowInv, CompleteInv
<1>1. /\ upc[u] = "undoing" /\ left[u] = {}
      /\ UNCHANGED row \/ row' = Conclusion(u)
      /\ UNCHANGED <<ledger, wrote, pc>>
      /\ Idle(u) \/ (upc' = [upc EXCEPT ![u] = "releasing"] /\ UNCHANGED <<left, progress>>)
  BY DEF Finish, FinishFails, deployVars
<1>2. /\ left' \in [Undos -> SUBSET Resources]
      /\ upc'[u] # "undoing" /\ \A v \in Undos \ {u} : upc'[v] = upc[v]
  BY <1>1 DEF Idle, RowsTyped
<1>3. Working'
  BY <1>1, <1>2, EnteredAlone DEF Working
<1>4. CASE UNCHANGED row
  <2>1. Sealed' /\ Unwritten'
    BY <1>1, <1>4, StillKeepsSealed, SealedStays DEF Unwritten, Exists
  <2> QED BY <1>2, <1>3, <2>1
<1>5. CASE row' = Conclusion(u)
  <2> DEFINE d == Target[u]
  <2>1. d \in Deploys
    BY UndosAreNamed
  <2>2. /\ \A t \in Tables, e \in Deploys \ {d} : row'[t][e] = row[t][e]
        /\ \A t \in Tables : /\ row'[t][d].status = row[t][d].status
                             /\ Exists(t, d) => row'[t][d].rolledBack = AllDone(u)
                             /\ ~Exists(t, d) => row'[t][d] = row[t][d]
    BY <1>5, ConclusionTyped
  <2>3. \A t \in Tables : Exists(t, d) => row'[t][d].progress = progress[u]
    BY <1>5, ConclusionProgress
  <2>4. WorkingOn(u) /\ ~Busy(d)
    BY <1>1, <2>1, EnteredAlone DEF Working
  <2>5. \A t \in Tables : Exists(t, d) => pc[d] = "over"
    <3>1. Exists("deployment", d) => Exists("sync", d)
      BY <2>1 DEF Together
    <3> QED BY <2>1, <2>4, <3>1, TablesAre DEF Unwritten, Busy
  <2>6. AllDone(u) => \A r \in wrote[d] : r \in Resources /\ Finished(progress[u], r)
    <3> SUFFICES ASSUME AllDone(u), NEW r \in wrote[d]
                 PROVE  r \in Resources /\ Finished(progress[u], r)
      OBVIOUS
    <3>1. r \in Resources /\ ledger[d].entry[r].st # "none"
      BY <2>1 DEF WriteAheadInv, LedgersTyped, WriteAhead
    <3>2. ~Failed(u)
      BY DEF AllDone, Failed
    <3>3. Covered(u)
      BY <2>4, <3>2 DEF WorkingOn
    <3> QED BY <1>1, <3>1, <3>3 DEF Covered
  <2> HIDE DEF d
  <2>7. Sealed'
    <3> SUFFICES ASSUME NEW t \in Tables, NEW e \in Deploys, row'[t][e].rolledBack
                 PROVE  /\ Exists(t, e)' /\ pc'[e] = "over"
                        /\ \A r \in wrote'[e] : Finished(row'[t][e].progress, r)
      BY DEF Sealed, Finished
    <3>1. CASE e # d \/ ~Exists(t, d)
      <4>1. row'[t][e] = row[t][e] \/ (e = d /\ ~Exists(t, d) /\ row'[t][d] = row[t][d])
        BY <2>2, <3>1
      <4> QED BY <1>1, <4>1 DEF Sealed, Exists
    <3>2. CASE e = d /\ Exists(t, d)
      <4>1. AllDone(u) /\ row'[t][d].progress = progress[u] /\ Exists(t, d)' /\ pc[d] = "over"
        BY <2>2, <2>3, <2>5, <3>2 DEF Exists
      <4> QED BY <1>1, <2>6, <3>2, <4>1
    <3> QED BY <3>1, <3>2
  <2>8. Unwritten'
    BY <1>1, <2>1, <2>2, TablesAre DEF Unwritten, Exists
  <2> QED BY <1>2, <1>3, <2>7, <2>8
<1> QED BY <1>1, <1>4, <1>5

\* A history that is deleted is no longer rolled back; nobody begins by it.
LEMMA DeleteComplete ==
  ASSUME RowInv, CompleteInv, NEW d \in Deploys, Delete(d)
  PROVE  CompleteInv'
<1> USE DEF RowInv, CompleteInv
<1> DEFINE x == [NoRow EXCEPT !.status = "deleted"]
<1>1. /\ UNCHANGED <<ledger, wrote, pc, upc, left, progress>>
      /\ UNCHANGED row \/ row' = [row EXCEPT !["deployment"][d] = x]
  BY DEF Delete, deployVars, undoVars
<1>2. KeepsSealed /\ \A e \in Deploys : Exists("sync", e)' <=> Exists("sync", e)
  <2>1. CASE UNCHANGED row
    BY <2>1, StillKeepsSealed DEF Exists
  <2>2. CASE row' = [row EXCEPT !["deployment"][d] = x]
    <3>1. x \in Rows /\ ~x.rolledBack
      BY NoRowTyped DEF NoRow
    <3> HIDE DEF x
    <3>2. KeepsSealed
      BY <2>2, <3>1, TablesAre, NoteKeepsSealed
    <3>3. \A e \in Deploys : row'["sync"][e] = row["sync"][e]
      BY <2>2, TablesAre DEF RowsTyped, RowTables
    <3> QED BY <3>2, <3>3 DEF Exists
  <2> QED BY <1>1, <2>1, <2>2
<1>3. Sealed'
  BY <1>1, <1>2, SealedStays
<1>4. Unwritten'
  BY <1>1, <1>2 DEF Unwritten
<1>5. Working'
  BY <1>1, <1>2, WorkingStays
<1> QED BY <1>1, <1>3, <1>4, <1>5

\* What CompleteInv speaks of.
LEMMA CompleteFrame ==
  ASSUME CompleteInv, UNCHANGED <<row, ledger, wrote, pc, upc, left, progress>>
  PROVE  CompleteInv'
<1>1. KeepsSealed
  BY StillKeepsSealed DEF CompleteInv
<1>2. Sealed' /\ Working'
  BY <1>1, SealedStays, WorkingStays DEF CompleteInv
<1> QED BY <1>2 DEF CompleteInv, Unwritten, Exists

\* The reconciliation of a restart changes the progress of no row.
LEMMA ReconciledProgress ==
  ASSUME RowsTyped, NEW t \in Tables, NEW d \in Deploys
  PROVE  Reconciled[t][d].progress = row[t][d].progress
<1>1. row["sync"][d] \in Rows /\ row["deployment"][d] \in Rows
  BY DEF RowsTyped, RowTables, Tables
<1>2. ReconciledDeployment(d).progress = row["deployment"][d].progress
  BY <1>1 DEF ReconciledDeployment, Rows
<1>3. ReconciledSync(d).progress = row["sync"][d].progress
  BY <1>1 DEF ReconciledSync, Rows
<1> QED BY <1>2, <1>3 DEF Reconciled, Tables

LEMMA RestartComplete ==
  ASSUME RowInv, CompleteInv, Restart
  PROVE  CompleteInv'
<1> USE DEF RowInv, CompleteInv
<1>1. /\ row' = Reconciled /\ UNCHANGED wrote
      /\ pc' = [d \in Deploys |-> IF pc[d] = "new" THEN "new" ELSE "over"]
      /\ upc' = [u \in Undos |-> "idle"]
      /\ left' = [u \in Undos |-> {}]
  BY DEF Restart
<1>2. Gentle
  BY <1>1, ReconciliationIsGentle
<1>3. \A t \in Tables, d \in Deploys :
        /\ row'[t][d].rolledBack = row[t][d].rolledBack
        /\ Exists(t, d)' <=> Exists(t, d)
  BY <1>2 DEF Gentle, SameKind, Gone, Exists
<1>4. \A t \in Tables, d \in Deploys : row'[t][d].progress = row[t][d].progress
  BY <1>1, ReconciledProgress
<1>5. KeepsSealed
  BY <1>3, <1>4 DEF KeepsSealed, Sealed
<1>6. Sealed'
  BY <1>1, <1>5, SealedStays
<1>7. Unwritten'
  BY <1>1, <1>3, TablesAre DEF Unwritten
<1>8. left' \in [Undos -> SUBSET Resources] /\ Working'
  BY <1>1 DEF Working
<1> QED BY <1>6, <1>7, <1>8

LEMMA NextComplete == WriteAheadInv /\ RowInv /\ CompleteInv /\ [Next]_vars => CompleteInv'
<1> SUFFICES ASSUME WriteAheadInv, RowInv, CompleteInv, [Next]_vars PROVE CompleteInv'
  OBVIOUS
<1>1. ASSUME NEW d \in Deploys, Begin(d) PROVE CompleteInv'
  BY <1>1, BeginComplete
<1>2. ASSUME NEW d \in Deploys, Work(d) PROVE CompleteInv'
  <2>1. UNCHANGED undoVars
    <3>1. CASE CreateBackup(d) \/ CreateBackupFails(d) \/ CreateHistory(d) \/ CreateHistoryFails(d)
      BY <3>1 DEF CreateBackup, CreateBackupFails, CreateHistory, CreateHistoryFails
    <3>2. CASE \E r \in Resources : Resource(d, r)
      BY <3>2 DEF Resource, KeepFormat, Intend, Changed, Skip, Step
    <3>3. CASE Write(d) \/ WriteFails(d) \/ Identify(d) \/ IdentifyFails(d)
      BY <3>3 DEF Write, WriteFails, Identify, IdentifyFails, Step
    <3>4. CASE Recheck(d) \/ RecheckFails(d) \/ Verify(d) \/ VerifyFails(d)
      BY <3>4 DEF Recheck, RecheckFails, Verify, VerifyFails, Step
    <3>5. CASE Capture(d) \/ CaptureFails(d)
      BY <3>5 DEF Capture, CaptureFails, Step
    <3>6. CASE Finalize(d) \/ FinalizeFails(d) \/ Fail(d)
      BY <3>6 DEF Finalize, FinalizeFails, Fail
    <3> QED BY <1>2, <3>1, <3>2, <3>3, <3>4, <3>5, <3>6 DEF Work
  <2> QED BY <1>2, <2>1, WorkComplete DEF undoVars
<1>3. ASSUME NEW d \in Deploys, CheckDelete(d) PROVE CompleteInv'
  BY <1>3, CompleteFrame DEF CheckDelete, deployVars, undoVars
<1>4. ASSUME NEW d \in Deploys, Delete(d) PROVE CompleteInv'
  BY <1>4, DeleteComplete
<1>5. ASSUME NEW u \in Undos, LookUp(u) \/ Claim(u) \/ ClaimRefused(u) \/ EnterFails(u) \/ EnterTooLate(u)
      PROVE  CompleteInv'
  BY <1>5, OutsideComplete
<1>6. ASSUME NEW u \in Undos, Enter(u) PROVE CompleteInv'
  BY <1>6, EnterComplete
<1>7. ASSUME NEW u \in Undos, Recover(u) PROVE CompleteInv'
  BY <1>7, CheckComplete, FinishComplete, OutsideComplete DEF Recover
<1>8. ASSUME NEW r \in Resources, Edit(r) \/ \E d \in Deploys : Restore(d, r) PROVE CompleteInv'
  BY <1>8, CompleteFrame DEF Edit, Restore, deployVars, undoVars
<1>9. CASE Restart
  BY <1>9, RestartComplete
<1>10. CASE UNCHANGED vars
  BY <1>10, CompleteFrame DEF vars
<1> QED BY <1>1, <1>2, <1>3, <1>4, <1>5, <1>6, <1>7, <1>8, <1>9, <1>10 DEF Next

LEMMA CompleteKept == Spec => []CompleteInv
<1>1. WriteAheadInv /\ RowInv /\ CompleteInv /\ [Next]_vars => CompleteInv'
  BY NextComplete
<1> QED BY <1>1, InitComplete, RowsKept, PTL DEF Spec

\* A deployment is marked as rolled back only when each resource it changed has
\* been seen reversed or has another owner: the marks that several attempts of
\* either route leave in the rows add up, for a request works from the ledger,
\* which has all that was changed, and a failure keeps it from concluding.
THEOREM RollbacksAreComplete == Spec => []RolledBackIsComplete
<1>1. CompleteInv => RolledBackIsComplete
  BY DEF CompleteInv, Sealed, RolledBackIsComplete
<1> QED BY <1>1, CompleteKept, PTL

-----------------------------------------------------------------------------
(***************************************************************************)
(* The types of the rest                                                   *)
(***************************************************************************)
RestTyped ==
  /\ holder \in Deploys \cup Undos \cup {Nobody}
  /\ todo \in [Deploys -> SUBSET Formats]
  /\ result \in [Deploys -> Results]
  /\ attempted \in [Undos -> BOOLEAN]
  /\ lost \subseteq Undos
  /\ faults \in 0..MaxFaults /\ crashes \in 0..MaxCrashes /\ edits \in 0..MaxEdits

\* A deployment is given its place in the order once, when its backup is
\* created: there are as many places as deployments.
Aged ==
  /\ age \in [Deploys -> 0..Cardinality(Deploys)]
  /\ \A d \in Deploys : pc[d] \in {"new", "begun"} => age[d] = 0

RestInv == RestTyped /\ Aged

\* A bounded fault is within its bound.
LEMMA FaultTyped == ASSUME faults \in 0..MaxFaults, Fault PROVE faults' \in 0..MaxFaults
BY UndosAreNamed DEF Fault

LEMMA InitRest == Init => RestInv
<1> SUFFICES ASSUME Init PROVE RestInv
  OBVIOUS
<1>1. Cardinality(Deploys) \in Nat
  BY DeploysAreFinite, FS_CardinalityType
<1>2. Fresh \in Results
  BY DEF Fresh, Results
<1>3. Aged
  BY <1>1 DEF Init, Aged
<1>4. RestTyped
  BY <1>2, UndosAreNamed DEF Init, RestTyped
<1> QED BY <1>3, <1>4 DEF RestInv

\* The place that a deployment is given.
LEMMA StampedTyped ==
  ASSUME Aged, NEW d \in Deploys, pc[d] = "begun", Stamped(d)
  PROVE  age' \in [Deploys -> 0..Cardinality(Deploys)]
<1> DEFINE S == {e \in Deploys : age[e] > 0}
<1>1. IsFiniteSet(S) /\ Cardinality(S) \in Nat /\ Cardinality(Deploys) \in Nat
  BY DeploysAreFinite, FS_Subset, FS_CardinalityType
<1>2. age[d] = 0
  BY DEF Aged
<1>3. d \notin S /\ S \cup {d} \subseteq Deploys
  BY <1>2
<1>4. Cardinality(S \cup {d}) = Cardinality(S) + 1
  BY <1>1, <1>3, FS_AddElement
<1>5. Cardinality(S \cup {d}) <= Cardinality(Deploys)
  BY <1>3, DeploysAreFinite, FS_Subset
<1>6. age' = [age EXCEPT ![d] = 1 + Cardinality(S)]
  BY DEF Stamped
<1> HIDE DEF S
<1>7. 1 + Cardinality(S) \in 0..Cardinality(Deploys)
  BY <1>1, <1>4, <1>5
<1> QED BY <1>6, <1>7 DEF Aged

\* A deployment keeps the types of what is its own.
LEMMA WorkRest ==
  ASSUME LedgersTyped, RestInv, NEW d \in Deploys, Work(d)
  PROVE  /\ todo' \in [Deploys -> SUBSET Formats]
         /\ result' \in [Deploys -> Results]
         /\ faults' \in 0..MaxFaults
         /\ UNCHANGED <<attempted, lost, crashes, edits>>
         /\ UNCHANGED age \/ (pc[d] = "begun" /\ Stamped(d))
<1> USE DEF RestInv, RestTyped
<1>1. /\ result[d] \in Results /\ Fresh \in Results
      /\ [result[d] EXCEPT !.known = TRUE] \in Results
      /\ [result[d] EXCEPT !.applied = TRUE] \in Results
      /\ \A w \in {"conflict", "failure", "uncertain"} : [result[d] EXCEPT !.why = w] \in Results
      /\ \A b \in BOOLEAN : [result[d] EXCEPT !.errors = TRUE, !.unresolved = b] \in Results
  <2>1. result[d] \in Results
    OBVIOUS
  <2> QED BY <2>1 DEF Fresh, Results
<1>2. CASE CreateBackup(d) \/ CreateHistory(d)
  BY <1>1, <1>2 DEF CreateBackup, CreateHistory, undoVars, boundVars
<1>3. CASE CreateBackupFails(d)
  BY <1>1, <1>3, FaultTyped DEF CreateBackupFails, Leave, undoVars
<1>4. CASE CreateHistoryFails(d)
  BY <1>1, <1>4, FaultTyped DEF CreateHistoryFails, Failing, undoVars
<1>5. ASSUME NEW r \in Resources, KeepFormat(d, r) \/ Intend(d, r) \/ Changed(d, r)
      PROVE  /\ todo' \in [Deploys -> SUBSET Formats]
             /\ result' \in [Deploys -> Results]
             /\ faults' \in 0..MaxFaults
             /\ UNCHANGED <<attempted, lost, crashes, edits>>
             /\ UNCHANGED age \/ (pc[d] = "begun" /\ Stamped(d))
  BY <1>1, <1>5 DEF KeepFormat, Intend, Changed, Failing, Step, undoVars
<1>6. ASSUME NEW r \in Resources, Skip(d, r)
      PROVE  /\ todo' \in [Deploys -> SUBSET Formats]
             /\ result' \in [Deploys -> Results]
             /\ faults' \in 0..MaxFaults
             /\ UNCHANGED <<attempted, lost, crashes, edits>>
             /\ UNCHANGED age \/ (pc[d] = "begun" /\ Stamped(d))
  <2> DEFINE c == r \in Formats /\ (Kept(d, r) \/ seen[d][r] = Absent)
             b == result[d].unresolved \/ c
  <2>1. b \in BOOLEAN
    OBVIOUS
  <2>2. result' = [result EXCEPT ![d].errors = TRUE, ![d].unresolved = @ \/ c]
    BY <1>6 DEF Skip
  <2> HIDE DEF c
  <2>3. result' = [result EXCEPT ![d] = [result[d] EXCEPT !.errors = TRUE, !.unresolved = b]]
    BY <2>2
  <2> HIDE DEF b
  <2>4. result' \in [Deploys -> Results]
    BY <1>1, <2>1, <2>3
  <2> QED BY <1>6, <2>4, FaultTyped DEF Skip, Step, undoVars
<1>7. CASE Write(d) \/ WriteFails(d) \/ Identify(d) \/ IdentifyFails(d)
  BY <1>1, <1>7, FaultTyped DEF Write, WriteFails, Identify, IdentifyFails, Failing, Step, undoVars
<1>8. CASE Recheck(d) \/ RecheckFails(d) \/ VerifyFails(d)
  BY <1>1, <1>8, FaultTyped DEF Recheck, RecheckFails, VerifyFails, Failing, Step, undoVars
<1>9. CASE Verify(d)
  BY <1>1, <1>9 DEF Verify, Step, undoVars
<1>10. CASE Capture(d) \/ CaptureFails(d)
  BY <1>1, <1>10, FaultTyped DEF Capture, CaptureFails, Failing, Step, undoVars
<1>11. CASE Finalize(d) \/ FinalizeFails(d) \/ Fail(d)
  BY <1>1, <1>11, FaultTyped DEF Finalize, FinalizeFails, Fail, Leave, undoVars, boundVars
<1> QED BY <1>2, <1>3, <1>4, <1>5, <1>6, <1>7, <1>8, <1>9, <1>10, <1>11 DEF Work, Resource

\* Whoever does something, who holds the endpoint is somebody or nobody.
LEMMA NextHolder ==
  ASSUME WriteAheadInv, RowInv, RestTyped, [Next]_vars
  PROVE  holder' \in Deploys \cup Undos \cup {Nobody}
<1> USE DEF RestTyped
<1>1. ASSUME NEW d \in Deploys, Begin(d) \/ Work(d) \/ CheckDelete(d) \/ Delete(d)
      PROVE  holder' \in Deploys \cup Undos \cup {Nobody}
  BY <1>1, WorkFrame DEF Begin, CheckDelete, Delete
<1>2. ASSUME NEW u \in Undos, LookUp(u) \/ Claim(u) \/ ClaimRefused(u) \/ Enter(u)
                                \/ EnterFails(u) \/ EnterTooLate(u)
      PROVE  holder' \in Deploys \cup Undos \cup {Nobody}
  BY <1>2 DEF LookUp, Claim, ClaimRefused, Enter, EnterFails, EnterTooLate
<1>3. ASSUME NEW u \in Undos, Recover(u)
      PROVE  holder' \in Deploys \cup Undos \cup {Nobody}
  BY <1>3 DEF Recover, CheckResource, CheckUnreported, Finish, FinishFails, Release, ReleaseFails
<1>4. ASSUME NEW r \in Resources, Edit(r) \/ \E d \in Deploys : Restore(d, r)
      PROVE  holder' \in Deploys \cup Undos \cup {Nobody}
  BY <1>4 DEF Edit, Restore
<1> QED BY <1>1, <1>2, <1>3, <1>4 DEF Next, Restart, vars

\* What a request does to the types of the rest.
LEMMA RequestRest ==
  ASSUME RestTyped, NEW u \in Undos,
         LookUp(u) \/ Claim(u) \/ ClaimRefused(u) \/ Enter(u) \/ EnterFails(u) \/ EnterTooLate(u)
                   \/ Recover(u)
  PROVE  /\ UNCHANGED <<age, pc, todo, result, crashes, edits>>
         /\ attempted' \in [Undos -> BOOLEAN]
         /\ lost' \subseteq Undos
         /\ faults' \in 0..MaxFaults
<1> USE DEF RestTyped
<1>1. ASSUME Idle(u) PROVE attempted' \in [Undos -> BOOLEAN]
  BY <1>1 DEF Idle
<1>2. CASE LookUp(u) \/ Claim(u) \/ ClaimRefused(u)
  BY <1>1, <1>2 DEF LookUp, Claim, ClaimRefused, deployVars, boundVars
<1>3. CASE Enter(u) \/ EnterFails(u) \/ EnterTooLate(u)
  BY <1>1, <1>3, FaultTyped DEF Enter, EnterFails, EnterTooLate, deployVars, boundVars
<1>4. ASSUME NEW r \in Resources, CheckResource(u, r) \/ CheckUnreported(u, r)
      PROVE  /\ UNCHANGED <<age, pc, todo, result, crashes, edits, lost>>
             /\ attempted' \in [Undos -> BOOLEAN]
             /\ faults' \in 0..MaxFaults
  <2>1. attempted' = [attempted EXCEPT ![u] = @ \/ Attempts(Target[u], r)]
    BY <1>4 DEF CheckResource, CheckUnreported, Check
  <2>2. Attempts(Target[u], r) \in BOOLEAN
    BY DEF Attempts, Restorable
  <2>3. attempted' \in [Undos -> BOOLEAN]
    <3> DEFINE a == Attempts(Target[u], r)
    <3>1. a \in BOOLEAN /\ attempted' = [attempted EXCEPT ![u] = @ \/ a]
      BY <2>1, <2>2
    <3> HIDE DEF a
    <3> QED BY <3>1
  <2>4. UNCHANGED <<age, pc, todo, result, crashes, edits, lost>>
    BY <1>4 DEF CheckResource, CheckUnreported, deployVars
  <2>5. faults' \in 0..MaxFaults
    BY <1>4, FaultTyped DEF CheckResource, CheckUnreported
  <2> QED BY <2>3, <2>4, <2>5
<1>5. CASE Finish(u) \/ FinishFails(u)
  BY <1>1, <1>5, FaultTyped DEF Finish, FinishFails, deployVars, boundVars
<1>6. CASE Release(u) \/ ReleaseFails(u)
  BY <1>1, <1>6, FaultTyped DEF Release, ReleaseFails, deployVars, boundVars
<1> QED BY <1>2, <1>3, <1>4, <1>5, <1>6 DEF Recover

LEMMA NextRest == WriteAheadInv /\ RowInv /\ RestInv /\ [Next]_vars => RestInv'
<1> SUFFICES ASSUME WriteAheadInv, RowInv, RestInv, [Next]_vars PROVE RestInv'
  OBVIOUS
<1> USE DEF RestInv
<1>1. holder' \in Deploys \cup Undos \cup {Nobody}
  BY NextHolder
<1>2. LedgersTyped
  BY DEF WriteAheadInv
<1>3. ASSUME NEW d \in Deploys, Begin(d) PROVE RestInv'
  <2>1. todo' \in [Deploys -> SUBSET Formats]
    BY <1>3 DEF Begin, RestTyped
  <2>2. Aged'
    BY <1>2, <1>3 DEF Begin, Aged, LedgersTyped
  <2> QED BY <1>1, <1>3, <2>1, <2>2 DEF Begin, RestTyped, undoVars, boundVars
<1>4. ASSUME NEW d \in Deploys, Work(d) PROVE RestInv'
  <2>1. RestTyped'
    BY <1>1, <1>2, <1>4, WorkRest DEF RestTyped
  <2>2. /\ pc'[d] \notin {"new", "begun"}
        /\ \A e \in Deploys \ {d} : pc'[e] = pc[e]
    BY <1>4, WorkOnRows, WorkFrame
  <2>3. /\ age' \in [Deploys -> 0..Cardinality(Deploys)]
        /\ \A e \in Deploys \ {d} : age'[e] = age[e]
    <3>1. CASE UNCHANGED age
      BY <3>1 DEF Aged
    <3>2. CASE pc[d] = "begun" /\ Stamped(d)
      BY <3>2, StampedTyped DEF Aged, Stamped
    <3> QED BY <1>2, <1>4, <3>1, <3>2, WorkRest
  <2>4. Aged'
    BY <2>2, <2>3 DEF Aged
  <2> QED BY <2>1, <2>4
<1>5. ASSUME NEW d \in Deploys, CheckDelete(d) \/ Delete(d) PROVE RestInv'
  <2>1. UNCHANGED <<age, pc, todo, result, attempted, lost, faults, crashes, edits>>
    BY <1>5 DEF CheckDelete, Delete, deployVars, undoVars, boundVars
  <2> QED BY <1>1, <2>1 DEF RestTyped, Aged
<1>6. ASSUME NEW u \in Undos, LookUp(u) \/ Claim(u) \/ ClaimRefused(u) \/ Enter(u)
                                \/ EnterFails(u) \/ EnterTooLate(u) \/ Recover(u)
      PROVE  RestInv'
  BY <1>1, <1>6, RequestRest DEF RestTyped, Aged
<1>7. ASSUME NEW r \in Resources, Edit(r) \/ \E d \in Deploys : Restore(d, r) PROVE RestInv'
  <2>1. UNCHANGED <<age, pc, todo, result, attempted, lost, faults, crashes>>
    BY <1>7 DEF Edit, Restore, deployVars, undoVars, boundVars
  <2>2. edits' \in 0..MaxEdits
    BY <1>7, UndosAreNamed DEF Edit, Restore, boundVars, RestTyped
  <2> QED BY <1>1, <2>1, <2>2 DEF RestTyped, Aged
<1>8. CASE Restart
  <2>1. Fresh \in Results
    BY DEF Fresh, Results
  <2>2. RestTyped'
    BY <1>1, <1>8, <2>1, UndosAreNamed DEF Restart, RestTyped
  <2>3. Aged'
    BY <1>8 DEF Restart, Aged
  <2> QED BY <2>2, <2>3
<1>9. CASE UNCHANGED vars
  BY <1>9 DEF vars, RestTyped, Aged
<1> QED BY <1>3, <1>4, <1>5, <1>6, <1>7, <1>8, <1>9 DEF Next

\* The state of the endpoint, the rows and the requests is well formed, and one
\* actor holds the endpoint at most: the deployment that is at work, or the
\* request that has entered.
THEOREM DeploymentTyped == Spec => []TypeOK
<1>1. WriteAheadInv /\ RowInv /\ CompleteInv /\ RestInv => TypeOK
  BY DEF WriteAheadInv, LedgersTyped, Phases, RowInv, RowsTyped, RowTables, CompleteInv,
         RestInv, RestTyped, Aged, Exclusive, Busy, TypeOK
<1>2. WriteAheadInv /\ RowInv /\ RestInv /\ [Next]_vars => RestInv'
  BY NextRest
<1> QED BY <1>1, <1>2, InitRest, RowsKept, CompleteKept, PTL DEF Spec

-----------------------------------------------------------------------------
(***************************************************************************)
(* Retries.  A deployment row that is in progress is explained: a request  *)
(* has it claimed, one that ended has left a claim behind, or a rollback   *)
(* has replaced the stamp.  Any number of requests of both routes may be   *)
(* for one deployment.                                                     *)
(***************************************************************************)
Reclaimable == {"none", "PARTIAL"}

UnderWay(u) == upc[u] \in {"claimed", "undoing", "releasing"}

UndeploysOf(d) == {u \in Undos : Table[u] = "deployment" /\ Target[u] = d}

Explained(d) ==
  \/ \E u \in UndeploysOf(d) : UnderWay(u) /\ row["deployment"][d].stamp = <<u, "claim">>
  \/ \E u \in UndeploysOf(d) : ~UnderWay(u) /\ u \in lost
  \/ \E u \in Undos : row["deployment"][d].stamp = <<u, "inner">>

InHand(d) ==
  Unrolled("deployment", d) =>
    \/ row["deployment"][d].undo \in Reclaimable
    \/ row["deployment"][d].undo = "IN_PROGRESS" /\ Explained(d)

\* What an undeploy has read, and may put back, is not the end of a recovery.
ReadBack(u) ==
  Table[u] = "deployment" /\ upc[u] # "idle" =>
    prior[u].undo \in Reclaimable \cup {"IN_PROGRESS"}

RetryInv ==
  /\ \A d \in Deploys : InHand(d)
  /\ \A u \in Undos : ReadBack(u)

LEMMA InitRetry == Init => RetryInv
<1> SUFFICES ASSUME Init PROVE RetryInv
  OBVIOUS
<1>1. \A t \in Tables, d \in Deploys : row[t][d].undo = "none"
  BY DEF Init, NoRow
<1> QED BY <1>1, TablesAre DEF Init, RetryInv, InHand, ReadBack, Reclaimable

\* A step of a request leaves the other requests and deployments alone.
OthersAlone(u) ==
  /\ \A e \in Deploys \ {Target[u]} : row'["deployment"][e] = row["deployment"][e]
  /\ \A v \in Undos \ {u} : upc'[v] = upc[v] /\ prior'[v] = prior[v] /\ (v \in lost' <=> v \in lost)

LEMMA ElsewhereRetry ==
  ASSUME RetryInv, NEW u \in Undos, OthersAlone(u), InHand(Target[u])', ReadBack(u)'
  PROVE  RetryInv'
<1>1. ASSUME NEW e \in Deploys, e # Target[u] PROVE InHand(e)'
  <2>1. InHand(e) /\ row'["deployment"][e] = row["deployment"][e]
    BY <1>1 DEF RetryInv, OthersAlone
  <2>2. \A v \in UndeploysOf(e) : v \in Undos \ {u}
    BY <1>1 DEF UndeploysOf
  <2>3. Explained(e) => Explained(e)'
    BY <2>1, <2>2 DEF Explained, UnderWay, OthersAlone
  <2> QED BY <2>1, <2>3 DEF InHand, Unrolled, Exists
<1>2. ASSUME NEW v \in Undos, v # u PROVE ReadBack(v)'
  BY <1>2 DEF RetryInv, ReadBack, OthersAlone
<1> QED BY <1>1, <1>2 DEF RetryInv

\* If the row stays as it is, it stays explained, unless it was the claim of the
\* request and the request gives it up.
LEMMA SameRowRetry ==
  ASSUME RetryInv, NEW u \in Undos, OthersAlone(u),
         row'["deployment"][Target[u]] = row["deployment"][Target[u]],
         \/ Table[u] # "deployment"
         \/ UnderWay(u) /\ UnderWay(u)'
         \/ ~UnderWay(u) /\ ~UnderWay(u)' /\ (u \in lost => u \in lost')
         \/ ~UnderWay(u)' /\ u \in lost'
         \/ UnderWay(u) /\ ~( /\ Unrolled("deployment", Target[u])
                              /\ row["deployment"][Target[u]].undo = "IN_PROGRESS"
                              /\ row["deployment"][Target[u]].stamp = <<u, "claim">> ),
         ReadBack(u)'
  PROVE  RetryInv'
<1> DEFINE d == Target[u]
<1>1. InHand(d)
  BY UndosAreNamed DEF RetryInv
<1>2. ASSUME Unrolled("deployment", d), row["deployment"][d].undo = "IN_PROGRESS", Explained(d)
      PROVE  Explained(d)'
  <2>1. \A v \in Undos \ {u} : (UnderWay(v) <=> UnderWay(v)') /\ (v \in lost <=> v \in lost')
    BY DEF OthersAlone, UnderWay
  <2>2. CASE \E v \in UndeploysOf(d) : UnderWay(v) /\ row["deployment"][d].stamp = <<v, "claim">>
    <3>1. PICK v \in UndeploysOf(d) : UnderWay(v) /\ row["deployment"][d].stamp = <<v, "claim">>
      BY <2>2
    <3>2. CASE v # u
      BY <2>1, <3>1, <3>2 DEF Explained, UndeploysOf
    <3>3. CASE v = u
      BY <1>2, <3>1, <3>3 DEF Explained, UndeploysOf
    <3> QED BY <3>2, <3>3
  <2>3. CASE \E v \in UndeploysOf(d) : ~UnderWay(v) /\ v \in lost
    <3>1. PICK v \in UndeploysOf(d) : ~UnderWay(v) /\ v \in lost
      BY <2>3
    <3>2. CASE v # u
      BY <2>1, <3>1, <3>2 DEF Explained, UndeploysOf
    <3>3. CASE v = u
      BY <3>1, <3>3 DEF Explained, UndeploysOf
    <3> QED BY <3>2, <3>3
  <2>4. CASE \E v \in Undos : row["deployment"][d].stamp = <<v, "inner">>
    BY <2>4 DEF Explained
  <2> QED BY <1>2, <2>2, <2>3, <2>4 DEF Explained
<1>3. InHand(d)'
  BY <1>1, <1>2 DEF InHand, Unrolled, Exists
<1> QED BY <1>3, ElsewhereRetry

\* A request that has no more to do with its row.
LEMMA IdleElsewhere ==
  ASSUME RowsTyped, NEW u \in Undos, Idle(u)
  PROVE  /\ upc'[u] = "idle" /\ ReadBack(u)' /\ ~UnderWay(u)'
         /\ \A v \in Undos \ {u} : upc'[v] = upc[v] /\ prior'[v] = prior[v]
BY DEF RowsTyped, Idle, ReadBack, UnderWay

LEMMA StillRetry ==
  ASSUME RowInv, RetryInv, NEW u \in Undos,
         LookUp(u) \/ ClaimRefused(u) \/ EnterTooLate(u) \/ ReleaseFails(u)
  PROVE  RetryInv'
<1> USE DEF RowInv
<1> DEFINE d == Target[u]
<1>1. d \in Deploys /\ InHand(d)
  BY UndosAreNamed DEF RetryInv
<1>2. CASE LookUp(u)
  <2>1. /\ upc[u] = "idle" /\ Unrolled(Table[u], d) /\ UNCHANGED <<row, lost>>
        /\ upc' = [upc EXCEPT ![u] = "looked"] /\ prior' = [prior EXCEPT ![u] = Own(u)]
    BY <1>2 DEF LookUp
  <2>2. upc'[u] = "looked" /\ prior'[u] = Own(u) /\ OthersAlone(u)
    BY <2>1 DEF RowsTyped, OthersAlone
  <2>3. ReadBack(u)'
    BY <1>1, <2>1, <2>2 DEF ReadBack, InHand, Own
  <2>4. ~UnderWay(u) /\ ~UnderWay(u)'
    BY <2>1, <2>2 DEF UnderWay
  <2> QED BY <2>1, <2>2, <2>3, <2>4, SameRowRetry
<1>3. CASE ClaimRefused(u)
  <2>1. upc[u] = "looked" /\ Idle(u) /\ UNCHANGED <<row, lost>>
    BY <1>3 DEF ClaimRefused
  <2>2. ~UnderWay(u) /\ ~UnderWay(u)' /\ ReadBack(u)' /\ OthersAlone(u)
    BY <2>1, IdleElsewhere DEF UnderWay, OthersAlone
  <2> QED BY <2>1, <2>2, SameRowRetry
<1>4. CASE EnterTooLate(u)
  <2>1. /\ upc[u] = "claimed" /\ Idle(u) /\ UNCHANGED <<row, lost>>
        /\ ~Unrolled(Table[u], d)
    BY <1>4 DEF EnterTooLate
  <2>2. UnderWay(u) /\ ReadBack(u)' /\ OthersAlone(u)
    BY <2>1, IdleElsewhere DEF UnderWay, OthersAlone
  <2> QED BY <2>1, <2>2, SameRowRetry
<1>5. CASE ReleaseFails(u)
  <2>1. Idle(u) /\ UNCHANGED row /\ lost' = lost \cup {u}
    BY <1>5 DEF ReleaseFails
  <2>2. ~UnderWay(u)' /\ u \in lost' /\ ReadBack(u)' /\ OthersAlone(u)
    BY <2>1, IdleElsewhere DEF OthersAlone
  <2> QED BY <2>1, <2>2, SameRowRetry
<1> QED BY <1>2, <1>3, <1>4, <1>5

\* A claim is explained by the request that makes it.
LEMMA ClaimRetry ==
  ASSUME RowInv, RetryInv, NEW u \in Undos, Claim(u)
  PROVE  RetryInv'
<1> USE DEF RowInv
<1> DEFINE d == Target[u]
           t == Table[u]
           x == [row[t][d] EXCEPT !.undo = "IN_PROGRESS", !.stamp = <<u, "claim">>]
<1>1. t \in Tables /\ d \in Deploys /\ row[t][d] \in Rows /\ row \in RowTables
  BY OwnTyped DEF RowsTyped, RowTables
<1>2. /\ upc[u] = "looked" /\ upc' = [upc EXCEPT ![u] = "claimed"] /\ UNCHANGED <<prior, lost>>
      /\ row' = [row EXCEPT ![t][d].undo = "IN_PROGRESS", ![t][d].stamp = <<u, "claim">>]
  BY DEF Claim
<1>3. x \in Rows /\ x.undo = "IN_PROGRESS" /\ x.stamp = <<u, "claim">>
  BY <1>1, StampTyped DEF Rows
<1>4. row' = [row EXCEPT ![t][d] = x]
  BY <1>1, <1>2 DEF RowTables
<1> HIDE DEF x
<1>5. RowsTyped
  OBVIOUS
<1>6. /\ row'[t][d] = x
      /\ \A s \in Tables, e \in Deploys : (s # t \/ e # d) => row'[s][e] = row[s][e]
  <2> HIDE DEF t, d
  <2> QED BY ONLY <1>1, <1>3, <1>4, <1>5 DEF RowsTyped, RowTables
<1>7. upc'[u] = "claimed" /\ OthersAlone(u)
  BY <1>2, <1>6, TablesAre DEF RowsTyped, OthersAlone
<1>8. ReadBack(u)'
  BY <1>2, <1>7 DEF RetryInv, ReadBack
<1>9. CASE t = "deployment"
  <2>1. u \in UndeploysOf(d) /\ UnderWay(u)'
    BY <1>7, <1>9 DEF UndeploysOf, UnderWay
  <2>2. row'["deployment"][d].undo = "IN_PROGRESS" /\ row'["deployment"][d].stamp = <<u, "claim">>
    BY <1>3, <1>6, <1>9
  <2>3. InHand(d)'
    BY <2>1, <2>2 DEF InHand, Explained
  <2> QED BY <1>7, <1>8, <2>3, ElsewhereRetry
<1>10. CASE t # "deployment"
  <2>1. row'["deployment"][d] = row["deployment"][d]
    BY <1>1, <1>6, <1>10, TablesAre
  <2> QED BY <1>7, <1>8, <1>10, <2>1, SameRowRetry
<1> QED BY <1>9, <1>10

\* A report is stamped by its request, which is under way: an undeploy keeps its
\* claim, and a rollback replaces the stamp.
LEMMA ReportRetry ==
  ASSUME RowInv, RetryInv, NEW u \in Undos,
         NEW prog \in [Resources -> Outcomes],
         UNCHANGED row \/ row' = Reported(u, "IN_PROGRESS", prog),
         UnderWay(u), upc'[u] \in {"undoing", "releasing"},
         \A v \in Undos \ {u} : upc'[v] = upc[v],
         UNCHANGED <<prior, lost>>
  PROVE  RetryInv'
<1> USE DEF RowInv
<1> DEFINE d == Target[u]
<1>1. d \in Deploys /\ UnderWay(u)'
  BY UndosAreNamed DEF UnderWay
<1>2. ReadBack(u)'
  BY DEF RetryInv, ReadBack, UnderWay
<1>3. CASE UNCHANGED row
  <2>1. OthersAlone(u)
    BY <1>3 DEF OthersAlone
  <2> QED BY <1>1, <1>2, <1>3, <2>1, SameRowRetry
<1>4. CASE row' = Reported(u, "IN_PROGRESS", prog)
  <2>1. /\ \A t \in Tables, e \in Deploys \ {d} : row'[t][e] = row[t][e]
        /\ \A t \in Tables : /\ row'[t][d].status = row[t][d].status
                             /\ Exists(t, d) => row'[t][d].undo = "IN_PROGRESS" /\ row'[t][d].stamp = StampOf(u)
    <3>1. "IN_PROGRESS" \in Undoing
      BY DEF Undoing
    <3> DEFINE r == Reported(u, "IN_PROGRESS", prog)
    <3>2. /\ \A t \in Tables, e \in Deploys \ {Target[u]} : r[t][e] = row[t][e]
          /\ \A t \in Tables : /\ r[t][Target[u]].status = row[t][Target[u]].status
                               /\ Exists(t, Target[u]) => /\ r[t][Target[u]].undo = "IN_PROGRESS"
                                                          /\ r[t][Target[u]].stamp = StampOf(u)
      BY ONLY <3>1, RowsTyped, u \in Undos, prog \in [Resources -> Outcomes], ReportedTyped
    <3> HIDE DEF r
    <3>3. row' = r
      BY ONLY <1>4 DEF r
    <3> QED BY ONLY <3>2, <3>3
  <2>2. OthersAlone(u)
    BY <2>1, TablesAre DEF OthersAlone
  <2>3. Unrolled("deployment", d)' =>
          row'["deployment"][d].undo = "IN_PROGRESS" /\ row'["deployment"][d].stamp = StampOf(u)
    BY <2>1, TablesAre DEF Unrolled, Exists
  <2>4. Table[u] = "deployment" \/ StampOf(u) = <<u, "inner">>
    BY UndosAreNamed, TablesAre DEF StampOf
  <2>5. Table[u] = "deployment" => u \in UndeploysOf(d) /\ StampOf(u) = <<u, "claim">>
    BY DEF UndeploysOf, StampOf
  <2>6. InHand(d)'
    BY <1>1, <2>3, <2>4, <2>5 DEF InHand, Explained
  <2> QED BY <1>2, <2>2, <2>6, ElsewhereRetry
<1> QED BY <1>3, <1>4

LEMMA UnderWayRetry ==
  ASSUME RowInv, RetryInv, RowInv', NEW u \in Undos,
         Enter(u) \/ EnterFails(u) \/ \E r \in Resources : CheckResource(u, r) \/ CheckUnreported(u, r)
  PROVE  RetryInv'
<1> USE DEF RowInv
<1>1. Own(u).progress \in [Resources -> Outcomes] /\ progress'[u] \in [Resources -> Outcomes]
  BY OwnTyped DEF RowsTyped
<1>2. UNCHANGED <<prior, lost>>
  BY DEF Enter, EnterFails, CheckResource, CheckUnreported
<1>3. CASE Enter(u) \/ EnterFails(u)
  <2>1. /\ UNCHANGED row \/ row' = Reported(u, "IN_PROGRESS", Own(u).progress)
        /\ UnderWay(u) /\ \E x \in {"undoing", "releasing"} : upc' = [upc EXCEPT ![u] = x]
    BY <1>3 DEF Enter, EnterFails, UnderWay
  <2>2. upc'[u] \in {"undoing", "releasing"} /\ \A v \in Undos \ {u} : upc'[v] = upc[v]
    BY <2>1 DEF RowsTyped
  <2> QED BY <1>1, <1>2, <2>1, <2>2, ReportRetry
<1>4. CASE \E r \in Resources : CheckResource(u, r) \/ CheckUnreported(u, r)
  <2>1. /\ UNCHANGED row \/ row' = Reported(u, "IN_PROGRESS", progress'[u])
        /\ upc[u] = "undoing" /\ (UNCHANGED upc \/ upc' = [upc EXCEPT ![u] = "releasing"])
    BY <1>4 DEF CheckResource, CheckUnreported, Check, NextUndo
  <2>2. upc'[u] \in {"undoing", "releasing"} /\ \A v \in Undos \ {u} : upc'[v] = upc[v]
    BY <2>1 DEF RowsTyped
  <2> QED BY <1>1, <1>2, <2>1, <2>2, ReportRetry DEF UnderWay
<1> QED BY <1>3, <1>4

\* The end of a recovery leaves the rows rolled back, or partly undone.
LEMMA FinishRetry ==
  ASSUME RowInv, RetryInv, NEW u \in Undos, Finish(u) \/ FinishFails(u)
  PROVE  RetryInv'
<1> USE DEF RowInv
<1> DEFINE d == Target[u]
<1>1. d \in Deploys
  BY UndosAreNamed
<1>2. /\ upc[u] = "undoing"
      /\ \/ row' = Conclusion(u) /\ Idle(u) /\ lost' = lost \ {u}
         \/ /\ UNCHANGED row \/ row' = Conclusion(u)
            /\ upc' = [upc EXCEPT ![u] = "releasing"] /\ UNCHANGED <<prior, lost>>
  BY DEF Finish, FinishFails
<1>3. /\ \A v \in Undos \ {u} : upc'[v] = upc[v] /\ prior'[v] = prior[v] /\ (v \in lost' <=> v \in lost)
      /\ row' = Conclusion(u) \/ (UNCHANGED row /\ upc'[u] = "releasing")
  BY <1>2, IdleElsewhere DEF RowsTyped
<1>4. ReadBack(u)'
  <2>1. CASE Idle(u)
    BY <2>1, IdleElsewhere
  <2>2. CASE UNCHANGED prior
    BY <1>2, <2>2 DEF RetryInv, ReadBack
  <2> QED BY <1>2, <2>1, <2>2
<1>5. CASE UNCHANGED row /\ upc'[u] = "releasing"
  <2>1. OthersAlone(u) /\ UnderWay(u) /\ UnderWay(u)'
    BY <1>2, <1>3, <1>5 DEF OthersAlone, UnderWay
  <2> QED BY <1>4, <1>5, <2>1, SameRowRetry
<1>6. CASE row' = Conclusion(u)
  <2>1. /\ \A t \in Tables, e \in Deploys \ {d} : row'[t][e] = row[t][e]
        /\ \A t \in Tables : /\ row'[t][d].status = row[t][d].status
                             /\ Exists(t, d) =>
                                  /\ row'[t][d].rolledBack = AllDone(u)
                                  /\ row'[t][d].undo = IF AllDone(u) THEN "COMPLETED" ELSE "PARTIAL"
    BY <1>6, ConclusionTyped
  <2>2. OthersAlone(u)
    BY <1>3, <2>1, TablesAre DEF OthersAlone
  <2>3. InHand(d)'
    <3>1. Exists("deployment", d)' =>
            row'["deployment"][d].rolledBack \/ row'["deployment"][d].undo = "PARTIAL"
      BY <2>1, TablesAre DEF Exists
    <3> QED BY <3>1 DEF InHand, Unrolled, Reclaimable
  <2> QED BY <1>4, <2>2, <2>3, ElsewhereRetry
<1> QED BY <1>3, <1>5, <1>6

\* What an undeploy puts back can be claimed again, or was the claim of another.
LEMMA ReleaseRetry ==
  ASSUME RowInv, RetryInv, NEW u \in Undos, Release(u)
  PROVE  RetryInv'
<1> USE DEF RowInv
<1> DEFINE d == Target[u]
           t == Table[u]
           x == Released(u)
<1>1. t \in Tables /\ d \in Deploys /\ Own(u) \in Rows /\ Own(u) = row[t][d]
  BY OwnTyped DEF Own
<1>2. /\ upc[u] = "releasing" /\ Idle(u)
      /\ lost' = IF PutsBackClaim(u) THEN lost \cup {u} ELSE lost \ {u}
      /\ row' = IF StillClaimed(u) THEN [row EXCEPT ![t][d] = x] ELSE row
  BY DEF Release
<1>3. /\ UnderWay(u) /\ ~UnderWay(u)' /\ ReadBack(u)'
      /\ \A v \in Undos \ {u} : upc'[v] = upc[v] /\ prior'[v] = prior[v] /\ (v \in lost' <=> v \in lost)
  BY <1>2, IdleElsewhere DEF UnderWay
<1>4. CASE StillClaimed(u)
  <2>1. x \in Rows
    BY <1>2, <1>4, ReleasedTyped
  <2> HIDE DEF x, d, t
  <2>2. RowsTyped
    OBVIOUS
  <2>3. row' = [row EXCEPT ![t][d] = x]
    BY <1>2, <1>4
  <2>4. /\ row'[t][d] = x
        /\ \A s \in Tables, e \in Deploys : (s # t \/ e # d) => row'[s][e] = row[s][e]
    BY ONLY <1>1, <2>1, <2>2, <2>3 DEF RowsTyped, RowTables
  <2>5. OthersAlone(u)
    BY <1>3, <2>4, TablesAre DEF OthersAlone, d
  <2>6. CASE t = "deployment"
    <3>1. prior[u].undo \in Reclaimable \cup {"IN_PROGRESS"}
      BY <1>2, <2>6 DEF RetryInv, ReadBack, t
    <3>2. CASE attempted[u]
      <4>1. x.undo \in Reclaimable
        BY <1>1, <3>2 DEF x, Released, Rows, Reclaimable
      <4>2. InHand(d)'
        BY <2>4, <2>6, <4>1 DEF InHand
      <4> QED BY <1>3, <2>5, <4>2, ElsewhereRetry DEF d
    <3>3. CASE ~attempted[u]
      <4>1. x.undo = prior[u].undo
        BY <1>1, <3>3 DEF x, Released, Rows
      <4>2. prior[u].undo = "IN_PROGRESS" => u \in lost'
        BY <1>2, <1>4, <3>3 DEF PutsBackClaim
      <4>3. u \in UndeploysOf(d)
        BY <2>6 DEF UndeploysOf, d, t
      <4>4. InHand(d)'
        BY <1>3, <2>4, <2>6, <3>1, <4>1, <4>2, <4>3 DEF InHand, Explained
      <4> QED BY <1>3, <2>5, <4>4, ElsewhereRetry DEF d
    <3> QED BY <3>2, <3>3
  <2>7. CASE t # "deployment"
    <3>1. row'["deployment"][d] = row["deployment"][d]
      BY <1>1, <2>4, <2>7, TablesAre
    <3> QED BY <1>3, <2>5, <2>7, <3>1, SameRowRetry DEF d, t
  <2> QED BY <2>6, <2>7
<1>5. CASE ~StillClaimed(u)
  <2>1. UNCHANGED row
    BY <1>2, <1>5
  <2>2. OthersAlone(u)
    BY <1>3, <2>1 DEF OthersAlone
  <2>3. t = "deployment" => ~( /\ Unrolled("deployment", d)
                               /\ row["deployment"][d].undo = "IN_PROGRESS"
                               /\ row["deployment"][d].stamp = <<u, "claim">> )
    BY <1>1, <1>5 DEF StillClaimed
  <2> QED BY <1>3, <2>1, <2>2, <2>3, SameRowRetry
<1> QED BY <1>4, <1>5

\* A step that is not a request's: what it leaves alone, row by row.
LEMMA OutsideRetry ==
  ASSUME RetryInv, UNCHANGED <<upc, prior, lost>>,
         \A e \in Deploys : \/ row'["deployment"][e].undo = "none"
                            \/ ~Unrolled("deployment", e)'
                            \/ /\ row'["deployment"][e].undo = row["deployment"][e].undo
                               /\ row'["deployment"][e].stamp = row["deployment"][e].stamp
                               /\ Unrolled("deployment", e)
  PROVE  RetryInv'
<1>1. ASSUME NEW e \in Deploys PROVE InHand(e)'
  <2>1. InHand(e)
    BY DEF RetryInv
  <2>2. row'["deployment"][e].stamp = row["deployment"][e].stamp /\ Explained(e) => Explained(e)'
    BY DEF Explained, UnderWay
  <2> QED BY <2>1, <2>2 DEF InHand, Reclaimable
<1>2. ASSUME NEW u \in Undos PROVE ReadBack(u)'
  BY DEF RetryInv, ReadBack
<1> QED BY <1>1, <1>2 DEF RetryInv

\* A deployment adds its rows without marks, and does not touch the marks later.
LEMMA WorkRetry ==
  ASSUME WriteAheadInv, RowInv, RetryInv, NEW d \in Deploys, Work(d), UNCHANGED lost
  PROVE  RetryInv'
<1> USE DEF RowInv
<1>1. UNCHANGED <<upc, prior, lost>>
  BY WorkFrame
<1>2. CASE UNCHANGED row
  BY <1>1, <1>2, OutsideRetry DEF Exists, Unrolled
<1>3. CASE pc[d] = "begun" /\ AddRow("sync", d)
  <2>1. AddsRow("sync", d)
    BY <1>3, AddRowAdds, TablesAre
  <2>2. \A e \in Deploys : row'["deployment"][e] = row["deployment"][e]
    BY <2>1, TablesAre DEF AddsRow
  <2> QED BY <1>1, <2>2, OutsideRetry DEF Exists, Unrolled
<1>4. CASE pc[d] = "backed" /\ AddRow("deployment", d)
  <2>1. AddsRow("deployment", d)
    BY <1>4, AddRowAdds, TablesAre
  <2>2. /\ \A e \in Deploys \ {d} : row'["deployment"][e] = row["deployment"][e]
        /\ row'["deployment"][d].undo = "none"
    BY <2>1, TablesAre DEF AddsRow
  <2> QED BY <1>1, <2>2, OutsideRetry DEF Exists, Unrolled
<1>5. CASE \E s \in Statuses \ {"none", "deleted"} : Record(d, s)
  <2>1. /\ \A t \in Tables, e \in Deploys \ {d} : row'[t][e] = row[t][e]
        /\ \A t \in Tables : /\ row'[t][d].rolledBack = row[t][d].rolledBack
                             /\ row'[t][d].undo = row[t][d].undo
                             /\ row'[t][d].stamp = row[t][d].stamp
                             /\ Exists(t, d)' <=> Exists(t, d)
    BY <1>5, RecordTyped
  <2>2. \A t \in Tables, e \in Deploys : /\ row'[t][e].undo = row[t][e].undo
                                         /\ row'[t][e].stamp = row[t][e].stamp
                                         /\ Unrolled(t, e)' <=> Unrolled(t, e)
    BY <2>1 DEF Exists, Unrolled
  <2> QED BY <1>1, <2>2, TablesAre, OutsideRetry
<1> QED BY <1>2, <1>3, <1>4, <1>5, WorkWrites

\* A history that is deleted has no row to recover.
LEMMA DeleteRetry ==
  ASSUME RowInv, RetryInv, NEW d \in Deploys, Delete(d)
  PROVE  RetryInv'
<1> USE DEF RowInv
<1> DEFINE x == [NoRow EXCEPT !.status = "deleted"]
<1>1. /\ UNCHANGED <<upc, prior, lost>>
      /\ UNCHANGED row \/ row' = [row EXCEPT !["deployment"][d] = x]
  BY DEF Delete, undoVars
<1>2. CASE UNCHANGED row
  BY <1>1, <1>2, OutsideRetry DEF Exists, Unrolled
<1>3. CASE row' = [row EXCEPT !["deployment"][d] = x]
  <2>1. x \in Rows /\ x.undo = "none"
    BY NoRowTyped DEF NoRow
  <2> HIDE DEF x
  <2>2. RowsTyped /\ "deployment" \in Tables
    BY TablesAre
  <2>3. /\ row'["deployment"][d] = x
        /\ \A s \in Tables, e \in Deploys : (s # "deployment" \/ e # d) => row'[s][e] = row[s][e]
    BY ONLY <1>3, <2>1, <2>2 DEF RowsTyped, RowTables
  <2>4. /\ row'["deployment"][d].undo = "none"
        /\ \A e \in Deploys \ {d} : row'["deployment"][e] = row["deployment"][e]
    BY <2>1, <2>3, TablesAre
  <2> QED BY <1>1, <2>4, OutsideRetry DEF Exists, Unrolled
<1> QED BY <1>1, <1>2, <1>3

\* After a restart what was in progress is partly undone.
LEMMA RestartRetry == ASSUME RowInv, RetryInv, Restart PROVE RetryInv'
<1> USE DEF RowInv
<1>1. row' = Reconciled /\ \A u \in Undos : upc'[u] = "idle"
  BY DEF Restart
<1>2. \A t \in Tables, d \in Deploys : Exists(t, d)' <=> Exists(t, d)
  BY <1>1, ReconciliationIsGentle DEF Gentle, SameKind, Gone, Exists
<1>3. \A t \in Tables, d \in Deploys : Unrolled(t, d)' <=> Unrolled(t, d)
  BY <1>1, <1>2, ReconciledTyped DEF Unrolled
<1>4. \A d \in Deploys : row["deployment"][d] \in Rows
  BY TablesAre DEF RowsTyped, RowTables
<1>5. \A d \in Deploys :
        row'["deployment"][d].undo = IF row["deployment"][d].undo = "IN_PROGRESS" THEN "PARTIAL"
                                     ELSE row["deployment"][d].undo
  <2>1. \A d \in Deploys : row'["deployment"][d] = ReconciledDeployment(d)
    BY <1>1, TablesAre DEF Reconciled
  <2> QED BY <1>4, <2>1 DEF ReconciledDeployment, Rows
<1>6. ASSUME NEW d \in Deploys PROVE InHand(d)'
  <2>1. InHand(d)
    BY DEF RetryInv
  <2> QED BY <1>3, <1>5, <2>1, TablesAre DEF InHand, Reclaimable
<1>7. \A u \in Undos : ReadBack(u)'
  BY <1>1 DEF ReadBack
<1> QED BY <1>6, <1>7 DEF RetryInv

LEMMA NextRetry ==
  WriteAheadInv /\ RowInv /\ RowInv' /\ RetryInv /\ [Next]_vars => RetryInv'
<1> SUFFICES ASSUME WriteAheadInv, RowInv, RowInv', RetryInv, [Next]_vars PROVE RetryInv'
  OBVIOUS
<1>1. ASSUME UNCHANGED <<row, upc, prior, lost>> PROVE RetryInv'
  BY <1>1, OutsideRetry DEF Exists, Unrolled
<1>2. ASSUME NEW d \in Deploys, Begin(d) \/ CheckDelete(d) PROVE RetryInv'
  BY <1>1, <1>2 DEF Begin, CheckDelete, undoVars
<1>3. ASSUME NEW d \in Deploys, Work(d) PROVE RetryInv'
  <2>1. UNCHANGED lost
    <3>1. CASE CreateBackup(d) \/ CreateBackupFails(d) \/ CreateHistory(d) \/ CreateHistoryFails(d)
      BY <3>1 DEF CreateBackup, CreateBackupFails, CreateHistory, CreateHistoryFails
    <3>2. CASE \E r \in Resources : Resource(d, r)
      BY <3>2 DEF Resource, KeepFormat, Intend, Changed, Skip, Step
    <3>3. CASE Write(d) \/ WriteFails(d) \/ Identify(d) \/ IdentifyFails(d)
      BY <3>3 DEF Write, WriteFails, Identify, IdentifyFails, Step
    <3>4. CASE Recheck(d) \/ RecheckFails(d) \/ Verify(d) \/ VerifyFails(d)
      BY <3>4 DEF Recheck, RecheckFails, Verify, VerifyFails, Step
    <3>5. CASE Capture(d) \/ CaptureFails(d)
      BY <3>5 DEF Capture, CaptureFails, Step
    <3>6. CASE Finalize(d) \/ FinalizeFails(d) \/ Fail(d)
      BY <3>6 DEF Finalize, FinalizeFails, Fail
    <3> QED BY <1>3, <3>1, <3>2, <3>3, <3>4, <3>5, <3>6 DEF Work
  <2> QED BY <1>3, <2>1, WorkRetry
<1>4. ASSUME NEW d \in Deploys, Delete(d) PROVE RetryInv'
  BY <1>4, DeleteRetry
<1>5. ASSUME NEW u \in Undos, LookUp(u) \/ ClaimRefused(u) \/ EnterTooLate(u) PROVE RetryInv'
  BY <1>5, StillRetry
<1>6. ASSUME NEW u \in Undos, Claim(u) PROVE RetryInv'
  BY <1>6, ClaimRetry
<1>7. ASSUME NEW u \in Undos, Enter(u) \/ EnterFails(u) PROVE RetryInv'
  BY <1>7, UnderWayRetry
<1>8. ASSUME NEW u \in Undos, Recover(u) PROVE RetryInv'
  BY <1>8, UnderWayRetry, FinishRetry, ReleaseRetry, StillRetry DEF Recover
<1>9. ASSUME NEW r \in Resources, Edit(r) \/ \E d \in Deploys : Restore(d, r) PROVE RetryInv'
  BY <1>1, <1>9 DEF Edit, Restore, undoVars
<1>10. CASE Restart
  BY <1>10, RestartRetry
<1>11. CASE UNCHANGED vars
  BY <1>1, <1>11 DEF vars
<1> QED BY <1>2, <1>3, <1>4, <1>5, <1>6, <1>7, <1>8, <1>9, <1>10, <1>11 DEF Next

LEMMA RetryKept == Spec => []RetryInv
<1>1. WriteAheadInv /\ RowInv /\ RowInv' /\ RetryInv /\ [Next]_vars => RetryInv'
  BY NextRetry
<1> QED BY <1>1, InitRetry, RowsKept, PTL DEF Spec

\* An undeploy can be requested again unless a request is under way, one that
\* ended has left a claim behind, or a rollback has replaced the stamp: nothing
\* else, neither failures nor deletions nor any number of overlapping requests
\* of both routes, leaves a deployment row in progress.
THEOREM UndeploysAreRetried == Spec => []UndeployCanBeRetried
<1>1. ASSUME RetryInv, NEW d \in Deploys, Unrolled("deployment", d),
             \A u \in Undos : Target[u] = d => upc[u] \in {"idle", "looked"} /\ u \notin lost,
             \A u \in Undos : row["deployment"][d].stamp # <<u, "inner">>
      PROVE  Claimable("deployment", d)
  <2>1. \A u \in UndeploysOf(d) : ~UnderWay(u) /\ u \notin lost
    BY <1>1 DEF UndeploysOf, UnderWay
  <2>2. ~Explained(d)
    BY <1>1, <2>1 DEF Explained
  <2>3. InHand(d)
    BY <1>1 DEF RetryInv
  <2> QED BY <1>1, <2>2, <2>3 DEF InHand, Claimable, Reclaimable
<1>2. RetryInv => UndeployCanBeRetried
  BY <1>1 DEF UndeployCanBeRetried
<1> QED BY <1>2, RetryKept, PTL

-----------------------------------------------------------------------------
(***************************************************************************)
(* Deployments and recovery requests wind down.                            *)
(***************************************************************************)

\* What a deployment knows of the resource it works on: a format is one it has
\* still to come to, and a profile that is checked again was created.
InStep(d) ==
  /\ AtItem(d) /\ item[d] \in Formats => item[d] \in todo[d]
  /\ pc[d] = "recheck" => mem[d].entry[Profile].known

InSteps == \A d \in Deploys : InStep(d)

\* The numbers, as far as steps are compared by them.
LEMMA StepNumbers ==
  /\ \A k : (k => StepsOn("write", k) = 2) /\ (~k => StepsOn("write", k) = 5)
  /\ \A k : StepsOn("identify", k) = 4 /\ StepsOn("recheck", k) = 3 /\ StepsOn("verify", k) = 1
BY DEF StepsOn

LEMMA Distances ==
  ASSUME NEW r, NEW k
  PROVE  /\ Distance("begun", r, k) = 16 /\ Distance("backed", r, k) = 15
         /\ Distance("formats", r, k) = 14 /\ Distance("capture", r, k) = 8
         /\ Distance("naming", r, k) = 7 /\ Distance("finalize", r, k) = 1
         /\ Distance("failing", r, k) = 1 /\ Distance("over", r, k) = 0
         /\ \A p \in {"write", "identify", "recheck", "verify"} :
              Distance(p, r, k) = StepsOn(p, k) + (IF r = Naming THEN 1 ELSE 8)
<1>1. /\ Distance("begun", r, k) = 16 /\ Distance("backed", r, k) = 15
      /\ Distance("formats", r, k) = 14 /\ Distance("capture", r, k) = 8
  BY DEF Distance
<1>2. /\ Distance("naming", r, k) = 7 /\ Distance("finalize", r, k) = 1
      /\ Distance("failing", r, k) = 1 /\ Distance("over", r, k) = 0
  BY DEF Distance
<1>3. Distance("write", r, k) = StepsOn("write", k) + (IF r = Naming THEN 1 ELSE 8)
  BY DEF Distance
<1>4. Distance("identify", r, k) = StepsOn("identify", k) + (IF r = Naming THEN 1 ELSE 8)
  BY DEF Distance
<1>5. Distance("recheck", r, k) = StepsOn("recheck", k) + (IF r = Naming THEN 1 ELSE 8)
  BY DEF Distance
<1>6. Distance("verify", r, k) = StepsOn("verify", k) + (IF r = Naming THEN 1 ELSE 8)
  BY DEF Distance
<1> QED BY <1>1, <1>2, <1>3, <1>4, <1>5, <1>6

\* At a resource there is more to do than after it, and less than before it.
LEMMA Between ==
  ASSUME NEW p \in {"write", "identify", "recheck", "verify"}, NEW r, NEW k
  PROVE  /\ r = Naming => Distance(p, r, k) \in 2..6
         /\ r # Naming => Distance(p, r, k) \in 9..13
<1>1. StepsOn(p, k) \in 1..5
  <2>1. StepsOn("write", k) \in {2, 5}
    BY DEF StepsOn
  <2>2. p # "write" => StepsOn(p, k) \in {1, 3, 4}
    BY StepNumbers
  <2> QED BY <2>1, <2>2
<1>2. Distance(p, r, k) = StepsOn(p, k) + (IF r = Naming THEN 1 ELSE 8)
  BY Distances
<1> QED BY <1>1, <1>2

\* Steps that bring a deployment nearer to its end, with whatever is to come.
LEMMA NearerAdvances ==
  ASSUME NEW d \in Deploys, todo'[d] \subseteq todo[d], ToEnd(d)' < ToEnd(d)
  PROVE  DeploymentAdvances(d)
BY DEF DeploymentAdvances, Fewer

\* Steps that end a deployment.
LEMMA EndAdvances ==
  ASSUME LedgersTyped, RestTyped, NEW d \in Deploys, Ends(d)
  PROVE  DeploymentAdvances(d)
<1>1. Leave(d) /\ pc[d] \in {"begun", "finalize", "failing"}
  BY DEF Ends, CreateBackupFails, Finalize, FinalizeFails, Fail
<1>2. ToEnd(d) >= 1 /\ ToEnd(d) \in Nat
  BY <1>1, Distances DEF ToEnd
<1>3. todo' = [todo EXCEPT ![d] = {}] /\ pc' = [pc EXCEPT ![d] = "over"]
  BY <1>1 DEF Leave
<1>4. pc'[d] = "over"
  BY <1>3 DEF LedgersTyped
<1>5. ToEnd(d)' = 0
  BY <1>4, Distances DEF ToEnd
<1>6. todo'[d] = {}
  BY <1>3 DEF RestTyped
<1> QED BY <1>2, <1>5, <1>6, NearerAdvances

\* The copy of the ledger that is stored before the second write of a profile
\* keeps what is known of it; the one stored after a creation says it is known.
LEMMA RecheckKnows ==
  ASSUME LedgersTyped, NEW d \in Deploys, mem[d].entry[Profile].known,
         Persist(d, WithEntry(d, Profile, [mem[d].entry[Profile] EXCEPT !.want = d]))
  PROVE  mem'[d].entry[Profile].known
<1> DEFINE e == [mem[d].entry[Profile] EXCEPT !.want = d]
<1>1. Profile \in Resources /\ mem[d] \in Ledger /\ mem \in [Deploys -> Ledger]
  BY DEF LedgersTyped, Resources
<1>2. mem[d].entry[Profile] \in Entry
  BY <1>1, EntryOf
<1>3. e \in Entry /\ e.known
  BY <1>2, DeployIsValue DEF Entry
<1>4. mem' = [mem EXCEPT ![d] = WithEntry(d, Profile, e)]
  BY DEF Persist
<1> HIDE DEF e
<1>5. WithEntry(d, Profile, e).entry[Profile] = e
  BY <1>1, <1>3, WithEntryTyped
<1>6. mem'[d] = WithEntry(d, Profile, e)
  BY <1>1, <1>4
<1> QED BY <1>3, <1>5, <1>6

LEMMA IdentifyKnows ==
  ASSUME LedgersTyped, NEW d \in Deploys, Persist(d, Identified(d))
  PROVE  mem'[d].entry[item[d]].known
<1> DEFINE e == [mem[d].entry[item[d]] EXCEPT !.known = TRUE, !.post = Payload(d)]
<1>1. item[d] \in Resources /\ mem[d] \in Ledger /\ mem \in [Deploys -> Ledger]
  BY DEF LedgersTyped
<1>2. mem[d].entry[item[d]] \in Entry
  BY <1>1, EntryOf
<1>3. e \in Entry /\ e.known
  BY <1>2, PayloadTyped DEF Entry
<1>4. mem' = [mem EXCEPT ![d] = WithEntry(d, item[d], e)]
  BY DEF Persist, Identified
<1> HIDE DEF e
<1>5. WithEntry(d, item[d], e).entry[item[d]] = e
  BY <1>1, <1>3, WithEntryTyped
<1>6. mem'[d] = WithEntry(d, item[d], e)
  BY <1>1, <1>4
<1> QED BY <1>3, <1>5, <1>6

\* Steps that do not end it: before its formats, at a resource and after.
LEMMA StepAdvances ==
  ASSUME LedgersTyped, ItemKnown, InSteps, RestTyped, NEW d \in Deploys, Steps(d)
  PROVE  UNCHANGED <<pc[d], todo[d], item[d], mem[d]>> \/ DeploymentAdvances(d)
<1> DEFINE k == mem[d].entry[item[d]].known
           At == {"write", "identify", "recheck", "verify"}
<1>1. /\ pc \in [Deploys -> Phases] /\ item \in [Deploys -> Resources]
      /\ todo \in [Deploys -> SUBSET Formats]
  BY DEF LedgersTyped, RestTyped
<1>2. ToEnd(d) = Distance(pc[d], item[d], k)
  BY DEF ToEnd
<1>3. ASSUME NEW q, pc'[d] = q, UNCHANGED <<todo, item, mem>>,
             Distance(q, item[d], k) < Distance(pc[d], item[d], k)
      PROVE  DeploymentAdvances(d)
  <2>1. ToEnd(d)' = Distance(q, item[d], k)
    BY <1>3 DEF ToEnd
  <2> QED BY <1>2, <1>3, <2>1, NearerAdvances
<1>4. ASSUME pc' = [pc EXCEPT ![d] = "failing"] \/ pc' = [pc EXCEPT ![d] = "finalize"],
             todo' = todo, pc[d] \in At \cup {"backed", "formats", "capture", "naming"}
      PROVE  DeploymentAdvances(d)
  <2>1. pc'[d] \in {"failing", "finalize"}
    BY <1>1, <1>4
  <2>2. ToEnd(d)' = 1
    BY <2>1, Distances DEF ToEnd
  <2>3. ToEnd(d) \in 2..15
    <3>1. CASE pc[d] \in At
      BY <1>2, <3>1, Between
    <3>2. CASE pc[d] \in {"backed", "formats", "capture", "naming"}
      BY <1>2, <3>2, Distances
    <3> QED BY <1>4, <3>1, <3>2
  <2> QED BY <1>4, <2>2, <2>3, NearerAdvances
<1>5. CASE CreateBackup(d) \/ CreateHistory(d)
  <2>1. /\ UNCHANGED <<todo, item, mem>>
        /\ \/ pc[d] = "begun" /\ pc'[d] = "backed"
           \/ pc[d] = "backed" /\ pc'[d] = "formats"
    BY <1>1, <1>5 DEF CreateBackup, CreateHistory
  <2> HIDE DEF k, At
  <2> QED BY <1>3, <2>1, Distances
<1>6. CASE CreateHistoryFails(d) \/ WriteFails(d) \/ IdentifyFails(d) \/ RecheckFails(d)
             \/ VerifyFails(d) \/ CaptureFails(d)
  <2>1. /\ pc' = [pc EXCEPT ![d] = "failing"] /\ todo' = todo
        /\ pc[d] \in At \cup {"backed", "capture"}
    BY <1>6 DEF CreateHistoryFails, WriteFails, IdentifyFails, RecheckFails, VerifyFails,
       CaptureFails, Failing
  <2> QED BY <1>4, <2>1
<1>7. ASSUME NEW r \in Resources, KeepFormat(d, r) \/ Skip(d, r)
      PROVE  UNCHANGED <<pc[d], todo[d], item[d], mem[d]>> \/ DeploymentAdvances(d)
  <2>1. \/ UNCHANGED <<pc, item, mem>> /\ todo' = [todo EXCEPT ![d] = @ \ {r}]
        \/ todo' = todo /\ pc' = [pc EXCEPT ![d] = "finalize"]
    BY <1>7 DEF KeepFormat, Skip
  <2>2. pc[d] \in {"formats", "naming"}
    BY <1>7 DEF KeepFormat, Skip, Next1
  <2>3. CASE UNCHANGED <<pc, item, mem>> /\ todo' = [todo EXCEPT ![d] = @ \ {r}]
    <3>1. todo'[d] = todo[d] \ {r}
      BY <1>1, <2>3
    <3> QED BY <2>3, <3>1 DEF DeploymentAdvances, Fewer
  <2>4. CASE todo' = todo /\ pc' = [pc EXCEPT ![d] = "finalize"]
    BY <1>4, <2>2, <2>4
  <2> QED BY <2>1, <2>3, <2>4
<1>8. ASSUME NEW r \in Resources, Changed(d, r) PROVE DeploymentAdvances(d)
  <2>1. /\ pc' = [pc EXCEPT ![d] = "failing"] /\ todo' = todo
        /\ pc[d] \in {"formats", "naming"}
    BY <1>8 DEF Changed, Next1, Failing
  <2> QED BY <1>4, <2>1
<1>9. ASSUME NEW r \in Resources, Intend(d, r) PROVE DeploymentAdvances(d)
  <2>1. /\ todo' = todo /\ pc' = [pc EXCEPT ![d] = "write"] /\ item' = [item EXCEPT ![d] = r]
        /\ \/ pc[d] = "naming" /\ r = Naming
           \/ pc[d] = "formats"
    <3>1. Intend(d, r) => /\ todo' = todo /\ pc' = [pc EXCEPT ![d] = "write"]
                          /\ item' = [item EXCEPT ![d] = r]
      BY DEF Intend
    <3>2. Intend(d, r) => (pc[d] = "naming" /\ r = Naming) \/ pc[d] = "formats"
      BY DEF Intend, Next1
    <3> QED BY <1>9, <3>1, <3>2
  <2>2. pc'[d] = "write" /\ item'[d] = r
    BY <1>1, <2>1
  <2> DEFINE j == mem'[d].entry[item'[d]].known
  <2>3. ToEnd(d)' = Distance("write", r, j)
    BY <2>2 DEF ToEnd
  <2> HIDE DEF j, k
  <2>4. (r = Naming => ToEnd(d)' \in 2..6) /\ (r # Naming => ToEnd(d)' \in 9..13)
    BY <2>3, Between
  <2>5. /\ pc[d] = "naming" => ToEnd(d) = 7
        /\ pc[d] = "formats" => ToEnd(d) = 14
    BY <1>2, Distances
  <2>6. ToEnd(d)' < ToEnd(d)
    BY <2>1, <2>4, <2>5
  <2> QED BY <2>1, <2>6, NearerAdvances
<1>10. CASE Write(d)
  <2>1. /\ pc[d] = "write" /\ UNCHANGED <<todo, item, mem>>
        /\ pc' = [pc EXCEPT ![d] = IF k THEN "verify" ELSE "identify"]
    BY <1>10 DEF Write
  <2>2. \/ k /\ pc'[d] = "verify"
        \/ ~k /\ pc'[d] = "identify"
    BY <1>1, <2>1
  <2> HIDE DEF k, At
  <2>3. Distance(pc'[d], item[d], k) < Distance(pc[d], item[d], k)
    <3> DEFINE more == IF item[d] = Naming THEN 1 ELSE 8
    <3>1. more \in Nat
      OBVIOUS
    <3>2. \A p \in {"write", "identify", "verify"} : Distance(p, item[d], k) = StepsOn(p, k) + more
      BY Distances
    <3> HIDE DEF more
    <3>3. StepsOn("identify", k) = 4 /\ StepsOn("verify", k) = 1
      BY StepNumbers
    <3>4. (k => StepsOn("write", k) = 2) /\ (~k => StepsOn("write", k) = 5)
      BY StepNumbers
    <3>5. Distance("verify", item[d], k) = 1 + more /\ Distance("identify", item[d], k) = 4 + more
      BY ONLY <3>2, <3>3
    <3>6. Distance("write", item[d], k) = StepsOn("write", k) + more
      BY ONLY <3>2
    <3>7. CASE k /\ pc'[d] = "verify"
      <4>1. Distance("write", item[d], k) = 2 + more
        BY ONLY <3>4, <3>6, <3>7
      <4>2. Distance(pc'[d], item[d], k) = 1 + more /\ Distance(pc[d], item[d], k) = 2 + more
        BY ONLY <2>1, <3>5, <3>7, <4>1
      <4> QED BY ONLY <3>1, <4>2
    <3>8. CASE ~k /\ pc'[d] = "identify"
      <4>1. Distance("write", item[d], k) = 5 + more
        BY ONLY <3>4, <3>6, <3>8
      <4>2. Distance(pc'[d], item[d], k) = 4 + more /\ Distance(pc[d], item[d], k) = 5 + more
        BY ONLY <2>1, <3>5, <3>8, <4>1
      <4> QED BY ONLY <3>1, <4>2
    <3> QED BY <2>2, <3>7, <3>8
  <2> QED BY <1>3, <2>1, <2>3
<1>11. CASE Identify(d)
  <2>1. /\ pc[d] = "identify" /\ UNCHANGED <<todo, item>>
        /\ pc' = [pc EXCEPT ![d] = IF item[d] = Profile THEN "recheck" ELSE "verify"]
    BY <1>11 DEF Identify
  <2>2. pc'[d] \in {"recheck", "verify"} /\ todo'[d] = todo[d] /\ item'[d] = item[d]
    BY <1>1, <2>1
  <2> DEFINE more == IF item[d] = Naming THEN 1 ELSE 8
             j == mem'[d].entry[item[d]].known
  <2>3. more \in Nat
    OBVIOUS
  <2>4. ToEnd(d) = StepsOn("identify", k) + more
    BY <1>2, <2>1, Distances
  <2>5. ToEnd(d)' = StepsOn(pc'[d], j) + more
    <3>1. ToEnd(d)' = Distance(pc'[d], item[d], j)
      BY <2>2 DEF ToEnd
    <3> HIDE DEF j
    <3> QED BY <2>2, <3>1, Distances
  <2> HIDE DEF more, j, k
  <2>6. StepsOn("identify", k) = 4 /\ StepsOn(pc'[d], j) \in {1, 3}
    BY <2>2, StepNumbers
  <2> QED BY <2>2, <2>3, <2>4, <2>5, <2>6, NearerAdvances
<1>12. CASE Recheck(d)
  <2>1. /\ pc[d] = "recheck" /\ UNCHANGED <<todo, item>> /\ pc' = [pc EXCEPT ![d] = "write"]
        /\ Persist(d, WithEntry(d, Profile, [mem[d].entry[Profile] EXCEPT !.want = d]))
    BY <1>12 DEF Recheck
  <2>2. item[d] = Profile /\ mem[d].entry[Profile].known
    BY <2>1 DEF ItemKnown, InSteps, InStep
  <2>3. mem'[d].entry[Profile].known
    BY <2>1, <2>2, RecheckKnows
  <2>4. pc'[d] = "write" /\ todo'[d] = todo[d] /\ item'[d] = Profile
    BY <1>1, <2>1, <2>2
  <2> DEFINE j == mem'[d].entry[Profile].known
  <2>5. ToEnd(d)' = Distance("write", Profile, j)
    BY <2>4 DEF ToEnd
  <2>6. ToEnd(d) = Distance("recheck", Profile, k)
    BY <1>2, <2>1, <2>2
  <2>7. j
    BY <2>3
  <2> HIDE DEF j, k
  <2>8. ToEnd(d)' = 10 /\ ToEnd(d) = 11
    <3>1. StepsOn("write", j) = 2 /\ StepsOn("recheck", k) = 3
      BY <2>7, StepNumbers
    <3>2. Profile # Naming
      BY ResourcesAreDistinct
    <3> QED BY <2>5, <2>6, <3>1, <3>2, Distances
  <2> QED BY <2>4, <2>8, NearerAdvances
<1>13. CASE Verify(d)
  <2>1. /\ pc[d] = "verify" /\ todo' = [todo EXCEPT ![d] = @ \ {item[d]}] /\ item' = item
        /\ pc' = [pc EXCEPT ![d] = CASE item[d] \in Formats -> "formats"
                                     [] item[d] = Profile -> "capture"
                                     [] item[d] = Naming -> "finalize"]
    BY <1>13 DEF Verify
  <2>2. todo'[d] = todo[d] \ {item[d]}
    BY <1>1, <2>1
  <2>3. CASE item[d] \in Formats
    <3>1. item[d] \in todo[d]
      BY <2>1, <2>3 DEF InSteps, InStep, AtItem
    <3> QED BY <2>2, <3>1 DEF DeploymentAdvances, Fewer
  <2>4. CASE item[d] = Profile
    <3>1. pc'[d] = "capture"
      BY <1>1, <2>1, <2>4, ResourcesAreDistinct
    <3>2. ToEnd(d)' = 8
      BY <3>1, Distances DEF ToEnd
    <3>3. ToEnd(d) \in 9..13
      BY <1>2, <2>1, <2>4, ResourcesAreDistinct, Between
    <3> QED BY <2>2, <3>2, <3>3, NearerAdvances
  <2>5. CASE item[d] = Naming
    <3>1. pc'[d] = "finalize"
      BY <1>1, <2>1, <2>5, ResourcesAreDistinct
    <3>2. ToEnd(d)' = 1
      BY <3>1, Distances DEF ToEnd
    <3>3. ToEnd(d) \in 2..6
      BY <1>2, <2>1, <2>5, Between
    <3> QED BY <2>2, <3>2, <3>3, NearerAdvances
  <2>6. item[d] \in Resources
    BY <1>1
  <2> QED BY <2>3, <2>4, <2>5, <2>6 DEF Resources
<1>14. CASE Capture(d)
  <2>1. /\ pc[d] = "capture" /\ UNCHANGED <<todo, item>>
        /\ pc'[d] \in {"naming", "finalize"}
    BY <1>1, <1>14 DEF Capture
  <2>2. ToEnd(d) = 8 /\ ToEnd(d)' \in {1, 7}
    BY <2>1, Distances DEF ToEnd
  <2> QED BY <2>1, <2>2, NearerAdvances
<1> HIDE DEF k, At
<1> QED
  BY <1>5, <1>6, <1>7, <1>8, <1>9, <1>10, <1>11, <1>12, <1>13, <1>14 DEF Steps, Resource

\* What is known at a resource stays known.
LEMMA StepKeepsInStep ==
  ASSUME LedgersTyped, ItemKnown, InSteps, RestTyped, NEW d \in Deploys, Steps(d)
  PROVE  InStep(d)'
<1> DEFINE At == {"write", "identify", "recheck", "verify"}
<1>1. /\ pc \in [Deploys -> Phases] /\ item \in [Deploys -> Resources]
      /\ todo \in [Deploys -> SUBSET Formats]
  BY DEF LedgersTyped, RestTyped
<1>2. ASSUME pc'[d] \notin At PROVE InStep(d)'
  BY <1>2 DEF InStep, AtItem
<1>3. CASE CreateBackup(d) \/ CreateHistory(d)
  <2>1. pc'[d] \in {"backed", "formats"}
    BY <1>1, <1>3 DEF CreateBackup, CreateHistory
  <2> QED BY <1>2, <2>1
<1>4. CASE CreateHistoryFails(d) \/ WriteFails(d) \/ IdentifyFails(d) \/ RecheckFails(d)
             \/ VerifyFails(d) \/ CaptureFails(d)
  <2>1. pc' = [pc EXCEPT ![d] = "failing"]
    BY <1>4 DEF CreateHistoryFails, WriteFails, IdentifyFails, RecheckFails, VerifyFails,
       CaptureFails, Failing
  <2>2. pc'[d] = "failing"
    BY <1>1, <2>1
  <2> QED BY <1>2, <2>2
<1>5. ASSUME NEW r \in Resources, KeepFormat(d, r) \/ Skip(d, r) \/ Changed(d, r)
      PROVE  InStep(d)'
  <2>1. pc[d] \in {"formats", "naming"}
    BY <1>5 DEF KeepFormat, Skip, Changed, Next1
  <2>2. pc' = pc \/ \E x \in {"finalize", "failing"} : pc' = [pc EXCEPT ![d] = x]
    BY <1>5 DEF KeepFormat, Skip, Changed, Failing
  <2>3. pc'[d] \in {"formats", "naming", "finalize", "failing"}
    BY <1>1, <2>1, <2>2
  <2> QED BY <1>2, <2>3
<1>6. ASSUME NEW r \in Resources, Intend(d, r) PROVE InStep(d)'
  <2>1. /\ pc' = [pc EXCEPT ![d] = "write"] /\ item' = [item EXCEPT ![d] = r]
        /\ todo' = todo /\ Next1(d, r)
    BY <1>6 DEF Intend
  <2>2. pc'[d] = "write" /\ item'[d] = r
    BY <1>1, <2>1
  <2>3. r \in Formats => r \in todo[d]
    BY <2>1, ResourcesAreDistinct DEF Next1
  <2> QED BY <2>1, <2>2, <2>3 DEF InStep
<1>7. CASE Write(d)
  <2>1. /\ pc[d] = "write" /\ UNCHANGED <<todo, item>> /\ pc'[d] \in {"verify", "identify"}
    BY <1>1, <1>7 DEF Write
  <2>2. item[d] \in Formats => item[d] \in todo[d]
    BY <2>1 DEF InSteps, InStep, AtItem
  <2> QED BY <2>1, <2>2 DEF InStep
<1>8. CASE Identify(d)
  <2>1. /\ pc[d] = "identify" /\ UNCHANGED <<todo, item>>
        /\ pc' = [pc EXCEPT ![d] = IF item[d] = Profile THEN "recheck" ELSE "verify"]
        /\ Persist(d, Identified(d))
    BY <1>8 DEF Identify
  <2>2. item[d] \in Formats => item[d] \in todo[d]
    BY <2>1 DEF InSteps, InStep, AtItem
  <2>3. mem'[d].entry[item[d]].known
    BY <2>1, IdentifyKnows
  <2>4. pc'[d] = "recheck" => item[d] = Profile
    BY <1>1, <2>1
  <2> QED BY <2>1, <2>2, <2>3, <2>4 DEF InStep
<1>9. CASE Recheck(d)
  <2>1. /\ pc[d] = "recheck" /\ UNCHANGED <<todo, item>> /\ pc' = [pc EXCEPT ![d] = "write"]
    BY <1>9 DEF Recheck
  <2>2. pc'[d] = "write"
    BY <1>1, <2>1
  <2>3. item[d] \in Formats => item[d] \in todo[d]
    BY <2>1 DEF InSteps, InStep, AtItem
  <2> QED BY <2>1, <2>2, <2>3 DEF InStep
<1>10. CASE Verify(d)
  <2>1. item[d] \in Resources
    BY <1>1
  <2>2. pc' = [pc EXCEPT ![d] = CASE item[d] \in Formats -> "formats"
                                  [] item[d] = Profile -> "capture"
                                  [] item[d] = Naming -> "finalize"]
    BY <1>10 DEF Verify
  <2>3. pc'[d] \in {"formats", "capture", "finalize"}
    BY <1>1, <2>1, <2>2 DEF Resources
  <2> QED BY <1>2, <2>3
<1>11. CASE Capture(d)
  <2>1. pc'[d] \in {"naming", "finalize"}
    BY <1>1, <1>11 DEF Capture
  <2> QED BY <1>2, <2>1
<1> QED BY <1>3, <1>4, <1>5, <1>6, <1>7, <1>8, <1>9, <1>10, <1>11 DEF Steps, Resource

\* A step of a deployment leaves what other deployments are at alone.
LEMMA WorkIsLocal ==
  ASSUME LedgersTyped, ItemKnown, RestTyped, NEW d \in Deploys, Work(d),
         NEW e \in Deploys \ {d}
  PROVE  UNCHANGED <<pc[e], todo[e], item[e], mem[e]>>
<1>1. /\ pc \in [Deploys -> Phases] /\ item \in [Deploys -> Resources]
      /\ todo \in [Deploys -> SUBSET Formats] /\ mem \in [Deploys -> Ledger]
  BY DEF LedgersTyped, RestTyped
<1>2. CASE Steps(d)
  <2>1. LedgerStep(d)
    BY <1>2, StepsAreLedgerSteps
  <2>2. pc'[e] = pc[e]
    <3>1. UNCHANGED pc \/ \E x \in Phases : pc' = [pc EXCEPT ![d] = x]
      BY <2>1 DEF LedgerStep
    <3> QED BY <1>1, <3>1
  <2>3. item'[e] = item[e]
    <3>1. UNCHANGED item \/ \E r \in Resources : item' = [item EXCEPT ![d] = r]
      BY <2>1 DEF LedgerStep
    <3> QED BY <1>1, <3>1
  <2>4. mem'[e] = mem[e]
    <3>1. UNCHANGED mem \/ \E l \in Ledger : mem' = [mem EXCEPT ![d] = l]
      BY <2>1 DEF LedgerStep, Persist
    <3> QED BY <1>1, <3>1
  <2>5. todo'[e] = todo[e]
    <3>1. CASE CreateBackup(d) \/ CreateHistory(d) \/ CreateHistoryFails(d)
      BY <3>1 DEF CreateBackup, CreateHistory, CreateHistoryFails
    <3>2. ASSUME NEW r \in Resources, Resource(d, r) PROVE todo'[e] = todo[e]
      <4>1. UNCHANGED todo \/ todo' = [todo EXCEPT ![d] = @ \ {r}]
        BY <3>2 DEF Resource, KeepFormat, Intend, Changed, Skip
      <4> QED BY <1>1, <4>1
    <3>3. CASE Write(d) \/ WriteFails(d) \/ Identify(d) \/ IdentifyFails(d)
      BY <3>3 DEF Write, WriteFails, Identify, IdentifyFails
    <3>4. CASE Recheck(d) \/ RecheckFails(d) \/ VerifyFails(d)
      BY <3>4 DEF Recheck, RecheckFails, VerifyFails
    <3>5. CASE Verify(d)
      <4>1. todo' = [todo EXCEPT ![d] = @ \ {item[d]}]
        BY <3>5 DEF Verify
      <4> QED BY <1>1, <4>1
    <3>6. CASE Capture(d) \/ CaptureFails(d)
      BY <3>6 DEF Capture, CaptureFails
    <3> QED BY <1>2, <3>1, <3>2, <3>3, <3>4, <3>5, <3>6 DEF Steps
  <2> QED BY <2>2, <2>3, <2>4, <2>5
<1>3. CASE Ends(d)
  <2>1. Leave(d)
    BY <1>3 DEF Ends, CreateBackupFails, Finalize, FinalizeFails, Fail
  <2>2. /\ pc' = [pc EXCEPT ![d] = "over"] /\ item' = [item EXCEPT ![d] = Profile]
        /\ todo' = [todo EXCEPT ![d] = {}] /\ mem' = [mem EXCEPT ![d] = EmptyLedger]
    BY <2>1 DEF Leave
  <2> QED BY <1>1, <2>2
<1> QED BY <1>2, <1>3, WorkIsStepsOrEnds

\* What a request does leaves the deployments alone, and other requests.
LEMMA RequestIsLocal ==
  ASSUME RowsTyped, left \in [Undos -> SUBSET Resources], NEW u \in Undos,
         LookUp(u) \/ Claim(u) \/ ClaimRefused(u) \/ Enter(u) \/ EnterFails(u) \/ EnterTooLate(u)
                   \/ Recover(u)
  PROVE  /\ UNCHANGED deployVars
         /\ \A v \in Undos \ {u} : upc'[v] = upc[v] /\ left'[v] = left[v]
<1>1. upc \in [Undos -> {"idle", "looked", "claimed", "undoing", "releasing"}]
  BY DEF RowsTyped
<1>2. Idle(u) => upc' = [upc EXCEPT ![u] = "idle"] /\ left' = [left EXCEPT ![u] = {}]
  BY DEF Idle
<1>3. CASE LookUp(u) \/ Claim(u) \/ ClaimRefused(u)
  BY <1>1, <1>2, <1>3 DEF LookUp, Claim, ClaimRefused
<1>4. CASE Enter(u)
  <2>1. /\ UNCHANGED deployVars /\ upc' = [upc EXCEPT ![u] = "undoing"]
        /\ left' = [left EXCEPT ![u] = Remaining(u)]
    BY <1>4 DEF Enter
  <2> QED BY <1>1, <2>1
<1>5. CASE EnterFails(u) \/ EnterTooLate(u)
  BY <1>1, <1>2, <1>5 DEF EnterFails, EnterTooLate
<1>6. ASSUME NEW r \in Resources, CheckResource(u, r)
      PROVE  UNCHANGED <<deployVars, upc>> /\ \E S : left' = [left EXCEPT ![u] = S]
  BY <1>6 DEF CheckResource
<1>7. ASSUME NEW r \in Resources, CheckUnreported(u, r)
      PROVE  UNCHANGED <<deployVars, left>> /\ upc' = [upc EXCEPT ![u] = "releasing"]
  BY <1>7 DEF CheckUnreported
<1>8. CASE \E r \in Resources : CheckResource(u, r) \/ CheckUnreported(u, r)
  BY <1>1, <1>6, <1>7, <1>8
<1>9. CASE Finish(u) \/ FinishFails(u) \/ Release(u) \/ ReleaseFails(u)
  BY <1>1, <1>2, <1>9 DEF Finish, FinishFails, Release, ReleaseFails
<1> QED BY <1>3, <1>4, <1>5, <1>8, <1>9 DEF Recover

\* What a request does brings it nearer to its end.
LEMMA RequestGoesOn ==
  ASSUME RowsTyped, left \in [Undos -> SUBSET Resources], NEW u \in Undos, upc[u] # "idle",
         LookUp(u) \/ Claim(u) \/ ClaimRefused(u) \/ Enter(u) \/ EnterFails(u) \/ EnterTooLate(u)
                   \/ Recover(u)
  PROVE  RequestAdvances(u)
<1>1. upc \in [Undos -> {"idle", "looked", "claimed", "undoing", "releasing"}]
  BY DEF RowsTyped
<1>2. /\ RequestStep("looked") = 4 /\ RequestStep("claimed") = 3 /\ RequestStep("undoing") = 2
      /\ RequestStep("releasing") = 1 /\ RequestStep("idle") = 0
  BY DEF RequestStep
<1>3. Idle(u) => upc'[u] = "idle"
  BY <1>1 DEF Idle
<1>4. CASE LookUp(u) \/ Claim(u) \/ ClaimRefused(u)
  <2>1. upc[u] = "looked" /\ upc'[u] \in {"claimed", "idle"}
    BY <1>1, <1>3, <1>4 DEF LookUp, Claim, ClaimRefused
  <2> QED BY <1>2, <2>1 DEF RequestAdvances
<1>5. CASE Enter(u) \/ EnterFails(u) \/ EnterTooLate(u)
  <2>1. upc[u] = "claimed" /\ upc'[u] \in {"undoing", "releasing", "idle"}
    BY <1>1, <1>3, <1>5 DEF Enter, EnterFails, EnterTooLate
  <2> QED BY <1>2, <2>1 DEF RequestAdvances
<1>6. ASSUME NEW r \in Resources, CheckResource(u, r) PROVE RequestAdvances(u)
  <2>1. upc' = upc /\ r \in left[u]
    BY <1>6 DEF CheckResource, Check, NextUndo
  <2>2. \E S \in {{}, left[u] \ {r}} : left' = [left EXCEPT ![u] = S]
    BY <1>6 DEF CheckResource
  <2>3. left'[u] \in {{}, left[u] \ {r}}
    BY <2>2
  <2> QED BY <2>1, <2>3 DEF RequestAdvances, Fewer
<1>7. ASSUME NEW r \in Resources, CheckUnreported(u, r) PROVE RequestAdvances(u)
  <2>1. upc[u] = "undoing" /\ upc' = [upc EXCEPT ![u] = "releasing"]
    BY <1>7 DEF CheckUnreported, Check, NextUndo
  <2>2. upc'[u] = "releasing"
    BY <1>1, <2>1
  <2> QED BY <1>2, <2>1, <2>2 DEF RequestAdvances
<1>8. CASE Finish(u) \/ FinishFails(u)
  <2>1. upc[u] = "undoing" /\ upc'[u] \in {"releasing", "idle"}
    BY <1>1, <1>3, <1>8 DEF Finish, FinishFails
  <2> QED BY <1>2, <2>1 DEF RequestAdvances
<1>9. CASE Release(u) \/ ReleaseFails(u)
  <2>1. upc[u] = "releasing" /\ upc'[u] = "idle"
    BY <1>3, <1>9 DEF Release, ReleaseFails
  <2> QED BY <1>2, <2>1 DEF RequestAdvances
<1> QED BY <1>4, <1>5, <1>6, <1>7, <1>8, <1>9 DEF Recover

LEMMA InitInSteps == Init => InSteps
BY DEF Init, InSteps, InStep, AtItem

\* Steps that leave the deployments' own state alone.
DeployStill == UNCHANGED <<pc, todo, item, mem>>

\* A step of the system, as far as deployments and requests see it.
LEMMA NextIsOfOne ==
  ASSUME RowsTyped, left \in [Undos -> SUBSET Resources], [Next]_vars
  PROVE  \/ \E d \in Deploys : (Begin(d) \/ Work(d)) /\ UNCHANGED <<upc, left>>
         \/ \E u \in Undos :
              /\ LookUp(u) \/ Claim(u) \/ ClaimRefused(u) \/ Enter(u) \/ EnterFails(u)
                           \/ EnterTooLate(u) \/ Recover(u)
              /\ DeployStill
         \/ DeployStill /\ UNCHANGED <<upc, left>>
         \/ Restart
<1>1. ASSUME NEW d \in Deploys, Begin(d) PROVE UNCHANGED <<upc, left>>
  BY <1>1 DEF Begin, undoVars
<1>2. ASSUME NEW d \in Deploys, Work(d) PROVE UNCHANGED <<upc, left>>
  <2>1. CASE CreateBackup(d) \/ CreateBackupFails(d) \/ CreateHistory(d) \/ CreateHistoryFails(d)
    BY <2>1 DEF CreateBackup, CreateBackupFails, CreateHistory, CreateHistoryFails, undoVars
  <2>2. CASE \E r \in Resources : Resource(d, r)
    BY <2>2 DEF Resource, KeepFormat, Intend, Changed, Skip, Step, undoVars
  <2>3. CASE Write(d) \/ WriteFails(d) \/ Identify(d) \/ IdentifyFails(d)
    BY <2>3 DEF Write, WriteFails, Identify, IdentifyFails, Step, undoVars
  <2>4. CASE Recheck(d) \/ RecheckFails(d) \/ Verify(d) \/ VerifyFails(d)
    BY <2>4 DEF Recheck, RecheckFails, Verify, VerifyFails, Step, undoVars
  <2>5. CASE Capture(d) \/ CaptureFails(d)
    BY <2>5 DEF Capture, CaptureFails, Step, undoVars
  <2>6. CASE Finalize(d) \/ FinalizeFails(d) \/ Fail(d)
    BY <2>6 DEF Finalize, FinalizeFails, Fail, undoVars
  <2> QED BY <1>2, <2>1, <2>2, <2>3, <2>4, <2>5, <2>6 DEF Work
<1>3. ASSUME NEW d \in Deploys, CheckDelete(d) \/ Delete(d)
      PROVE  DeployStill /\ UNCHANGED <<upc, left>>
  BY <1>3 DEF CheckDelete, Delete, DeployStill, deployVars, undoVars
<1>4. ASSUME NEW u \in Undos, LookUp(u) \/ Claim(u) \/ ClaimRefused(u) \/ Enter(u)
                                \/ EnterFails(u) \/ EnterTooLate(u) \/ Recover(u)
      PROVE  DeployStill
  BY <1>4, RequestIsLocal DEF DeployStill, deployVars
<1>5. ASSUME NEW r \in Resources, Edit(r) \/ \E d \in Deploys : Restore(d, r)
      PROVE  DeployStill /\ UNCHANGED <<upc, left>>
  BY <1>5 DEF Edit, Restore, DeployStill, deployVars, undoVars
<1>6. UNCHANGED vars => DeployStill /\ UNCHANGED <<upc, left>>
  BY DEF vars, DeployStill
<1> QED BY <1>1, <1>2, <1>3, <1>4, <1>5, <1>6 DEF Next

LEMMA NextInSteps ==
  ASSUME WriteAheadInv, RestTyped, RowsTyped, left \in [Undos -> SUBSET Resources],
         InSteps, [Next]_vars
  PROVE  InSteps'
<1>1. LedgersTyped /\ ItemKnown
  BY DEF WriteAheadInv
<1>2. pc \in [Deploys -> Phases] /\ todo \in [Deploys -> SUBSET Formats]
  BY <1>1 DEF LedgersTyped, RestTyped
<1>3. ASSUME NEW d \in Deploys, Begin(d) PROVE InSteps'
  <2>1. pc'[d] = "begun" /\ UNCHANGED <<item, mem>>
    BY <1>2, <1>3 DEF Begin
  <2>2. \A e \in Deploys \ {d} : pc'[e] = pc[e] /\ todo'[e] = todo[e]
    BY <1>2, <1>3 DEF Begin
  <2>3. InStep(d)'
    BY <2>1 DEF InStep, AtItem
  <2>4. \A e \in Deploys \ {d} : InStep(e)'
    BY <2>1, <2>2 DEF InSteps, InStep, AtItem
  <2> QED BY <2>3, <2>4 DEF InSteps
<1>4. ASSUME NEW d \in Deploys, Work(d) PROVE InSteps'
  <2>1. InStep(d)'
    <3>1. CASE Steps(d)
      BY <1>1, <3>1, StepKeepsInStep
    <3>2. CASE Ends(d)
      <4>1. Leave(d)
        BY <3>2 DEF Ends, CreateBackupFails, Finalize, FinalizeFails, Fail
      <4>2. pc'[d] = "over"
        BY <1>2, <4>1 DEF Leave
      <4> QED BY <4>2 DEF InStep, AtItem
    <3> QED BY <1>4, <3>1, <3>2, WorkIsStepsOrEnds
  <2>2. ASSUME NEW e \in Deploys \ {d} PROVE InStep(e)'
    <3>1. UNCHANGED <<pc[e], todo[e], item[e], mem[e]>>
      BY <1>1, <1>4, WorkIsLocal
    <3> QED BY <3>1 DEF InSteps, InStep, AtItem
  <2> QED BY <2>1, <2>2 DEF InSteps
<1>5. DeployStill => InSteps'
  BY DEF DeployStill, InSteps, InStep, AtItem
<1>6. CASE Restart
  <2>1. \A d \in Deploys : pc'[d] \in {"new", "over"}
    BY <1>6 DEF Restart
  <2> QED BY <2>1 DEF InSteps, InStep, AtItem
<1> QED BY <1>3, <1>4, <1>5, <1>6, NextIsOfOne

\* What a step does to a deployment at work.
LEMMA NextAdvances ==
  ASSUME WriteAheadInv, RestTyped, RowsTyped, left \in [Undos -> SUBSET Resources],
         InSteps, [Next]_vars, NEW d \in Deploys, pc[d] \notin {"new", "over"}
  PROVE  UNCHANGED <<pc[d], todo[d], item[d], mem[d]>> \/ DeploymentAdvances(d)
<1>1. LedgersTyped /\ ItemKnown
  BY DEF WriteAheadInv
<1>2. pc \in [Deploys -> Phases] /\ todo \in [Deploys -> SUBSET Formats]
  BY <1>1 DEF LedgersTyped, RestTyped
<1>3. ASSUME NEW e \in Deploys, Begin(e)
      PROVE  UNCHANGED <<pc[d], todo[d], item[d], mem[d]>>
  <2>1. pc[e] = "new" /\ UNCHANGED <<item, mem>>
    BY <1>3 DEF Begin
  <2>2. \E x, S : pc' = [pc EXCEPT ![e] = x] /\ todo' = [todo EXCEPT ![e] = S]
    BY <1>3 DEF Begin
  <2> QED BY <1>2, <2>1, <2>2
<1>4. ASSUME NEW e \in Deploys, Work(e)
      PROVE  UNCHANGED <<pc[d], todo[d], item[d], mem[d]>> \/ DeploymentAdvances(d)
  <2>1. CASE e = d
    BY <1>1, <1>4, <2>1, WorkIsStepsOrEnds, StepAdvances, EndAdvances
  <2>2. CASE e # d
    BY <1>1, <1>4, <2>2, WorkIsLocal
  <2> QED BY <2>1, <2>2
<1>5. DeployStill => UNCHANGED <<pc[d], todo[d], item[d], mem[d]>>
  BY DEF DeployStill
<1>6. CASE Restart
  <2>1. pc'[d] = "over" /\ todo'[d] = {}
    BY <1>6 DEF Restart
  <2>2. ToEnd(d)' = 0
    BY <2>1, Distances DEF ToEnd
  <2>3. ToEnd(d) \in 1..16
    <3> DEFINE k == mem[d].entry[item[d]].known
    <3>1. ToEnd(d) = Distance(pc[d], item[d], k)
      BY DEF ToEnd
    <3> HIDE DEF k
    <3>2. CASE pc[d] \in {"write", "identify", "recheck", "verify"}
      BY <3>1, <3>2, Between
    <3>3. CASE pc[d] \in {"begun", "backed", "formats", "capture", "naming", "finalize", "failing"}
      BY <3>1, <3>3, Distances
    <3> QED BY <1>2, <3>2, <3>3 DEF Phases
  <2> QED BY <2>1, <2>2, <2>3, NearerAdvances
<1> QED BY <1>3, <1>4, <1>5, <1>6, NextIsOfOne

\* What a step does to a request.
LEMMA NextRequestAdvances ==
  ASSUME RowsTyped, left \in [Undos -> SUBSET Resources], [Next]_vars,
         NEW u \in Undos, upc[u] # "idle"
  PROVE  UNCHANGED <<upc[u], left[u]>> \/ RequestAdvances(u)
<1>1. ASSUME NEW v \in Undos,
             LookUp(v) \/ Claim(v) \/ ClaimRefused(v) \/ Enter(v) \/ EnterFails(v)
                       \/ EnterTooLate(v) \/ Recover(v)
      PROVE  UNCHANGED <<upc[u], left[u]>> \/ RequestAdvances(u)
  <2>1. CASE v = u
    BY <1>1, <2>1, RequestGoesOn
  <2>2. CASE v # u
    BY <1>1, <2>2, RequestIsLocal
  <2> QED BY <2>1, <2>2
<1>2. CASE Restart
  <2>1. upc'[u] = "idle"
    BY <1>2 DEF Restart
  <2>2. upc[u] \in {"looked", "claimed", "undoing", "releasing"}
    BY DEF RowsTyped
  <2>3. RequestStep(upc'[u]) < RequestStep(upc[u])
    BY <2>1, <2>2 DEF RequestStep
  <2> QED BY <2>3 DEF RequestAdvances
<1> QED BY <1>1, <1>2, NextIsOfOne

\* The requests are typed by the invariants above.
LEMMA StepsKept == Spec => []InSteps
<1>1. RowInv /\ CompleteInv /\ RestInv => RowsTyped /\ left \in [Undos -> SUBSET Resources] /\ RestTyped
  BY DEF RowInv, CompleteInv, RestInv
<1>2. WriteAheadInv /\ RowInv /\ CompleteInv /\ RestInv /\ InSteps /\ [Next]_vars => InSteps'
  BY <1>1, NextInSteps
<1>3. WriteAheadInv /\ RowInv /\ RestInv /\ [Next]_vars => RestInv'
  BY NextRest
<1> QED BY <1>2, <1>3, InitInSteps, InitRest, RowsKept, CompleteKept, PTL DEF Spec

\* Whatever fails, whatever users change and however often the process is
\* restarted, every step of a deployment takes it nearer to its end or leaves
\* it fewer formats, and every step of a recovery request takes it on or leaves
\* it fewer resources: neither can go on for ever, and what RecoveryEnds adds
\* is that they go on at all.
THEOREM WorkWindsDown == Spec => WorkRunsOut
<1>1. WriteAheadInv /\ RowInv /\ CompleteInv /\ RestInv /\ InSteps /\ [Next]_vars =>
        [/\ \A d \in Deploys : pc[d] \notin {"new", "over"} =>
              \/ UNCHANGED <<pc[d], todo[d], item[d], mem[d]>>
              \/ DeploymentAdvances(d)
         /\ \A u \in Undos : upc[u] # "idle" =>
              \/ UNCHANGED <<upc[u], left[u]>>
              \/ RequestAdvances(u)]_vars
  <2>1. RowInv /\ CompleteInv /\ RestInv =>
          RowsTyped /\ left \in [Undos -> SUBSET Resources] /\ RestTyped
    BY DEF RowInv, CompleteInv, RestInv
  <2> QED BY <2>1, NextAdvances, NextRequestAdvances
<1>2. WriteAheadInv /\ RowInv /\ RestInv /\ [Next]_vars => RestInv'
  BY NextRest
<1> QED
  BY <1>1, <1>2, InitRest, RowsKept, CompleteKept, StepsKept, PTL DEF Spec, WorkRunsOut
=============================================================================
