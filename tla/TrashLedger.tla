---------------------------- MODULE TrashLedger ----------------------------
(***************************************************************************)
(* The ledger a TRaSH deployment keeps in its backup, and what is decided  *)
(* from ledgers alone (lib/trash-guides/deployment-backup-state.ts,        *)
(* deployment-active-ownership.ts and the three deployment-*-state.ts).    *)
(*                                                                         *)
(* A deployment writes custom formats, then one quality profile, then the  *)
(* naming configuration of one ARR endpoint.  A resource has one value:    *)
(* Absent, Original, what a user made of it, a profile freshly created     *)
(* from the schema (Draft), or the content a deployment gives it, named    *)
(* after the deployment.                                                   *)
(***************************************************************************)
EXTENDS Naturals, FiniteSets

CONSTANTS
  Deploys,            \* deployments
  Formats,            \* custom formats
  Profile, Naming,    \* the quality profile and the naming configuration
  Template,           \* the template of a deployment
  Writes,             \* the formats a deployment writes, and Naming if it does
  Keeps,              \* formats whose conflict is resolved as keep_existing
  Absent, Original, Edited, Draft,
  NoValue             \* a state token that is null

ASSUME ResourcesAreDistinct ==
  /\ Profile # Naming
  /\ {Profile, Naming} \cap Formats = {}

ASSUME ValuesAreDistinct ==
  /\ Cardinality({Absent, Original, Edited, Draft, NoValue}) = 5
  /\ {Absent, Original, Edited, Draft, NoValue} \cap Deploys = {}

ASSUME PlansAreSets ==
  \A d \in Deploys : /\ Writes[d] \subseteq Formats \cup {Naming}
                     /\ Keeps[d] \subseteq Formats \ Writes[d]

Resources == Formats \cup {Profile, Naming}

Values == Deploys \cup {Absent, Original, Edited, Draft}

\* One recorded mutation.  It creates the resource if it was absent before.
\* known: the resource's identity is recorded; post, want: postStateToken and
\* intendedPostStateToken.
Entry == [st: {"none", "pending", "applied"}, before: Values, known: BOOLEAN,
          post: Values \cup {NoValue}, want: Values \cup {NoValue}]

Untouched == [st |-> "none", before |-> Absent, known |-> FALSE,
              post |-> NoValue, want |-> NoValue]

Ledger == [entry: [Resources -> Entry], captured: BOOLEAN,
           managed: [Formats -> Values \cup {NoValue}]]

EmptyLedger == [entry |-> [r \in Resources |-> Untouched], captured |-> FALSE,
                managed |-> [f \in Formats |-> NoValue]]

Creates(e) == e.before = Absent

\* hasPendingDeploymentMutation
HasPending(l) == \E r \in Resources : l.entry[r].st = "pending"

\* ledgerHasMutation.  A ledger without a naming part counts as one.
HasMutation(d, l) ==
  \/ \E r \in Formats \cup {Profile} : l.entry[r].st # "none"
  \/ Naming \notin Writes[d] \/ l.entry[Naming].st # "none"
  \/ l.captured

-----------------------------------------------------------------------------
\* rollbackCustomFormatDeployment, rollbackQualityProfileDeployment and
\* restoreNamingDeployment change nothing upstream.  They succeed if the value
\* found shows that the mutation is already reversed.
Reversed(e, current) ==
  /\ e.known
  /\ IF Creates(e) THEN current = Absent ELSE current = e.before

\* The reconciliation of a deployment that a restart interrupted: classify.
Classified(l) ==
  IF HasPending(l) THEN "UNCERTAIN"
  ELSE IF \E r \in Resources : l.entry[r].st = "applied" THEN "UNCERTAIN"
  ELSE "FAILED"

-----------------------------------------------------------------------------
\* The tokens under which a ledger claims a resource.
Claims(l, r) ==
  {v \in Values : \/ l.entry[r].st # "none" /\ l.entry[r].post = v
                  \/ r \in Formats /\ l.managed[r] = v}

\* Another owner must have a complete ledger of verified mutations, which agree
\* with the identities it captured.
Verifiable(l) ==
  /\ l.captured
  /\ \A r \in Resources :
       /\ l.entry[r].st # "none" => /\ l.entry[r].known
                                    /\ l.entry[r].st = "applied"
                                    /\ l.entry[r].post # NoValue
       /\ Cardinality(Claims(l, r)) <= 1

=============================================================================
