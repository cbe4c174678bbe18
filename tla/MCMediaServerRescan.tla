----------------------- MODULE MCMediaServerRescan -----------------------
(* Instances of MediaServerRescan.  One user has two approvals that need   *)
(* the same two sections of a Plex server.  Two users have an approval     *)
(* each that needs the same Jellyfin server.                                *)
EXTENDS MediaServerRescan, TLC

CONSTANTS u1, u2, s1, s2, s3, plex, jellyfin, x1, x2

OneUserOf == (1 :> u1) @@ (2 :> u1)
OneApprovalOf == (s1 :> 1) @@ (s2 :> 2)
OneOperationOf == (s1 :> plex) @@ (s2 :> plex)
OnePlan == (plex :> {x1, x2})

TwoUserOf == (1 :> u1) @@ (2 :> u2)
TwoApprovalOf == (s1 :> 1) @@ (s2 :> 2)
TwoOperationOf == (s1 :> jellyfin) @@ (s2 :> jellyfin)
TwoPlan == (jellyfin :> {x1})

Symmetry == Permutations(Workers) \cup Permutations(Tokens)
=============================================================================
