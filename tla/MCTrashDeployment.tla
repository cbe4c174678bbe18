------------------------- MODULE MCTrashDeployment -------------------------
(* Small instances of TrashDeployment.  In the one with two deployments, the *)
(* first one writes a format and the naming configuration, the second one   *)
(* keeps the format if it is there.                                         *)
EXTENDS TrashDeployment

CONSTANTS d1, d2, f1, u1, u2, tpl1, tpl2

AllWrite == [d \in Deploys |-> Formats \cup {Naming}]
FirstWrites == [d \in Deploys |-> IF d = d1 THEN Formats \cup {Naming} ELSE {}]
FormatsOnly == [d \in Deploys |-> Formats]
NoFormats == [d \in Deploys |-> {}]
NothingKept == [d \in Deploys |-> {}]
SecondKeeps == [d \in Deploys |-> IF d = d1 THEN {} ELSE Formats]

OneTemplate == [d \in Deploys |-> tpl1]
TwoTemplates == [d \in Deploys |-> IF d = d1 THEN tpl1 ELSE tpl2]

AllThere == [r \in Resources |-> Original]
AllNew == [r \in Resources |-> IF r = Naming THEN Original ELSE Absent]
FormatsNew == [r \in Resources |-> IF r \in Formats THEN Absent ELSE Original]

Rollbacks == [u \in Undos |-> "sync"]
Undeploys == [u \in Undos |-> "deployment"]
BothRoutes == [u \in Undos |-> IF u = u1 THEN "sync" ELSE "deployment"]
OfFirst == [u \in Undos |-> d1]
=============================================================================
