---------------------------- MODULE MCArticles ----------------------------
(* An owner, an admin who writes articles in the group, and an outsider.    *)
EXTENDS Articles, TLC

CONSTANTS olga, adam, rita, g1, g2, h1, h2, gh1, gh2

MCFirstRoles == [g \in {g1} |-> (olga :> "owner") @@ (adam :> "admin") @@ (rita :> "none")]

(* The handlers of each kind are alike.                                      *)
Alike == Permutations({h1, h2}) \cup Permutations({gh1, gh2})
=============================================================================
