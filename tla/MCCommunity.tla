------------------------------ MODULE MCCommunity ------------------------------
(* Two accounts with their default lists. *)
EXTENDS Community, TLC

CONSTANTS ann, bob, l1, l2, l3, h1, h2

MCFirstLists == (ann :> l1) @@ (bob :> l2)

(* The handlers are alike. *)
Alike == Permutations({h1, h2})
=============================================================================
