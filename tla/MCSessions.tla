---------------------------- MODULE MCSessions ----------------------------
(* Small instances of Sessions: browsers of one account, and of two.       *)
EXTENDS Sessions, TLC

CONSTANTS alice, bob, b1, b2, r1, r2

OneAccount == (b1 :> alice) @@ (b2 :> alice)

Symmetry == Permutations({r1, r2})
=============================================================================
