------------------------------- MODULE MCSignIn -------------------------------
(* The handlers are alike, and so are the accounts at a provider. *)
EXTENDS SignIn, TLC

CONSTANTS h1, h2, x1, x2

Alike == Permutations({h1, h2}) \cup Permutations({x1, x2})
=============================================================================
