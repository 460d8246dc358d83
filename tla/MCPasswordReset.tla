-------------------------- MODULE MCPasswordReset --------------------------
(* Small instances of PasswordReset.                                       *)
EXTENDS PasswordReset, TLC

CONSTANTS r1, r2

Symmetry == Permutations({r1, r2})
=============================================================================
