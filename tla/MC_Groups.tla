----------------------------- MODULE MC_Groups -----------------------------
(* The instance of Groups that TLC checks: players are interchangeable.      *)
EXTENDS Groups

PlayerSymmetry == Permutations(Players)

=============================================================================
