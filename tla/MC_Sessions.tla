---------------------------- MODULE MC_Sessions ----------------------------
(* Instances of Sessions for TLC: one account, with one or two characters.   *)
EXTENDS Sessions

CONSTANT acct

OneAccount == [c \in Chars |-> acct]

=============================================================================
