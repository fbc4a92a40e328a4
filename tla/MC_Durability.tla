---------------------------- MODULE MC_Durability ----------------------------
(* An instance of Durability for TLC: an account with two characters and one *)
(* with one; a token that is NO RENT and one that is not.                    *)
EXTENDS Durability, TLC

CONSTANTS alt1, alt2, solo, acctA, acctB

OneAccount == (alt1 :> acctA) @@ (alt2 :> acctA)
Owners == (alt1 :> acctA) @@ (alt2 :> acctA) @@ (solo :> acctB)

\* Not there, nor remembered of somebody who left.
Forgotten(t) ==
  Unborn(t) /\ \A c \in Chars : left[c] # None => \A s \in Stores : t \notin left[c][s]

\* A constraint: one token at a time, and a NO RENT one while no other character
\* of alt1's account is in the world.
Scenes ==
  \E t \in Items : (t \in NoRent => ~ Active(alt2)) /\ \A u \in Items \ {t} : Forgotten(u)

=============================================================================
