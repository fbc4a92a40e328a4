---------------------------- MODULE TradeContract ----------------------------
(***************************************************************************)
(* What trading promises.  Holdings change for one player at a time, by    *)
(* whatever else they do; the holdings of two players change in one step   *)
(* only by a swap both of them agreed to: each gives exactly what the      *)
(* other was shown, and neither gives what they do not have.               *)
(***************************************************************************)
EXTENDS Integers

CONSTANTS Players, Goods, None

VARIABLES
  hold,   \* player -> goods -> how many
  deal    \* player -> None, or what they agreed to: with, gives, gets

Nothing(p) == deal[p] = None

Init ==
  /\ \A p \in Players : Nothing(p)

\* Anything that involves one player's holdings alone.
Alone(p) ==
  /\ \A q \in Players \ {p} : hold'[q] = hold[q]
  /\ deal' = deal

\* A player agrees to a deal, or one or more agreements end.
Agree(p) ==
  /\ hold' = hold
  /\ Nothing(p)
  /\ \A q \in Players \ {p} : deal'[q] = deal[q]

Withdraw ==
  /\ hold' = hold
  /\ \A q \in Players : deal'[q] \in {deal[q], None}

\* p agrees to the deal q has agreed to, and it is done.
Swap(p, q) ==
  /\ ~ Nothing(q) /\ deal[q].with = p
  /\ \A g \in Goods :
       /\ deal[q].gives[g] <= hold[q][g]
       /\ deal[q].gets[g] <= hold[p][g]
       /\ hold'[p][g] = hold[p][g] + deal[q].gives[g] - deal[q].gets[g]
       /\ hold'[q][g] = hold[q][g] - deal[q].gives[g] + deal[q].gets[g]
  /\ \A r \in Players \ {p, q} : hold'[r] = hold[r] /\ deal'[r] = deal[r]
  /\ deal'[p] = None /\ deal'[q] = None

Next ==
  \/ \E p \in Players : Alone(p) \/ Agree(p)
  \/ Withdraw
  \/ \E p, q \in Players : p # q /\ Swap(p, q)

Spec == Init /\ [][Next]_<<hold, deal>>

=============================================================================
