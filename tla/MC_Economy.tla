------------------------------ MODULE MC_Economy -----------------------------
(* An instance of Economy for TLC: three tiers, each worth three below it. *)
EXTENDS Economy

MCTierValue == <<1, 3, 9>>
MCAmounts == {<<1, 0, 0>>, <<4, 0, 0>>, <<0, 1, 0>>, <<2, 2, 0>>, <<0, 0, 1>>}
MCGrants == {<<1, 0, 0>>, <<0, 0, 1>>, <<-1, -1, 0>>}

=============================================================================
