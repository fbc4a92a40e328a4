----------------------------- MODULE MC_Progress -----------------------------
(* An instance of Progress for TLC.                                        *)
EXTENDS Progress

MCBand == <<1, 2, 3>>
MCRequired == [q \in Quests |-> 1]
MCReward == [q \in Quests |-> 1]
MCLevelReq == [q \in Quests |-> 1]

=============================================================================
