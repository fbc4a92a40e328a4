------------------------------- MODULE Groups -------------------------------
(***************************************************************************)
(* Player groups and the loot rotation of the Project Dawn world server:   *)
(* world/groups.rs (GroupManager), the intents of world/tick/grouping.rs,  *)
(* the group half of a departure (tick/session.rs, reap_connection) and    *)
(* the rights and the Round Robin claim of a loot bag (world/loot.rs,      *)
(* tick/looting.rs).                                                       *)
(*                                                                         *)
(* The world loop is single threaded, so every intent is one step; the     *)
(* order of the intents of several players is arbitrary.  An invitation is *)
(* two steps far apart (record_invite, accept), and everything may happen  *)
(* between them.                                                           *)
(***************************************************************************)
EXTENDS Naturals, FiniteSets, SequencesExt

CONSTANTS
  Players,    \* client ids; a client id is the character id
  None,       \* absence: no group, no invitation, no looter
  Bags,       \* loot bags (monster corpses)
  MaxGroups   \* bound: group ids handed out in one run of the server

ASSUME PlayersFinite == IsFiniteSet(Players)
ASSUME NoneIsNobody == None \notin Players /\ None \notin Nat
ASSUME MaxGroupsNat == MaxGroups \in Nat

VARIABLES
  online,        \* players with a connection in the world
  nextId,        \* GroupManager::next_id
  groups,        \* GroupManager::groups, None where there is no such group
  memberGroup,   \* GroupManager::member_to_group
  invites,       \* GroupManager::pending_invites: invitee -> inviter, group
  bags,          \* loot_bags: owner_killer and assigned_looter, None if gone
  passed,        \* history: see RecordTurn
  unfair         \* history: a claim has passed over somebody who was waiting

groupVars == <<nextId, groups, memberGroup, invites>>
ghostVars == <<passed, unfair>>
vars == <<online, groupVars, bags, ghostVars>>

-----------------------------------------------------------------------------
(* Types *)

Gids == 1 .. MaxGroups

LootModes == {"RoundRobin", "FreeForAll"}

Group == [leader : Players, members : Seq(Players),
          lootMode : LootModes, lootTurn : Nat]

ASSUME NoneIsNoGroup == None \notin Group

Invite == [from : Players, gid : Gids]

LootBag == [owner : Players, assigned : Players \cup {None}]

TypeOK ==
  /\ online \subseteq Players
  /\ nextId \in 1 .. MaxGroups + 1
  /\ groups \in [Gids -> Group \cup {None}]
  /\ memberGroup \in [Players -> Gids \cup {None}]
  /\ invites \in [Players -> Invite \cup {None}]
  /\ bags \in [Bags -> LootBag \cup {None}]
  /\ passed \in [Players -> SUBSET Players]
  /\ unfair \in BOOLEAN

Init ==
  /\ online = {}
  /\ nextId = 1
  /\ groups = [g \in Gids |-> None]
  /\ memberGroup = [p \in Players |-> None]
  /\ invites = [p \in Players |-> None]
  /\ bags = [b \in Bags |-> None]
  /\ passed = [p \in Players |-> {}]
  /\ unfair = FALSE

-----------------------------------------------------------------------------
(* The group manager *)

Members(g) == {groups[g].members[i] : i \in DOMAIN groups[g].members}

SameGroup(p, q) == memberGroup[p] # None /\ memberGroup[p] = memberGroup[q]

\* The members without p.  A player is in the list once (RosterSound), so
\* the code's retain(m != p) removes the one entry.
Without(members, p) ==
  LET i == CHOOSE j \in DOMAIN members : members[j] = p
  IN  SubSeq(members, 1, i - 1) \o SubSeq(members, i + 1, Len(members))

NewGroup(p) ==
  [leader |-> p, members |-> <<p>>, lootMode |-> "RoundRobin", lootTurn |-> 0]

\* Nobody of the group g is owed a turn: leave keeps the pointer and shortens
\* the list, so a departure may pass one member over.
ForgetTurns(g) ==
  passed' = [p \in Players |-> IF p \in Members(g) THEN {} ELSE passed[p]]

\* Who leaves the index when p leaves and rest stay: all, if the group dissolves.
Dissolves(rest) == Len(rest) <= 1

Unindexed(g, p, rest) == IF Dissolves(rest) THEN Members(g) ELSE {p}

\* A leader who leaves is followed by the first member.
\* Fault: by nobody.
SuccessorNone(leader, p, rest) == IF leader = p THEN None ELSE leader
Successor(leader, p, rest) == IF leader = p THEN rest[1] ELSE leader

\* GroupManager::leave.  One or no member left dissolves the group.
\* The invitation of a player who is in no group is kept, and loot_turn stays.
Leave(p) ==
  LET g == memberGroup[p]
      rest == Without(groups[g].members, p)
  IN  IF g = None
      THEN UNCHANGED <<groups, memberGroup, invites, passed>>
      ELSE /\ invites' = [invites EXCEPT ![p] = None]
           /\ memberGroup' = [q \in Players |->
                IF q \in Unindexed(g, p, rest) THEN None ELSE memberGroup[q]]
           /\ ForgetTurns(g)
           /\ groups' = IF Dissolves(rest) THEN [groups EXCEPT ![g] = None]
                        ELSE [groups EXCEPT ![g].members = rest,
                                            ![g].leader = Successor(@, p, rest)]

\* The positions of the members scanned by next_loot_turn, in rotation order
\* from the pointer, and the first of them that is eligible.
Scanned(g, offset) == (groups[g].lootTurn + offset) % Len(groups[g].members)

Eligible(g, near) ==
  {o \in 0 .. Len(groups[g].members) - 1 :
     groups[g].members[Scanned(g, o) + 1] \in near}

FirstEligible(g, near) ==
  Scanned(g, CHOOSE o \in Eligible(g, near) :
               \A o2 \in Eligible(g, near) : o <= o2)

\* Where next_loot_turn puts the pointer after the member at position i.
\* Fault: at that member.
TurnAtSame(g, i) == i
TurnAfter(g, i) == (i + 1) % Len(groups[g].members)

\* next_loot_turn answers somebody only in a Round Robin group with an
\* eligible member.
HasTurn(owner, near) ==
  LET g == memberGroup[owner]
  IN  g # None /\ groups[g].lootMode = "RoundRobin" /\ Eligible(g, near) # {}

-----------------------------------------------------------------------------
(* Connections *)

Login(p) ==
  /\ p \notin online
  /\ online' = online \cup {p}
  /\ UNCHANGED <<groupVars, bags, ghostVars>>

\* Fault: the departure leaves the group as it is.
ReapStays(p) ==
  /\ p \in online
  /\ online' = online \ {p}
  /\ UNCHANGED <<groupVars, bags, ghostVars>>

\* reap_connection: a clean leave or the end of a linkdead body's linger.
\* The player leaves the group; an invitation to or from them may stay.
Reap(p) ==
  /\ p \in online
  /\ online' = online \ {p}
  /\ Leave(p)
  /\ UNCHANGED <<nextId, bags, unfair>>

-----------------------------------------------------------------------------
(* The intents of apply_group_intents *)

\* A group id is handed out once.
TakeId == nextId \in Gids /\ nextId' = nextId + 1

\* record_invite: the inviter gets a group of their own first if they have
\* none; a later invitation replaces an earlier one.
InviteTo(p, q) ==
  /\ p \in online /\ q \in online /\ p # q
  /\ IF memberGroup[p] # None
     THEN /\ invites' = [invites EXCEPT ![q] = [from |-> p, gid |-> memberGroup[p]]]
          /\ UNCHANGED <<nextId, groups, memberGroup>>
     ELSE /\ TakeId
          /\ groups' = [groups EXCEPT ![nextId] = NewGroup(p)]
          /\ memberGroup' = [memberGroup EXCEPT ![p] = nextId]
          /\ invites' = [invites EXCEPT ![q] = [from |-> p, gid |-> nextId]]
  /\ UNCHANGED <<online, bags, ghostVars>>

\* accept: the invitation is consumed whatever the answer is; the invitee
\* joins if it is the one named, they are in no group and the group lives.
Accept(q, from) ==
  /\ q \in online /\ invites[q] # None
  /\ invites' = [invites EXCEPT ![q] = None]
  /\ LET g == invites[q].gid
     IN  IF /\ invites[q].from = from
            /\ memberGroup[q] = None
            /\ groups[g] # None
         THEN /\ groups' = [groups EXCEPT ![g].members = Append(@, q)]
              /\ memberGroup' = [memberGroup EXCEPT ![q] = g]
         ELSE UNCHANGED <<groups, memberGroup>>
  /\ UNCHANGED <<online, nextId, bags, ghostVars>>

LeaveGroup(p) ==
  /\ p \in online /\ memberGroup[p] # None
  /\ Leave(p)
  /\ UNCHANGED <<online, nextId, bags, unfair>>

Kick(p, q) ==
  /\ p \in online /\ memberGroup[p] # None
  /\ groups[memberGroup[p]].leader = p
  /\ q \in Members(memberGroup[p]) /\ q \in online /\ q # p
  /\ Leave(q)
  /\ UNCHANGED <<online, nextId, bags, unfair>>

SetLootMode(p, mode) ==
  /\ p \in online /\ memberGroup[p] # None
  /\ groups[memberGroup[p]].leader = p
  /\ groups' = [groups EXCEPT ![memberGroup[p]].lootMode = mode]
  /\ UNCHANGED <<online, nextId, memberGroup, invites, bags, ghostVars>>

PassLeadership(p, q) ==
  /\ p \in online /\ memberGroup[p] # None
  /\ groups[memberGroup[p]].leader = p
  /\ q \in Members(memberGroup[p])
  /\ groups' = [groups EXCEPT ![memberGroup[p]].leader = q]
  /\ UNCHANGED <<online, nextId, memberGroup, invites, bags, ghostVars>>

-----------------------------------------------------------------------------
(* Loot bags *)

\* A monster dies; the top damager owns the bag.
Drop(b, p) ==
  /\ bags[b] = None /\ p \in online
  /\ bags' = [bags EXCEPT ![b] = [owner |-> p, assigned |-> None]]
  /\ UNCHANGED <<online, groupVars, ghostVars>>

\* LootBag::can_loot: the owner, and whoever is in the owner's group now.
CanLoot(p, b) == p = bags[b].owner \/ SameGroup(p, bags[b].owner)

\* The history of a claim by t: passed[p] holds the members who were near at
\* every claim of the group since p's last turn and have had no turn since; it
\* starts again when a member leaves.
RecordTurn(g, t, near) ==
  /\ passed' = [p \in Players |->
       IF p = t THEN Members(g) \ {t}
       ELSE IF p \in Members(g) THEN (passed[p] \cap near) \ {t}
       ELSE passed[p]]
  /\ unfair' = (unfair \/ passed[t] \cap near # {})

\* The first attempt to loot a group's bag claims it for the next member in
\* the rotation who is near, whoever clicked; only that member may take from
\* it (anybody with rights where there is no turn).  near is every connection
\* within GROUP_SHARE_RANGE of the bag, the looter among them; last says that
\* nothing is left in the bag once the looter has taken their pick.
Claims(b, near) == bags[b].assigned = None /\ HasTurn(bags[b].owner, near)

Loot(p, b, near, last) ==
  LET g == memberGroup[bags[b].owner]
      i == FirstEligible(g, near)
      looter == IF Claims(b, near) THEN groups[g].members[i + 1]
                                   ELSE bags[b].assigned
  IN  /\ p \in near /\ near \subseteq online
      /\ bags[b] # None /\ CanLoot(p, b)
      /\ bags' = [bags EXCEPT ![b] =
            IF last /\ looter \in {p, None} THEN None
                                            ELSE [@ EXCEPT !.assigned = looter]]
      /\ IF Claims(b, near)
         THEN /\ groups' = [groups EXCEPT ![g].lootTurn = TurnAfter(g, i)]
              /\ RecordTurn(g, looter, near)
         ELSE UNCHANGED <<groups, ghostVars>>
      /\ UNCHANGED <<online, nextId, memberGroup, invites>>

\* expire_bags_and_corpses: a bag nobody emptied is removed.
Expire(b) ==
  /\ bags[b] # None
  /\ bags' = [bags EXCEPT ![b] = None]
  /\ UNCHANGED <<online, groupVars, ghostVars>>

Next ==
  \/ \E p \in Players : Login(p) \/ Reap(p) \/ LeaveGroup(p)
  \/ \E p, q \in Players :
       InviteTo(p, q) \/ Accept(p, q) \/ Kick(p, q) \/ PassLeadership(p, q)
  \/ \E p \in Players, mode \in LootModes : SetLootMode(p, mode)
  \/ \E b \in Bags, p \in Players : Drop(b, p)
  \/ \E b \in Bags, p \in Players, near \in SUBSET online, last \in BOOLEAN :
       Loot(p, b, near, last)
  \/ \E b \in Bags : Expire(b)

Spec == Init /\ [][Next]_vars

-----------------------------------------------------------------------------
(* Safety *)

\* Groups are sound, whatever the order of invitations, accepts, kicks, leaves
\* and disconnects: a player is in the member list of exactly the group
\* member_to_group names, and has a connection; a living group has members,
\* each once, and one of them leads it; its id was handed out, as was that of
\* every invitation, so a late accept cannot put the invitee into a group made
\* after the invitation.
RosterSound ==
  /\ \A p \in Players, g \in Gids :
       memberGroup[p] = g <=> groups[g] # None /\ p \in Members(g)
  /\ \A p \in Players :
       /\ memberGroup[p] # None => p \in online
       /\ invites[p] # None => invites[p].gid < nextId
  /\ \A g \in Gids : groups[g] # None =>
       /\ g < nextId
       /\ IsInjective(groups[g].members)
       /\ groups[g].leader \in Members(g)

\* Loot turns go round: nobody is given a second turn while a member who was
\* near at every claim in between waits for one, as long as no member leaves
\* the group (groups.rs, next_loot_turn).
TurnsRotate == ~ unfair

=============================================================================
