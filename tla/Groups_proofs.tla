--------------------------- MODULE Groups_proofs ---------------------------
(***************************************************************************)
(* The rosters of the groups and the rotation of the loot, for any number  *)
(* of players, bags and groups.                                            *)
(*                                                                         *)
(* RosterSound is inductive once the types are known: the index and the    *)
(* lists agree in both directions, so the step that takes a player out of  *)
(* one takes them out of the other.  The work is in the two sequences the  *)
(* group manager edits (Append on an accept, Without on a departure) and   *)
(* in the scan of the rotation, which must end at a member.                *)
(*                                                                         *)
(* TurnsRotate needs the order the pointer stands for: whoever was passed  *)
(* over since a member's last turn comes before that member (Rotated).     *)
(***************************************************************************)
EXTENDS Groups, SequenceTheorems, WellFoundedInduction, TLAPS

-----------------------------------------------------------------------------
(* The invariant, in the parts a step may disturb *)

\* The index and the lists agree.
Indexed ==
  \A p \in Players, g \in Gids :
    memberGroup[p] = g <=> groups[g] # None /\ p \in Members(g)

Present == \A p \in Players : memberGroup[p] # None => p \in online

InvitesOld == \A p \in Players : invites[p] # None => invites[p].gid < nextId

Living ==
  \A g \in Gids : groups[g] # None =>
    /\ g < nextId
    /\ IsInjective(groups[g].members)
    /\ groups[g].leader \in Members(g)

IInv == TypeOK /\ RosterSound

LEMMA Parts == RosterSound <=> Indexed /\ Present /\ InvitesOld /\ Living
BY DEF RosterSound, Indexed, Present, InvitesOld, Living

-----------------------------------------------------------------------------
(* Sequences *)

\* A set of naturals that is not empty has a least element.
LEMMA Least ==
  ASSUME NEW T \in SUBSET Nat, T # {}
  PROVE  \E x \in T : \A y \in T : x <= y
<1> DEFINE R == {ss \in Nat \X Nat : ss[1] < ss[2]}
<1>1. IsWellFoundedOn(R, Nat)
  BY NatLessThanWellFounded DEF OpToRel
<1> HIDE DEF R
<1>2. PICK x \in T : \A y \in T : ~ (<<y, x>> \in R)
  BY <1>1, WFMin
<1>3. \A y \in T : ~ (y < x)
  BY <1>2 DEF R
<1> QED
  BY <1>3

\* Who is in a list.
In(x, s) == \E i \in DOMAIN s : s[i] = x

\* A list with one more at its end.
LEMMA AppendFacts ==
  ASSUME NEW S, NEW s \in Seq(S), NEW p \in S, IsInjective(s), ~ In(p, s)
  PROVE  /\ Append(s, p) \in Seq(S)
         /\ IsInjective(Append(s, p))
         /\ \A x : In(x, Append(s, p)) <=> x = p \/ In(x, s)
<1> DEFINE t == Append(s, p)  n == Len(s)
<1>1. /\ t \in Seq(S) /\ Len(t) = n + 1 /\ t[n + 1] = p
      /\ \A i \in 1 .. n : t[i] = s[i]
  BY AppendProperties
<1>2. n \in Nat /\ DOMAIN s = 1 .. n /\ DOMAIN t = 1 .. n + 1
  BY <1>1, LenProperties
<1> HIDE DEF t, n
<1>3. IsInjective(t)
  BY <1>1, <1>2 DEF IsInjective, In
<1>4. \A x : In(x, t) <=> x = p \/ In(x, s)
  BY <1>1, <1>2 DEF In
<1> QED
  BY <1>1, <1>3, <1>4 DEF t

\* A list without one who is in it.
LEMMA WithoutFacts ==
  ASSUME NEW S, NEW s \in Seq(S), NEW p, IsInjective(s), In(p, s)
  PROVE  /\ Without(s, p) \in Seq(S)
         /\ IsInjective(Without(s, p))
         /\ \A x : In(x, Without(s, p)) <=> x # p /\ In(x, s)
<1> DEFINE i == CHOOSE j \in DOMAIN s : s[j] = p
           n == Len(s)
           l == SubSeq(s, 1, i - 1)
           r == SubSeq(s, i + 1, n)
           t == Without(s, p)
<1>1. n \in Nat /\ DOMAIN s = 1 .. n /\ \A j \in 1 .. n : s[j] \in S
  BY LenProperties, ElementOfSeq
<1>2. i \in 1 .. n /\ s[i] = p
  BY <1>1 DEF In
<1>3. t = l \o r
  BY DEF Without
<1> HIDE DEF i, n, t
<1>4. l \in Seq(S) /\ Len(l) = i - 1 /\ \A j \in 1 .. i - 1 : l[j] = s[j]
  <2>1. \A j \in 1 .. i - 1 : s[j] \in S
    BY <1>1, <1>2
  <2>2. /\ l \in Seq(S) /\ Len(l) = IF 1 <= i - 1 THEN (i - 1) - 1 + 1 ELSE 0
        /\ \A j \in 1 .. (i - 1) - 1 + 1 : l[j] = s[1 + j - 1]
    BY <1>1, <1>2, <2>1, SubSeqProperties
  <2> QED
    BY <1>1, <1>2, <2>2
<1>5. r \in Seq(S) /\ Len(r) = n - i /\ \A j \in 1 .. n - i : r[j] = s[i + j]
  <2>1. \A j \in i + 1 .. n : s[j] \in S
    BY <1>1, <1>2
  <2>2. /\ r \in Seq(S) /\ Len(r) = IF i + 1 <= n THEN n - (i + 1) + 1 ELSE 0
        /\ \A j \in 1 .. n - (i + 1) + 1 : r[j] = s[(i + 1) + j - 1]
    BY <1>1, <1>2, <2>1, SubSeqProperties
  <2> QED
    BY <1>1, <1>2, <2>2
<1> HIDE DEF l, r
<1>6. /\ t \in Seq(S) /\ Len(t) = n - 1
      /\ \A j \in 1 .. n - 1 : t[j] = IF j <= i - 1 THEN l[j] ELSE r[j - (i - 1)]
  BY <1>1, <1>2, <1>3, <1>4, <1>5, ConcatProperties
<1>7. \A j \in 1 .. n - 1 : t[j] = IF j < i THEN s[j] ELSE s[j + 1]
  BY <1>1, <1>2, <1>4, <1>5, <1>6
<1>8. DOMAIN t = 1 .. n - 1
  BY <1>6, LenProperties
<1>9. IsInjective(t)
  <2>1. \A j, k \in 1 .. n : s[j] = s[k] => j = k
    BY <1>1 DEF IsInjective
  <2>2. ASSUME NEW j \in 1 .. n - 1, NEW k \in 1 .. n - 1, t[j] = t[k]
        PROVE  j = k
    <3>1. /\ j \in 1 .. n /\ j + 1 \in 1 .. n
          /\ k \in 1 .. n /\ k + 1 \in 1 .. n
      BY <1>1
    <3>2. CASE j < i /\ k < i
      BY <1>7, <2>1, <2>2, <3>1, <3>2
    <3>3. CASE j < i /\ ~ (k < i)
      BY <1>2, <1>7, <2>1, <2>2, <3>1, <3>3
    <3>4. CASE ~ (j < i) /\ k < i
      BY <1>2, <1>7, <2>1, <2>2, <3>1, <3>4
    <3>5. CASE ~ (j < i) /\ ~ (k < i)
      BY <1>7, <2>1, <2>2, <3>1, <3>5
    <3> QED
      BY <3>2, <3>3, <3>4, <3>5
  <2> QED
    BY <1>8, <2>2 DEF IsInjective
<1>10. ASSUME NEW x PROVE In(x, t) <=> x # p /\ In(x, s)
  <2>1. ASSUME In(x, t) PROVE x # p /\ In(x, s)
    <3>1. PICK j \in 1 .. n - 1 : t[j] = x
      BY <1>8, <2>1 DEF In
    <3> QED
      BY <1>1, <1>2, <1>7, <3>1 DEF In, IsInjective
  <2>2. ASSUME x # p, In(x, s) PROVE In(x, t)
    <3>1. PICK j \in 1 .. n : s[j] = x
      BY <1>1, <2>2 DEF In
    <3>2. CASE j < i
      BY <1>1, <1>2, <1>7, <1>8, <3>1, <3>2 DEF In
    <3>3. CASE j > i
      <4>1. j - 1 \in 1 .. n - 1 /\ ~ (j - 1 < i) /\ (j - 1) + 1 = j
        BY <1>1, <1>2, <3>3
      <4> QED
        BY <1>7, <1>8, <3>1, <4>1 DEF In
    <3> QED
      BY <1>1, <1>2, <2>2, <3>1, <3>2, <3>3
  <2> QED
    BY <2>1, <2>2
<1> QED
  BY <1>6, <1>9, <1>10 DEF t

-----------------------------------------------------------------------------
(* Groups *)

LEMMA MembersAre == \A g : \A p : p \in Members(g) <=> In(p, groups[g].members)
BY DEF Members, In

\* A living group is a group, and is not empty.
LEMMA GroupFacts ==
  ASSUME TypeOK, Living, NEW g \in Gids, groups[g] # None
  PROVE  /\ groups[g] \in Group
         /\ groups[g].members \in Seq(Players)
         /\ Len(groups[g].members) \in Nat \ {0}
         /\ Members(g) \subseteq Players
<1>1. groups[g] \in Group
  BY DEF TypeOK
<1>2. groups[g].members \in Seq(Players)
  BY <1>1 DEF Group
<1>3. groups[g].leader \in Members(g)
  BY DEF Living
<1> DEFINE s == groups[g].members
<1>4. Len(s) \in Nat /\ DOMAIN s = 1 .. Len(s) /\ \A i \in 1 .. Len(s) : s[i] \in Players
  BY <1>2, LenProperties, ElementOfSeq
<1> QED
  BY <1>1, <1>2, <1>3, <1>4 DEF Members

\* The scan of the rotation ends at a member.
LEMMA ScanEnds ==
  ASSUME TypeOK, Living, NEW g \in Gids, groups[g] # None,
         NEW near, Eligible(g, near) # {}
  PROVE  /\ FirstEligible(g, near) \in 0 .. Len(groups[g].members) - 1
         /\ groups[g].members[FirstEligible(g, near) + 1] \in Players
<1> DEFINE n == Len(groups[g].members)
           E == Eligible(g, near)
           o == CHOOSE o \in E : \A o2 \in E : o <= o2
<1>1. n \in Nat \ {0} /\ groups[g].lootTurn \in Nat
  BY GroupFacts DEF Group
<1>2. E \subseteq 0 .. n - 1
  BY DEF Eligible
<1>3. E \in SUBSET Nat /\ E # {}
  BY <1>1, <1>2
<1>4. \E x \in E : \A y \in E : x <= y
  BY <1>3, Least
<1>5. o \in Nat
  BY <1>3, <1>4
<1>6. FirstEligible(g, near) = (groups[g].lootTurn + o) % n
  BY DEF FirstEligible, Scanned
<1> HIDE DEF n, o, E
<1>7. FirstEligible(g, near) \in 0 .. n - 1
  BY <1>1, <1>5, <1>6
<1>8. FirstEligible(g, near) + 1 \in 1 .. n
  BY <1>1, <1>7
<1> QED
  BY <1>7, <1>8, GroupFacts, ElementOfSeq DEF n

\* The next pointer is a position too.
LEMMA TurnType ==
  ASSUME TypeOK, Living, NEW g \in Gids, groups[g] # None,
         NEW i \in 0 .. Len(groups[g].members) - 1
  PROVE  TurnAfter(g, i) \in Nat
<1> DEFINE n == Len(groups[g].members)
<1>1. n \in Nat \ {0} /\ TurnAfter(g, i) = (i + 1) % n
  BY GroupFacts DEF TurnAfter
<1> HIDE DEF n
<1> QED
  BY <1>1

-----------------------------------------------------------------------------
(* Steps that edit one group *)

\* A group whose list stays keeps the roster, if it is led by one of its own.
LEMMA SameRoster ==
  ASSUME IInv, NEW g \in Gids, groups[g] # None,
         NEW G \in Group, groups' = [groups EXCEPT ![g] = G],
         G.members = groups[g].members, G.leader \in Members(g),
         UNCHANGED <<online, nextId, memberGroup, invites>>
  PROVE  groups' \in [Gids -> Group \cup {None}] /\ RosterSound'
<1>1. groups' \in [Gids -> Group \cup {None}]
  BY DEF IInv, TypeOK
<1>2. groups'[g] = G /\ G # None /\ \A h \in Gids : h # g => groups'[h] = groups[h]
  BY NoneIsNoGroup DEF IInv, TypeOK
<1>3. \A h \in Gids : /\ groups'[h] # None <=> groups[h] # None
                      /\ groups'[h].members = groups[h].members
                      /\ Members(h)' = Members(h)
  BY <1>2 DEF Members
<1>4. Indexed' /\ Present' /\ InvitesOld'
  BY <1>3, Parts DEF IInv, Indexed, Present, InvitesOld
<1>5. Living'
  BY <1>2, <1>3, Parts DEF IInv, Living
<1> QED
  BY <1>1, <1>4, <1>5 DEF RosterSound, Indexed, Present, InvitesOld, Living

-----------------------------------------------------------------------------
(* A departure *)

\* leave keeps the roster, whether the player stays connected or not.
LEMMA LeaveKept ==
  ASSUME IInv, NEW p \in Players, Leave(p), online \ {p} \subseteq online',
         UNCHANGED nextId
  PROVE  /\ groups' \in [Gids -> Group \cup {None}]
         /\ memberGroup' \in [Players -> Gids \cup {None}]
         /\ invites' \in [Players -> Invite \cup {None}]
         /\ passed' \in [Players -> SUBSET Players]
         /\ RosterSound'
<1> USE DEF IInv
<1>1. CASE memberGroup[p] = None
  <2>1. UNCHANGED <<groups, memberGroup, invites, passed>>
    BY <1>1 DEF Leave
  <2> QED
    BY <1>1, <2>1 DEF TypeOK, RosterSound, Members
<1>2. CASE memberGroup[p] # None
  <2>1. PICK g \in Gids : /\ memberGroup[p] = g
                          /\ groups[g] # None /\ p \in Members(g) /\ g < nextId
    BY <1>2 DEF TypeOK, RosterSound
  <2> DEFINE rest == Without(groups[g].members, p)
  <2>2. /\ invites' = [invites EXCEPT ![p] = None]
        /\ memberGroup' = [q \in Players |->
             IF q \in Unindexed(g, p, rest) THEN None ELSE memberGroup[q]]
        /\ ForgetTurns(g)
        /\ groups' = IF Dissolves(rest) THEN [groups EXCEPT ![g] = None]
                     ELSE [groups EXCEPT ![g].members = rest,
                                         ![g].leader = Successor(@, p, rest)]
    BY <1>2, <2>1 DEF Leave
  <2>3. /\ groups[g] \in Group /\ groups[g].members \in Seq(Players)
        /\ Members(g) \subseteq Players
    BY <2>1, GroupFacts, Parts
  <2>4. /\ rest \in Seq(Players) /\ IsInjective(rest)
        /\ \A x : In(x, rest) <=> x # p /\ x \in Members(g)
    BY <2>1, <2>3, WithoutFacts, MembersAre DEF RosterSound
  <2>5. /\ invites' \in [Players -> Invite \cup {None}]
        /\ memberGroup' \in [Players -> Gids \cup {None}]
        /\ passed' \in [Players -> SUBSET Players]
    BY <2>2 DEF TypeOK, ForgetTurns
  <2>6. InvitesOld'
    BY <2>2 DEF TypeOK, RosterSound, InvitesOld
  <2>7. \A q \in Players : q \in Members(g) <=> memberGroup[q] = g
    BY <2>1 DEF RosterSound
  <2>8. \A h \in Gids : h # g => groups'[h] = groups[h] /\ Members(h)' = Members(h)
    BY <2>1, <2>2 DEF TypeOK, Members
  <2>9. None \notin Gids
    BY NoneIsNobody DEF Gids
  <2> HIDE DEF rest
  <2>10. CASE Dissolves(rest)
    <3>1. groups' \in [Gids -> Group \cup {None}] /\ groups'[g] = None
      BY <2>1, <2>2, <2>10 DEF TypeOK
    <3>2. \A q \in Players :
            memberGroup'[q] = IF memberGroup[q] = g THEN None ELSE memberGroup[q]
      BY <2>2, <2>7, <2>10 DEF Unindexed
    <3>3. Indexed'
      BY <2>8, <2>9, <3>1, <3>2 DEF Indexed, RosterSound
    <3>4. Present'
      BY <2>1, <3>2 DEF Present, RosterSound
    <3>5. Living'
      BY <2>8, <3>1 DEF Living, RosterSound
    <3> QED
      BY <2>5, <2>6, <3>1, <3>3, <3>4, <3>5
      DEF RosterSound, Indexed, Present, InvitesOld, Living
  <2>11. CASE ~ Dissolves(rest)
    <3> DEFINE G == [groups[g] EXCEPT !.members = rest,
                                      !.leader = Successor(@, p, rest)]
    <3>1. In(rest[1], rest) /\ rest[1] \in Players
      <4>1. Len(rest) \in Nat /\ DOMAIN rest = 1 .. Len(rest)
        BY <2>4, LenProperties
      <4>2. 1 \in 1 .. Len(rest)
        BY <2>11, <4>1 DEF Dissolves
      <4> QED
        BY <2>4, <4>1, <4>2, ElementOfSeq DEF In
    <3>2. /\ Successor(groups[g].leader, p, rest) \in Players
          /\ In(Successor(groups[g].leader, p, rest), rest)
      BY <2>1, <2>3, <2>4, <3>1 DEF Successor, Group, RosterSound
    <3>3. /\ G \in Group /\ G.members = rest
          /\ G.leader = Successor(groups[g].leader, p, rest)
      BY <2>3, <2>4, <3>2 DEF Group
    <3>4. groups' = [groups EXCEPT ![g] = G]
      BY <2>2, <2>11
    <3> HIDE DEF G
    <3>5. /\ groups' \in [Gids -> Group \cup {None}]
          /\ groups'[g] = G /\ G # None
      BY <2>1, <3>3, <3>4, NoneIsNoGroup DEF TypeOK
    <3>6. \A q : q \in Members(g)' <=> q # p /\ q \in Members(g)
      <4>1. \A q : q \in Members(g)' <=> In(q, rest)
        BY <3>3, <3>5 DEF Members, In
      <4> QED
        BY <2>4, <4>1
    <3>7. \A q \in Players : memberGroup'[q] = IF q = p THEN None ELSE memberGroup[q]
      BY <2>2, <2>11 DEF Unindexed
    <3>8. Indexed'
      BY <2>1, <2>7, <2>8, <2>9, <3>5, <3>6, <3>7 DEF Indexed, RosterSound
    <3>9. Present'
      BY <3>7 DEF Present, RosterSound
    <3>10. G.leader \in Members(g)'
      BY <2>4, <3>2, <3>3, <3>6
    <3>11. Living'
      BY <2>1, <2>4, <2>8, <3>3, <3>5, <3>10 DEF Living, RosterSound
    <3> QED
      BY <2>5, <2>6, <3>5, <3>8, <3>9, <3>11
      DEF RosterSound, Indexed, Present, InvitesOld, Living
  <2> QED
    BY <2>10, <2>11
<1> QED
  BY <1>1, <1>2

-----------------------------------------------------------------------------
(* The intents *)

LEMMA InviteToKept ==
  ASSUME IInv, NEW p \in Players, NEW q \in Players, InviteTo(p, q)
  PROVE  IInv'
<1> USE DEF IInv
<1>1. CASE memberGroup[p] # None
  <2>1. /\ invites' = [invites EXCEPT ![q] = [from |-> p, gid |-> memberGroup[p]]]
        /\ UNCHANGED <<online, nextId, groups, memberGroup, bags, passed, unfair>>
    BY <1>1 DEF InviteTo, ghostVars
  <2>2. memberGroup[p] \in Gids /\ memberGroup[p] < nextId
    BY <1>1 DEF TypeOK, RosterSound
  <2>3. TypeOK'
    BY <2>1, <2>2 DEF TypeOK, Invite
  <2> QED
    BY <2>1, <2>2, <2>3 DEF TypeOK, RosterSound, Members
<1>2. CASE memberGroup[p] = None
  <2>1. PICK g \in Gids : g = nextId
    BY <1>2 DEF InviteTo, TakeId
  <2>2. /\ p \in online /\ nextId' = g + 1
        /\ groups' = [groups EXCEPT ![g] = NewGroup(p)]
        /\ memberGroup' = [memberGroup EXCEPT ![p] = g]
        /\ invites' = [invites EXCEPT ![q] = [from |-> p, gid |-> g]]
        /\ UNCHANGED <<online, bags, passed, unfair>>
    BY <1>2, <2>1 DEF InviteTo, TakeId, ghostVars
  <2>3. groups[g] = None /\ g \in Nat
    BY <2>1 DEF TypeOK, RosterSound, Gids
  <2>4. /\ NewGroup(p) \in Group /\ NewGroup(p) # None
        /\ NewGroup(p).members = <<p>> /\ NewGroup(p).leader = p
    <3>1. <<p>> \in Seq(Players)
      OBVIOUS
    <3>2. NewGroup(p) \in Group
      BY <3>1 DEF NewGroup, Group, LootModes
    <3> QED
      BY <3>2, NoneIsNoGroup DEF NewGroup
  <2>5. TypeOK'
    BY <2>1, <2>2, <2>3, <2>4, MaxGroupsNat DEF TypeOK, Invite, Gids
  <2>6. /\ groups'[g] = NewGroup(p)
        /\ \A h \in Gids : h # g => groups'[h] = groups[h] /\ Members(h)' = Members(h)
    BY <2>2 DEF TypeOK, Members
  <2>7. Members(g)' = {p} /\ IsInjective(groups'[g].members)
    BY <2>4, <2>6 DEF Members, IsInjective
  <2>8. None \notin Gids
    BY NoneIsNobody DEF Gids
  <2>9. Indexed'
    BY <1>2, <2>2, <2>3, <2>4, <2>6, <2>7, <2>8 DEF TypeOK, RosterSound, Indexed
  <2>10. Present'
    BY <2>2 DEF TypeOK, RosterSound, Present
  <2>11. InvitesOld'
    BY <2>1, <2>2, <2>3, <2>5 DEF TypeOK, RosterSound, InvitesOld, Invite, Gids
  <2>12. Living'
    BY <2>1, <2>2, <2>3, <2>4, <2>6, <2>7 DEF RosterSound, Living, Gids
  <2> QED
    BY <2>5, <2>9, <2>10, <2>11, <2>12
    DEF RosterSound, Indexed, Present, InvitesOld, Living
<1> QED
  BY <1>1, <1>2

LEMMA AcceptKept ==
  ASSUME IInv, NEW q \in Players, NEW from, Accept(q, from)
  PROVE  IInv'
<1> USE DEF IInv
<1>1. PICK g \in Gids : g = invites[q].gid
  BY DEF Accept, TypeOK, Invite
<1>2. /\ q \in online
      /\ invites' = [invites EXCEPT ![q] = None]
      /\ UNCHANGED <<online, nextId, bags, passed, unfair>>
  BY DEF Accept, ghostVars
<1>3. CASE UNCHANGED <<groups, memberGroup>>
  BY <1>2, <1>3 DEF TypeOK, RosterSound, Members
<1>4. CASE ~ UNCHANGED <<groups, memberGroup>>
  <2>1. /\ memberGroup[q] = None /\ groups[g] # None
        /\ groups' = [groups EXCEPT ![g].members = Append(@, q)]
        /\ memberGroup' = [memberGroup EXCEPT ![q] = g]
    BY <1>1, <1>4 DEF Accept
  <2>2. groups[g] \in Group /\ groups[g].members \in Seq(Players)
    BY <2>1, GroupFacts, Parts
  <2> DEFINE longer == Append(groups[g].members, q)
             G == [groups[g] EXCEPT !.members = longer]
  <2>3. None \notin Gids
    BY NoneIsNobody DEF Gids
  <2>4. q \notin Members(g) /\ IsInjective(groups[g].members)
    BY <2>1, <2>3 DEF RosterSound
  <2>5. /\ longer \in Seq(Players) /\ IsInjective(longer)
        /\ \A x : In(x, longer) <=> x = q \/ x \in Members(g)
    BY <2>2, <2>4, AppendFacts, MembersAre
  <2> HIDE DEF longer
  <2>6. G \in Group /\ G.members = longer /\ G.leader = groups[g].leader
    BY <2>2, <2>5 DEF Group
  <2>7. groups' = [groups EXCEPT ![g] = G]
    BY <2>1 DEF longer
  <2> HIDE DEF G
  <2>8. /\ groups'[g] = G /\ G # None
        /\ groups' \in [Gids -> Group \cup {None}]
        /\ \A h \in Gids : h # g => groups'[h] = groups[h] /\ Members(h)' = Members(h)
    BY <2>6, <2>7, NoneIsNoGroup DEF TypeOK, Members
  <2>9. \A x : x \in Members(g)' <=> x = q \/ x \in Members(g)
    <3>1. \A x : x \in Members(g)' <=> In(x, longer)
      BY <2>6, <2>8 DEF Members, In
    <3> QED
      BY <2>5, <3>1
  <2>10. TypeOK'
    BY <1>2, <2>1, <2>8 DEF TypeOK
  <2>11. Indexed'
    <3>1. ASSUME NEW p \in Players, NEW h \in Gids
          PROVE  memberGroup'[p] = h <=> groups'[h] # None /\ p \in Members(h)'
      <4>1. memberGroup[p] = h <=> groups[h] # None /\ p \in Members(h)
        BY DEF RosterSound
      <4>2. memberGroup'[p] = IF p = q THEN g ELSE memberGroup[p]
        BY <2>1 DEF TypeOK
      <4>3. CASE h = g
        BY <2>1, <2>8, <2>9, <4>1, <4>2, <4>3
      <4>4. CASE h # g
        BY <2>1, <2>3, <2>8, <4>1, <4>2, <4>4
      <4> QED
        BY <4>3, <4>4
    <3> QED
      BY <3>1 DEF Indexed
  <2>12. Present' /\ InvitesOld'
    BY <1>2, <2>1 DEF TypeOK, RosterSound, Present, InvitesOld
  <2>13. Living'
    <3>1. ASSUME NEW h \in Gids, groups'[h] # None
          PROVE  /\ h < nextId'
                 /\ IsInjective(groups'[h].members)
                 /\ groups'[h].leader \in Members(h)'
      <4>1. CASE h = g
        BY <1>2, <2>1, <2>5, <2>6, <2>8, <2>9, <4>1 DEF RosterSound
      <4>2. CASE h # g
        BY <1>2, <2>8, <3>1, <4>2 DEF RosterSound
      <4> QED
        BY <4>1, <4>2
    <3> QED
      BY <3>1 DEF Living
  <2> QED
    BY <2>10, <2>11, <2>12, <2>13
    DEF RosterSound, Indexed, Present, InvitesOld, Living
<1> QED
  BY <1>3, <1>4

\* A leader changes the mode or hands the lead to another member.
LEMMA LeaderKept ==
  ASSUME IInv, NEW p \in Players, NEW q \in Players, NEW mode \in LootModes,
         SetLootMode(p, mode) \/ PassLeadership(p, q)
  PROVE  IInv'
<1>1. PICK g \in Gids : g = memberGroup[p] /\ groups[g] # None
  BY DEF IInv, TypeOK, RosterSound, SetLootMode, PassLeadership
<1>2. groups[g] \in Group /\ groups[g].leader \in Members(g)
  BY <1>1, GroupFacts, Parts DEF IInv, RosterSound
<1>3. UNCHANGED <<online, nextId, memberGroup, invites, bags, passed, unfair>>
  BY DEF SetLootMode, PassLeadership, ghostVars
<1>4. PICK G \in Group : /\ groups' = [groups EXCEPT ![g] = G]
                         /\ G.members = groups[g].members /\ G.leader \in Members(g)
  <2>1. CASE SetLootMode(p, mode)
    <3> DEFINE G == [groups[g] EXCEPT !.lootMode = mode]
    <3>1. G \in Group /\ G.members = groups[g].members /\ G.leader = groups[g].leader
      BY <1>2 DEF Group
    <3> QED
      BY <1>1, <1>2, <2>1, <3>1 DEF SetLootMode
  <2>2. CASE PassLeadership(p, q)
    <3> DEFINE G == [groups[g] EXCEPT !.leader = q]
    <3>1. G \in Group /\ G.members = groups[g].members /\ G.leader = q
      BY <1>2 DEF Group
    <3> QED
      BY <1>1, <2>2, <3>1 DEF PassLeadership
  <2> QED
    BY <2>1, <2>2
<1>5. groups' \in [Gids -> Group \cup {None}] /\ RosterSound'
  BY <1>1, <1>3, <1>4, SameRoster
<1> QED
  BY <1>3, <1>5 DEF IInv, TypeOK

-----------------------------------------------------------------------------
(* Loot bags *)

LEMMA LootKept ==
  ASSUME IInv, NEW b \in Bags, NEW p \in Players, NEW near \in SUBSET online,
         NEW last \in BOOLEAN, Loot(p, b, near, last)
  PROVE  IInv'
<1> DEFINE owner == bags[b].owner
           claims == Claims(b, near)
           i == FirstEligible(memberGroup[owner], near)
           looter == IF claims THEN groups[memberGroup[owner]].members[i + 1]
                               ELSE bags[b].assigned
<1>1. bags[b] \in LootBag /\ owner \in Players
  BY DEF Loot, IInv, TypeOK, LootBag
<1>2. UNCHANGED <<online, nextId, memberGroup, invites>>
  BY DEF Loot
<1>3. bags' = [bags EXCEPT ![b] =
         IF last /\ looter \in {p, None} THEN None ELSE [@ EXCEPT !.assigned = looter]]
  BY DEF Loot
<1>4. CASE ~ claims
  <2>1. UNCHANGED <<groups, passed, unfair>> /\ looter = bags[b].assigned
    BY <1>4 DEF Loot, ghostVars
  <2>2. bags' \in [Bags -> LootBag \cup {None}]
    BY <1>1, <1>3, <2>1 DEF IInv, TypeOK, LootBag
  <2> QED
    BY <1>2, <2>1, <2>2 DEF IInv, TypeOK, RosterSound, Members
<1>5. CASE claims
  <2>1. PICK g \in Gids : /\ g = memberGroup[owner] /\ groups[g] # None
                          /\ Eligible(g, near) # {}
    BY <1>1, <1>5 DEF Claims, HasTurn, IInv, TypeOK, RosterSound
  <2>2. Living /\ TypeOK
    BY Parts DEF IInv
  <2>3. /\ i \in 0 .. Len(groups[g].members) - 1
        /\ looter = groups[g].members[i + 1] /\ looter \in Players
    BY <1>5, <2>1, <2>2, ScanEnds
  <2>4. TurnAfter(g, i) \in Nat
    BY <2>1, <2>2, <2>3, TurnType
  <2>5. /\ groups' = [groups EXCEPT ![g].lootTurn = TurnAfter(g, i)]
        /\ RecordTurn(g, looter, near)
    BY <1>5, <2>1 DEF Loot
  <2> HIDE DEF i, looter
  <2>6. groups[g] \in Group /\ groups[g].leader \in Members(g) /\ Members(g) \subseteq Players
    BY <2>1, <2>2, GroupFacts DEF Living
  <2>7. PICK G \in Group : /\ groups' = [groups EXCEPT ![g] = G]
                           /\ G.members = groups[g].members /\ G.leader \in Members(g)
    <3> DEFINE G == [groups[g] EXCEPT !.lootTurn = TurnAfter(g, i)]
    <3>1. G \in Group /\ G.members = groups[g].members /\ G.leader = groups[g].leader
      BY <2>4, <2>6 DEF Group
    <3> QED
      BY <2>5, <2>6, <3>1
  <2>8. groups' \in [Gids -> Group \cup {None}] /\ RosterSound'
    BY <1>2, <2>1, <2>7, SameRoster
  <2>9. bags' \in [Bags -> LootBag \cup {None}]
    BY <1>1, <1>3, <2>2, <2>3 DEF TypeOK, LootBag
  <2>10. passed' \in [Players -> SUBSET Players] /\ unfair' \in BOOLEAN
    BY <2>2, <2>5, <2>6 DEF RecordTurn, TypeOK
  <2> QED
    BY <1>2, <2>2, <2>8, <2>9, <2>10 DEF IInv, TypeOK
<1> QED
  BY <1>4, <1>5

-----------------------------------------------------------------------------
(* Every step *)

LEMMA InitIInv == Init => IInv
<1> SUFFICES ASSUME Init PROVE IInv
  OBVIOUS
<1>1. TypeOK
  <2>1. nextId \in 1 .. MaxGroups + 1
    BY MaxGroupsNat DEF Init
  <2> QED
    BY <2>1 DEF Init, TypeOK
<1>2. None \notin Gids
  BY NoneIsNobody DEF Gids
<1>3. RosterSound
  BY <1>2 DEF Init, RosterSound
<1> QED
  BY <1>1, <1>3 DEF IInv

LEMMA StepIInv == IInv /\ [Next]_vars => IInv'
<1> SUFFICES ASSUME IInv, [Next]_vars PROVE IInv'
  OBVIOUS
<1>1. CASE UNCHANGED vars
  BY <1>1 DEF IInv, TypeOK, RosterSound, Members, vars, groupVars, ghostVars
<1>2. ASSUME NEW p \in Players, Login(p) PROVE IInv'
  BY <1>2 DEF Login, IInv, TypeOK, RosterSound, Members, groupVars, ghostVars
<1>3. ASSUME NEW p \in Players, Reap(p) PROVE IInv'
  <2>1. online' = online \ {p} /\ Leave(p) /\ UNCHANGED <<nextId, bags, unfair>>
    BY <1>3 DEF Reap
  <2>2. online \ {p} \subseteq online'
    BY <2>1
  <2> QED
    BY <2>1, <2>2, LeaveKept DEF IInv, TypeOK
<1>4. ASSUME NEW p \in Players, LeaveGroup(p) PROVE IInv'
  <2>1. Leave(p) /\ UNCHANGED <<online, nextId, bags, unfair>>
    BY <1>4 DEF LeaveGroup
  <2> QED
    BY <2>1, LeaveKept DEF IInv, TypeOK
<1>5. ASSUME NEW p \in Players, NEW q \in Players, Kick(p, q) PROVE IInv'
  <2>1. Leave(q) /\ UNCHANGED <<online, nextId, bags, unfair>>
    BY <1>5 DEF Kick
  <2> QED
    BY <2>1, LeaveKept DEF IInv, TypeOK
<1>6. ASSUME NEW p \in Players, NEW q \in Players, InviteTo(p, q) PROVE IInv'
  BY <1>6, InviteToKept
<1>7. ASSUME NEW p \in Players, NEW q \in Players, Accept(p, q) PROVE IInv'
  BY <1>7, AcceptKept
<1>8. ASSUME NEW p \in Players, NEW q \in Players, PassLeadership(p, q) PROVE IInv'
  <2>1. "RoundRobin" \in LootModes
    BY DEF LootModes
  <2> QED
    BY <1>8, <2>1, LeaderKept
<1>9. ASSUME NEW p \in Players, NEW mode \in LootModes, SetLootMode(p, mode) PROVE IInv'
  BY <1>9, LeaderKept
<1>10. ASSUME NEW b \in Bags, NEW p \in Players, Drop(b, p) PROVE IInv'
  <2>1. bags' \in [Bags -> LootBag \cup {None}]
    BY <1>10 DEF Drop, IInv, TypeOK, LootBag
  <2> QED
    BY <1>10, <2>1 DEF Drop, IInv, TypeOK, RosterSound, Members, groupVars, ghostVars
<1>11. ASSUME NEW b \in Bags, NEW p \in Players, NEW near \in SUBSET online,
              NEW last \in BOOLEAN, Loot(p, b, near, last)
       PROVE  IInv'
  BY <1>11, LootKept
<1>12. ASSUME NEW b \in Bags, Expire(b) PROVE IInv'
  BY <1>12 DEF Expire, IInv, TypeOK, RosterSound, Members, groupVars, ghostVars
<1> QED
  BY <1>1, <1>2, <1>3, <1>4, <1>5, <1>6, <1>7, <1>8, <1>9, <1>10, <1>11, <1>12 DEF Next

-----------------------------------------------------------------------------
(* The theorems *)

\* Every variable keeps its type: the id counter its range, every roster its
\* shape, and the pointer of the rotation stays a natural number and ends at a
\* member (groups.rs, loot.rs).
THEOREM TypeCorrect == Spec => []TypeOK
<1>1. IInv => TypeOK
  BY DEF IInv
<1> QED
  BY InitIInv, StepIInv, <1>1, PTL DEF Spec

\* However invitations, accepts, kicks, departures and hand-overs interleave,
\* the index and the member lists agree, nobody is in two groups, and every
\* group that lives has members, each once, and one of them leads it
\* (groups.rs; tick/session.rs, reap_connection).
THEOREM RostersAreSound == Spec => []RosterSound
<1>1. IInv => RosterSound
  BY DEF IInv
<1> QED
  BY InitIInv, StepIInv, <1>1, PTL DEF Spec

-----------------------------------------------------------------------------
(* The rotation *)

\* From the pointer L on, the position j comes before i.
Ahead(L, j, i) == (j >= L /\ i < L) \/ (j < i /\ (j >= L <=> i >= L))

Size(g) == Len(groups[g].members)

\* Whoever P says was passed over since p's last turn comes before p in the
\* rotation of the group G.
Rotated(G, P) ==
  \A i, j \in 0 .. Len(G.members) - 1 :
    G.members[j + 1] \in P[G.members[i + 1]]
      => G.lootTurn < Len(G.members) /\ Ahead(G.lootTurn, j, i)

\* Only members of one group are counted as passed over.
Waiting == \A p, q \in Players : q \in passed[p] => SameGroup(p, q)

TInv ==
  /\ IInv
  /\ Waiting
  /\ \A g \in Gids : groups[g] # None => Rotated(groups[g], passed)
  /\ ~ unfair

\* Where the scan is after o positions.
LEMMA ScanAt ==
  ASSUME NEW n \in Nat, NEW L \in Nat, L < n, NEW o \in 0 .. n - 1
  PROVE  (L + o) % n = IF L + o < n THEN L + o ELSE L + o - n
<1>1. CASE L + o < n
  BY <1>1
<1>2. CASE ~ (L + o < n)
  <2> DEFINE d == L + o - n
  <2>1. d \in 0 .. n - 1 /\ L + o = n + d
    BY <1>2
  <2> HIDE DEF d
  <2>2. (n + d) % n = d
    BY <2>1
  <2> QED
    BY <1>2, <2>1, <2>2
<1> QED
  BY <1>1, <1>2

\* The pointer after the turn of position i.
LEMMA TurnAt ==
  ASSUME NEW n \in Nat, NEW i \in 0 .. n - 1
  PROVE  (i + 1) % n = IF i + 1 < n THEN i + 1 ELSE 0
<1>1. CASE i + 1 < n
  BY <1>1
<1>2. CASE i + 1 = n
  BY <1>2
<1> QED
  BY <1>1, <1>2

\* The scan ends at somebody near, and nobody near comes before.
LEMMA ScanFirst ==
  ASSUME TypeOK, Living, NEW g \in Gids, groups[g] # None,
         NEW near, Eligible(g, near) # {}
  PROVE  /\ FirstEligible(g, near) \in 0 .. Size(g) - 1
         /\ groups[g].members[FirstEligible(g, near) + 1] \in near
         /\ groups[g].lootTurn < Size(g) =>
              \A j \in 0 .. Size(g) - 1 : groups[g].members[j + 1] \in near =>
                j = FirstEligible(g, near) \/ Ahead(groups[g].lootTurn, FirstEligible(g, near), j)
<1> DEFINE n == Size(g)
           L == groups[g].lootTurn
           s == groups[g].members
           E == Eligible(g, near)
           o == CHOOSE o \in E : \A o2 \in E : o <= o2
           i == FirstEligible(g, near)
<1>1. n \in Nat \ {0} /\ L \in Nat
  BY GroupFacts DEF Group, Size
<1>2. E = {e \in 0 .. n - 1 : s[((L + e) % n) + 1] \in near}
  BY DEF Eligible, Scanned, Size
<1>3. E \in SUBSET Nat /\ E # {}
  BY <1>1, <1>2
<1>4. \E x \in E : \A y \in E : x <= y
  BY <1>3, Least
<1>5. o \in E /\ \A e \in E : o <= e
  BY <1>4
<1>6. i = (L + o) % n
  BY DEF FirstEligible, Scanned, Size
<1> HIDE DEF n, o, E, i, L, s
<1>7. o \in 0 .. n - 1 /\ i \in 0 .. n - 1 /\ s[i + 1] \in near
  BY <1>1, <1>2, <1>5, <1>6
<1>8. ASSUME L < n, NEW j \in 0 .. n - 1, s[j + 1] \in near, j # i
      PROVE  Ahead(L, i, j)
  <2> DEFINE e == IF j >= L THEN j - L ELSE j + n - L
  <2>1. e \in 0 .. n - 1
    BY <1>1, <1>8
  <2>2. (L + e) % n = j
    <3>1. (L + e) % n = IF L + e < n THEN L + e ELSE L + e - n
      BY <1>1, <1>8, <2>1, ScanAt
    <3> QED
      BY <1>1, <1>8, <3>1
  <2>3. e \in E
    BY <1>2, <1>8, <2>1, <2>2
  <2>4. o <= e
    BY <1>5, <2>3
  <2>5. i = IF L + o < n THEN L + o ELSE L + o - n
    BY <1>1, <1>6, <1>7, <1>8, ScanAt
  <2> QED
    BY <1>1, <1>7, <1>8, <2>4, <2>5 DEF Ahead
<1> QED
  BY <1>7, <1>8 DEF n, i, L, s

\* Everybody in a list has a position.
LEMMA MemberAt ==
  ASSUME TypeOK, Living, NEW g \in Gids, groups[g] # None
  PROVE  /\ Size(g) \in Nat \ {0}
         /\ \A x \in Members(g) : \E i \in 0 .. Size(g) - 1 : groups[g].members[i + 1] = x
         /\ \A i \in 0 .. Size(g) - 1 : groups[g].members[i + 1] \in Members(g)
<1> DEFINE s == groups[g].members
           n == Len(s)
<1>1. n \in Nat \ {0} /\ DOMAIN s = 1 .. n
  BY GroupFacts, LenProperties
<1>2. \A x : x \in Members(g) <=> \E k \in 1 .. n : s[k] = x
  BY <1>1 DEF Members
<1> HIDE DEF n
<1>3. \A i \in 0 .. n - 1 : i + 1 \in 1 .. n
  BY <1>1
<1>4. \A k \in 1 .. n : k - 1 \in 0 .. n - 1 /\ (k - 1) + 1 = k
  BY <1>1
<1> QED
  BY <1>1, <1>2, <1>3, <1>4 DEF n, Size

LEMMA OnceEach ==
  ASSUME TypeOK, Living, NEW g \in Gids, groups[g] # None,
         NEW a \in 0 .. Size(g) - 1, NEW b \in 0 .. Size(g) - 1,
         groups[g].members[a + 1] = groups[g].members[b + 1]
  PROVE  a = b
<1> DEFINE s == groups[g].members
           n == Size(g)
<1>1. n \in Nat /\ DOMAIN s = 1 .. n /\ IsInjective(s)
  BY GroupFacts, LenProperties DEF Living, Size
<1> HIDE DEF n, s
<1>2. \A k, l \in 1 .. n : s[k] = s[l] => k = l
  BY <1>1 DEF IsInjective
<1>3. a \in 0 .. n - 1 /\ b \in 0 .. n - 1 /\ s[a + 1] = s[b + 1]
  BY DEF n, s
<1>4. a + 1 \in 1 .. n /\ b + 1 \in 1 .. n
  BY <1>1, <1>3
<1>5. a + 1 = b + 1
  BY <1>2, <1>3, <1>4
<1> QED
  BY <1>3, <1>5

\* The counts P after a turn of t.
Counted(g, t, near, P) ==
  P = [p \in Players |->
         IF p = t THEN Members(g) \ {t}
         ELSE IF p \in Members(g) THEN (passed[p] \cap near) \ {t}
         ELSE passed[p]]

\* The list of g with the pointer M is in order for the counts P.
InTurn(g, M, P) ==
  \A i, j \in 0 .. Size(g) - 1 :
    groups[g].members[j + 1] \in P[groups[g].members[i + 1]] => M < Size(g) /\ Ahead(M, j, i)

\* A turn: whoever had it goes behind all others, and was owed it by nobody.
LEMMA TurnRotates ==
  ASSUME TInv, NEW g \in Gids, groups[g] # None, NEW near, Eligible(g, near) # {},
         NEW t, t = groups[g].members[FirstEligible(g, near) + 1],
         NEW P, Counted(g, t, near, P)
  PROVE  /\ passed[t] \cap near = {}
         /\ InTurn(g, TurnAfter(g, FirstEligible(g, near)), P)
<1> USE DEF Counted, InTurn
<1> DEFINE n == Size(g)
           L == groups[g].lootTurn
           s == groups[g].members
           f == FirstEligible(g, near)
           M == TurnAfter(g, f)
<1>0. TypeOK /\ Living /\ Indexed /\ Rotated(groups[g], passed) /\ Waiting
  BY Parts DEF TInv, IInv
<1>1. n \in Nat \ {0} /\ L \in Nat /\ Members(g) \subseteq Players
  BY <1>0, GroupFacts DEF Group, Size
<1>2. /\ f \in 0 .. n - 1 /\ s[f + 1] = t /\ t \in near
      /\ L < n => \A j \in 0 .. n - 1 : s[j + 1] \in near => j = f \/ Ahead(L, f, j)
  BY <1>0, ScanFirst
<1>3. \A j \in 0 .. n - 1 : s[j + 1] \in Members(g)
  BY <1>0, MemberAt
<1>4. \A i, j \in 0 .. n - 1 : s[j + 1] \in passed[s[i + 1]] => L < n /\ Ahead(L, j, i)
  BY <1>0 DEF Rotated, Size
<1>5. M = IF f + 1 < n THEN f + 1 ELSE 0
  BY <1>1, <1>2, TurnAt DEF TurnAfter, Size
<1>6. \A q \in passed[t] : \E j \in 0 .. n - 1 : s[j + 1] = q
  <2>1. SUFFICES ASSUME NEW q \in passed[t]
                 PROVE  \E j \in 0 .. n - 1 : s[j + 1] = q
    OBVIOUS
  <2>2. t \in Members(g) /\ t \in Players
    BY <1>1, <1>2, <1>3
  <2>3. q \in Players
    BY <1>0, <2>2 DEF TypeOK
  <2>4. memberGroup[t] = g
    BY <1>0, <2>2 DEF Indexed
  <2>5. q \in Members(g)
    BY <1>0, <2>2, <2>3, <2>4 DEF Waiting, SameGroup, Indexed
  <2> QED
    BY <1>0, <2>5, MemberAt
<1> HIDE DEF n, L, s, f, M
<1>7. passed[t] \cap near = {}
  <2> SUFFICES ASSUME NEW q \in passed[t], q \in near
               PROVE  FALSE
    OBVIOUS
  <2>1. PICK j \in 0 .. n - 1 : s[j + 1] = q
    BY <1>6
  <2>2. L < n /\ Ahead(L, j, f)
    BY <1>2, <1>4, <2>1
  <2>3. j = f \/ Ahead(L, f, j)
    BY <1>2, <2>1, <2>2
  <2> QED
    BY <1>1, <1>2, <2>2, <2>3 DEF Ahead
<1>8. ASSUME NEW i \in 0 .. n - 1, NEW j \in 0 .. n - 1, s[j + 1] \in P[s[i + 1]]
      PROVE  M < n /\ Ahead(M, j, i)
  <2>1. s[i + 1] \in Members(g) /\ s[i + 1] \in Players
    BY <1>1, <1>3
  <2>2. CASE s[i + 1] = t
    <3>1. i = f
      <4>1. \A a, b \in 0 .. n - 1 : s[a + 1] = s[b + 1] => a = b
        BY <1>0, OnceEach DEF n, s
      <4> QED
        BY <1>2, <2>2, <4>1
    <3>2. j # f
      BY <1>2, <1>8, <2>1, <2>2
    <3> QED
      BY <1>1, <1>2, <1>5, <3>1, <3>2 DEF Ahead
  <2>3. CASE s[i + 1] # t
    <3>1. s[j + 1] \in passed[s[i + 1]] /\ s[j + 1] \in near /\ s[j + 1] # t
      BY <1>8, <2>1, <2>3
    <3>2. L < n /\ Ahead(L, j, i) /\ j # f /\ i # f
      BY <1>2, <1>4, <2>3, <3>1
    <3>3. Ahead(L, f, j)
      BY <1>2, <3>1, <3>2
    <3> QED
      BY <1>1, <1>2, <1>5, <3>2, <3>3 DEF Ahead
  <2> QED
    BY <2>2, <2>3
<1> QED
  BY <1>7, <1>8 DEF n, M, f, s

\* A step that keeps every list, pointer and count, and takes nobody out.
LEMMA SameTurns ==
  ASSUME TInv, IInv', UNCHANGED <<passed, unfair>>,
         \A p \in Players : memberGroup[p] # None => memberGroup'[p] = memberGroup[p],
         \A g \in Gids : groups'[g] # None =>
           \/ groups[g] # None /\ groups'[g].members = groups[g].members
              /\ groups'[g].lootTurn = groups[g].lootTurn
           \/ Rotated(groups'[g], passed)
  PROVE  TInv'
<1>1. Waiting'
  BY DEF TInv, Waiting, SameGroup
<1>2. \A g \in Gids : groups'[g] # None => Rotated(groups'[g], passed')
  BY DEF TInv, Rotated
<1> QED
  BY <1>1, <1>2 DEF TInv

\* A departure: nobody of the group is owed a turn.
LEMMA LeaveTurns ==
  ASSUME TInv, IInv', NEW p \in Players, Leave(p), UNCHANGED unfair
  PROVE  TInv'
<1>0. TypeOK /\ Living /\ Indexed /\ Waiting
  BY Parts DEF TInv, IInv
<1>1. CASE memberGroup[p] = None
  <2>1. UNCHANGED <<groups, memberGroup, passed>>
    BY <1>1 DEF Leave
  <2> QED
    BY <2>1, SameTurns
<1>2. CASE memberGroup[p] # None
  <2>1. PICK g \in Gids : memberGroup[p] = g /\ groups[g] # None /\ p \in Members(g)
    BY <1>0, <1>2 DEF TypeOK, Indexed
  <2> DEFINE rest == Without(groups[g].members, p)
  <2>2. /\ memberGroup' = [q \in Players |->
             IF q \in Unindexed(g, p, rest) THEN None ELSE memberGroup[q]]
        /\ passed' = [q \in Players |-> IF q \in Members(g) THEN {} ELSE passed[q]]
        /\ \A h \in Gids : h # g => groups'[h] = groups[h]
    BY <1>0, <1>2, <2>1 DEF Leave, ForgetTurns, TypeOK
  <2>3. /\ Unindexed(g, p, rest) \subseteq Members(g)
        /\ \A q \in Players : q \in Members(g) <=> memberGroup[q] = g
    BY <1>0, <2>1 DEF Unindexed, Indexed
  <2> HIDE DEF rest
  <2>4. Waiting'
    <3> SUFFICES ASSUME NEW x \in Players, NEW q \in Players, q \in passed'[x]
                 PROVE  memberGroup'[x] # None /\ memberGroup'[x] = memberGroup'[q]
      BY DEF Waiting, SameGroup
    <3>1. x \notin Members(g) /\ q \in passed[x]
      BY <2>2
    <3>2. memberGroup[x] # None /\ memberGroup[x] = memberGroup[q] /\ q \notin Members(g)
      BY <1>0, <2>3, <3>1 DEF Waiting, SameGroup
    <3> QED
      BY <2>2, <2>3, <3>1, <3>2
  <2>5. ASSUME NEW h \in Gids, groups'[h] # None
        PROVE  Rotated(groups'[h], passed')
    <3>1. /\ \A i \in 0 .. Len(groups'[h].members) - 1 : groups'[h].members[i + 1] \in Members(h)'
          /\ Members(h)' \subseteq Players
      <4>1. TypeOK' /\ Living'
        BY Parts DEF IInv, RosterSound, Living
      <4>2. DOMAIN groups'[h].members = 1 .. Len(groups'[h].members) /\ Len(groups'[h].members) \in Nat
        <5>1. groups'[h].members \in Seq(Players)
          BY <2>5, <4>1 DEF TypeOK, Group
        <5> QED
          BY <5>1, LenProperties
      <4>3. groups'[h].members \in Seq(Players)
        BY <2>5, <4>1 DEF TypeOK, Group
      <4>4. \A k \in 1 .. Len(groups'[h].members) : groups'[h].members[k] \in Players
        BY <4>3, ElementOfSeq
      <4> QED
        BY <4>2, <4>4 DEF Members
    <3>2. CASE h = g
      <4>1. \A x \in Members(g)' : x \in Members(g)
        <5>1. \A x \in Players : x \in Members(g)' => memberGroup'[x] = g
          BY <2>5, <3>2 DEF IInv, RosterSound
        <5>2. g # None
          BY <1>2, <2>1
        <5> QED
          BY <2>2, <2>3, <3>1, <3>2, <5>1, <5>2
      <4>2. \A x \in Members(g)' : passed'[x] = {}
        BY <2>2, <3>1, <3>2, <4>1
      <4> QED
        BY <3>1, <3>2, <4>2 DEF Rotated
    <3>3. CASE h # g
      <4>1. groups'[h] = groups[h] /\ Members(h)' = Members(h)
        BY <2>2, <3>3 DEF Members
      <4>2. Rotated(groups[h], passed)
        BY <2>5, <4>1 DEF TInv
      <4>3. \A x \in Members(h) : passed'[x] = passed[x]
        <5>1. \A x \in Members(h) : x \in Players /\ memberGroup[x] = h
          BY <1>0, <2>5, <3>1, <4>1 DEF Indexed
        <5> QED
          BY <2>2, <2>3, <3>3, <5>1
      <4> QED
        BY <3>1, <4>1, <4>2, <4>3 DEF Rotated
    <3> QED
      BY <3>2, <3>3
  <2> QED
    BY <2>4, <2>5 DEF TInv
<1> QED
  BY <1>1, <1>2

LEMMA InviteTurns ==
  ASSUME TInv, IInv', NEW p \in Players, NEW q \in Players, InviteTo(p, q)
  PROVE  TInv'
<1>0. TypeOK /\ Waiting /\ UNCHANGED <<passed, unfair>>
  BY DEF TInv, IInv, InviteTo, ghostVars
<1>1. CASE memberGroup[p] # None
  <2>1. UNCHANGED <<groups, memberGroup>>
    BY <1>1 DEF InviteTo
  <2> QED
    BY <1>0, <2>1, SameTurns
<1>2. CASE memberGroup[p] = None
  <2>1. /\ memberGroup' = [memberGroup EXCEPT ![p] = nextId]
        /\ groups' = [groups EXCEPT ![nextId] = NewGroup(p)] /\ nextId \in Gids
    BY <1>2 DEF InviteTo, TakeId
  <2>2. \A x \in Players : memberGroup[x] # None => memberGroup'[x] = memberGroup[x]
    BY <1>0, <1>2, <2>1 DEF TypeOK
  <2>3. \A x \in passed[p] : FALSE
    BY <1>0, <1>2 DEF Waiting, SameGroup, TypeOK
  <2>4. Rotated(NewGroup(p), passed)
    <3>1. NewGroup(p).members = <<p>> /\ Len(<<p>>) = 1 /\ <<p>>[1] = p
      BY DEF NewGroup
    <3>2. \A i \in 0 .. 1 - 1 : i = 0
      OBVIOUS
    <3> QED
      BY <2>3, <3>1, <3>2 DEF Rotated
  <2>5. \A g \in Gids : groups'[g] = IF g = nextId THEN NewGroup(p) ELSE groups[g]
    BY <1>0, <2>1 DEF TypeOK
  <2> QED
    BY <1>0, <2>2, <2>4, <2>5, SameTurns
<1> QED
  BY <1>1, <1>2

LEMMA AcceptTurns ==
  ASSUME TInv, IInv', NEW q \in Players, NEW from, Accept(q, from)
  PROVE  TInv'
<1>0. TypeOK /\ Living /\ Waiting /\ UNCHANGED <<passed, unfair>>
  BY Parts DEF TInv, IInv, Accept, ghostVars
<1>1. PICK g \in Gids : g = invites[q].gid
  BY <1>0 DEF Accept, TypeOK, Invite
<1>2. CASE UNCHANGED <<groups, memberGroup>>
  BY <1>0, <1>2, SameTurns
<1>3. CASE ~ UNCHANGED <<groups, memberGroup>>
  <2>1. /\ memberGroup[q] = None /\ groups[g] # None
        /\ groups' = [groups EXCEPT ![g].members = Append(@, q)]
        /\ memberGroup' = [memberGroup EXCEPT ![q] = g]
    BY <1>1, <1>3 DEF Accept
  <2>2. groups[g] \in Group /\ groups[g].members \in Seq(Players) /\ Size(g) \in Nat \ {0}
        /\ Members(g) \subseteq Players
    BY <1>0, <2>1, GroupFacts DEF Size
  <2> DEFINE s == groups[g].members
             t == Append(s, q)
             n == Size(g)
  <2>3. Len(t) = n + 1 /\ t[n + 1] = q /\ \A k \in 1 .. n : t[k] = s[k]
    BY <2>2, AppendProperties DEF Size
  <2>4. /\ groups'[g].members = t /\ groups'[g].lootTurn = groups[g].lootTurn
        /\ \A h \in Gids : h # g => groups'[h] = groups[h]
    BY <1>0, <2>1, <2>2 DEF TypeOK, Group
  <2>5. \A x \in Players : memberGroup[x] # None => memberGroup'[x] = memberGroup[x]
    BY <1>0, <2>1 DEF TypeOK
  <2>6. /\ \A x \in passed[q] : FALSE
        /\ \A x \in Players : q \notin passed[x]
    BY <1>0, <2>1 DEF Waiting, SameGroup, TypeOK
  <2>7. /\ \A i \in 0 .. n - 1 : s[i + 1] \in Members(g)
        /\ groups[g].lootTurn \in Nat
    BY <1>0, <2>1, <2>2, MemberAt DEF Group
  <2>8. \A i, j \in 0 .. n - 1 : s[j + 1] \in passed[s[i + 1]]
          => groups[g].lootTurn < n /\ Ahead(groups[g].lootTurn, j, i)
    BY <2>1 DEF TInv, Rotated, Size
  <2> HIDE DEF s, t, n
  <2>9. n \in Nat
    BY <2>2 DEF n
  <2>10. ASSUME NEW i \in 0 .. n, NEW j \in 0 .. n, t[j + 1] \in passed[t[i + 1]]
         PROVE  groups[g].lootTurn < n + 1 /\ Ahead(groups[g].lootTurn, j, i)
    <3>1. i \in 0 .. n - 1
      BY <2>3, <2>6, <2>9, <2>10
    <3>2. i + 1 \in 1 .. n /\ t[i + 1] = s[i + 1] /\ s[i + 1] \in Players
      BY <2>2, <2>3, <2>7, <2>9, <3>1
    <3>3. j \in 0 .. n - 1
      BY <2>3, <2>6, <2>9, <2>10, <3>2
    <3>4. j + 1 \in 1 .. n /\ t[j + 1] = s[j + 1]
      BY <2>3, <2>9, <3>3
    <3>5. groups[g].lootTurn < n /\ Ahead(groups[g].lootTurn, j, i)
      BY <2>8, <2>10, <3>1, <3>2, <3>3, <3>4
    <3> QED
      BY <2>7, <2>9, <3>5
  <2>11. Rotated(groups'[g], passed)
    <3>1. Len(groups'[g].members) - 1 = n
      BY <2>3, <2>4, <2>9
    <3> QED
      BY <2>3, <2>4, <2>10, <3>1 DEF Rotated
  <2> QED
    BY <1>0, <2>4, <2>5, <2>11, SameTurns
<1> QED
  BY <1>2, <1>3

LEMMA LeaderTurns ==
  ASSUME TInv, IInv', NEW p \in Players, NEW q \in Players, NEW mode \in LootModes,
         SetLootMode(p, mode) \/ PassLeadership(p, q)
  PROVE  TInv'
<1>0. TypeOK /\ Indexed /\ UNCHANGED <<memberGroup, passed, unfair>>
  BY Parts DEF TInv, IInv, SetLootMode, PassLeadership, ghostVars
<1>1. PICK g \in Gids : g = memberGroup[p] /\ groups[g] # None
  BY <1>0 DEF TypeOK, Indexed, SetLootMode, PassLeadership
<1>2. groups[g] \in Group
  BY <1>0, <1>1 DEF TypeOK
<1>3. \/ groups' = [groups EXCEPT ![g].lootMode = mode]
      \/ groups' = [groups EXCEPT ![g].leader = q]
  BY <1>1 DEF SetLootMode, PassLeadership
<1>4. /\ groups'[g].members = groups[g].members /\ groups'[g].lootTurn = groups[g].lootTurn
      /\ \A h \in Gids : h # g => groups'[h] = groups[h]
  BY <1>0, <1>2, <1>3 DEF TypeOK, Group
<1> QED
  BY <1>0, <1>1, <1>4, SameTurns

LEMMA LootTurns ==
  ASSUME TInv, IInv', NEW b \in Bags, NEW p \in Players, NEW near \in SUBSET online,
         NEW last \in BOOLEAN, Loot(p, b, near, last)
  PROVE  TInv'
<1>0. TypeOK /\ Living /\ Indexed /\ Waiting /\ UNCHANGED memberGroup
  BY Parts DEF TInv, IInv, Loot
<1>1. CASE ~ Claims(b, near)
  <2>1. UNCHANGED <<groups, passed, unfair>>
    BY <1>1 DEF Loot, ghostVars
  <2> QED
    BY <1>0, <2>1, SameTurns
<1>2. CASE Claims(b, near)
  <2>1. bags[b].owner \in Players
    BY <1>0 DEF Loot, TypeOK, LootBag
  <2>2. PICK g \in Gids : /\ g = memberGroup[bags[b].owner] /\ groups[g] # None
                          /\ Eligible(g, near) # {}
    BY <1>0, <1>2, <2>1 DEF Claims, HasTurn, TypeOK, Indexed
  <2> DEFINE f == FirstEligible(g, near)
             t == groups[g].members[f + 1]
             M == TurnAfter(g, f)
  <2>3. groups' = [groups EXCEPT ![g].lootTurn = M] /\ RecordTurn(g, t, near)
    BY <1>2, <2>2 DEF Loot
  <2>4. groups[g] \in Group
    BY <1>0, <2>2 DEF TypeOK
  <2> HIDE DEF M
  <2>5. /\ groups'[g].members = groups[g].members /\ groups'[g].lootTurn = M
        /\ \A h \in Gids : h # g => groups'[h] = groups[h]
    BY <1>0, <2>3, <2>4 DEF TypeOK, Group
  <2>6. /\ passed[t] \cap near = {}
        /\ InTurn(g, M, passed')
    <3>1. Counted(g, t, near, passed')
      BY <2>3 DEF RecordTurn, Counted
    <3>2. t = groups[g].members[FirstEligible(g, near) + 1] /\ M = TurnAfter(g, FirstEligible(g, near))
      BY DEF M
    <3> DEFINE P == passed'
    <3>3. g \in Gids /\ groups[g] # None /\ Eligible(g, near) # {} /\ Counted(g, t, near, P)
      BY <2>2, <3>1
    <3> HIDE DEF t, f, P
    <3>4. passed[t] \cap near = {} /\ InTurn(g, TurnAfter(g, FirstEligible(g, near)), P)
      BY ONLY TInv, g \in Gids, <3>2, <3>3, TurnRotates
    <3> QED
      BY <3>2, <3>4 DEF P
  <2>7. ~ unfair'
    BY <2>3, <2>6 DEF RecordTurn, TInv
  <2>8. Rotated(groups'[g], passed')
    BY <2>5, <2>6 DEF Rotated, Size, InTurn
  <2>9. Members(g) \subseteq Players /\ \A x \in Players : x \in Members(g) <=> memberGroup[x] = g
    BY <1>0, <2>2, GroupFacts DEF Indexed
  <2>10. t \in Members(g)
    BY <1>0, <2>2, ScanFirst, MemberAt
  <2> HIDE DEF t
  <2>11. Waiting'
    <3> SUFFICES ASSUME NEW x \in Players, NEW y \in Players, y \in passed'[x]
                 PROVE  SameGroup(x, y)'
      BY DEF Waiting
    <3>1. y \in passed[x] \/ (x \in Members(g) /\ y \in Members(g))
      BY <2>3, <2>10 DEF RecordTurn
    <3>2. g # None
      BY NoneIsNobody DEF Gids
    <3> QED
      BY <1>0, <2>9, <3>1, <3>2 DEF Waiting, SameGroup
  <2>12. ASSUME NEW h \in Gids, h # g, groups'[h] # None
         PROVE  Rotated(groups'[h], passed')
    <3>1. groups'[h] = groups[h] /\ Rotated(groups[h], passed)
      BY <2>5, <2>12 DEF TInv
    <3>2. \A i \in 0 .. Size(h) - 1 : groups[h].members[i + 1] \in Members(h)
      BY <1>0, <2>12, <3>1, MemberAt
    <3>3. \A x \in Members(h) : passed'[x] = passed[x]
      <4>1. \A x \in Members(h) : x \in Players /\ memberGroup[x] = h
        BY <1>0, <2>12, <3>1, GroupFacts DEF Indexed
      <4> QED
        BY <2>3, <2>9, <2>10, <2>12, <4>1 DEF RecordTurn
    <3> QED
      BY <3>1, <3>2, <3>3 DEF Rotated, Size
  <2> QED
    BY <2>7, <2>8, <2>11, <2>12 DEF TInv
<1> QED
  BY <1>1, <1>2

LEMMA InitTInv == Init => TInv
<1> SUFFICES ASSUME Init PROVE TInv
  OBVIOUS
<1> QED
  BY InitIInv DEF Init, TInv, Waiting

LEMMA StepTInv == TInv /\ [Next]_vars => TInv'
<1> SUFFICES ASSUME TInv, [Next]_vars PROVE TInv'
  OBVIOUS
<1>0. IInv'
  BY StepIInv DEF TInv
<1>1. CASE UNCHANGED <<groups, memberGroup, passed, unfair>>
  BY <1>0, <1>1, SameTurns
<1>2. ASSUME NEW p \in Players, Reap(p) \/ LeaveGroup(p) PROVE TInv'
  <2>1. Leave(p) /\ UNCHANGED unfair
    BY <1>2 DEF Reap, LeaveGroup
  <2> QED
    BY <1>0, <2>1, LeaveTurns
<1>3. ASSUME NEW p \in Players, NEW q \in Players, Kick(p, q) PROVE TInv'
  <2>1. Leave(q) /\ UNCHANGED unfair
    BY <1>3 DEF Kick
  <2> QED
    BY <1>0, <2>1, LeaveTurns
<1>4. ASSUME NEW p \in Players, NEW q \in Players, InviteTo(p, q) PROVE TInv'
  BY <1>0, <1>4, InviteTurns
<1>5. ASSUME NEW p \in Players, NEW q \in Players, Accept(p, q) PROVE TInv'
  BY <1>0, <1>5, AcceptTurns
<1>6. ASSUME NEW p \in Players, NEW q \in Players, PassLeadership(p, q) PROVE TInv'
  <2>1. "RoundRobin" \in LootModes
    BY DEF LootModes
  <2> QED
    BY <1>0, <1>6, <2>1, LeaderTurns
<1>7. ASSUME NEW p \in Players, NEW mode \in LootModes, SetLootMode(p, mode) PROVE TInv'
  BY <1>0, <1>7, LeaderTurns
<1>8. ASSUME NEW b \in Bags, NEW p \in Players, NEW near \in SUBSET online,
             NEW last \in BOOLEAN, Loot(p, b, near, last)
      PROVE  TInv'
  BY <1>0, <1>8, LootTurns
<1>9. ASSUME \/ UNCHANGED vars \/ (\E p \in Players : Login(p))
             \/ \E b \in Bags : Expire(b) \/ \E p \in Players : Drop(b, p)
      PROVE  TInv'
  <2>1. UNCHANGED <<groups, memberGroup, passed, unfair>>
    BY <1>9 DEF vars, Login, Expire, Drop, groupVars, ghostVars
  <2> QED
    BY <1>1, <2>1
<1> QED
  BY <1>2, <1>3, <1>4, <1>5, <1>6, <1>7, <1>8, <1>9 DEF Next

\* No turn is given twice while a member who was near at every claim in
\* between waits: the pointer stands behind whoever had the last turn, and only
\* a departure can move a position (groups.rs, next_loot_turn).
THEOREM TurnsGoRound == Spec => []TurnsRotate
<1>1. TInv => TurnsRotate
  BY DEF TInv, TurnsRotate
<1> QED
  BY InitTInv, StepTInv, <1>1, PTL DEF Spec

=============================================================================
