-------------------------- MODULE HouseholdProofs --------------------------
(***************************************************************************)
(* Theorems about module Household, for every set of users, tokens and     *)
(* entries, every allow list and any number of households.                 *)
(***************************************************************************)
EXTENDS Household, TLAPS

USE AllowedAssumption, NoneAssumption, BoundAssumption DEF Household

\* The ids that AUTOINCREMENT has not given out yet have no household.
Fresh == \A h \in Household : h >= next => owner[h] = None

IInv ==
  /\ TypeOK
  /\ Fresh
  /\ NoEntryStranded
  /\ HouseholdsArePeopled
  /\ StrangersOwnNothing

LEMMA InitIInv == Init => IInv
BY DEF Init, IInv, TypeOK, Fresh, NoEntryStranded, HouseholdsArePeopled,
       StrangersOwnNothing, NoInvite, NoEntry, Invite

\* Nothing and nobody refers to a household that was never created.
LEMMA NextIsUnused ==
  ASSUME IInv, next \in Household
  PROVE  /\ owner[next] = None
         /\ \A u \in User : member[u] # next
         /\ \A t \in Token : invite[t].house # next
         /\ \A e \in Entry : entry[e].house # next
<1>1. owner[next] = None /\ next # None
  BY DEF IInv, Fresh, TypeOK
<1>2. \A u \in User : member[u] # next
  BY <1>1 DEF IInv, HouseholdsArePeopled
<1>3. \A t \in Token : invite[t].house # next
  BY <1>1 DEF IInv, HouseholdsArePeopled
<1>4. \A e \in Entry : entry[e].house # next
  BY <1>1, <1>2 DEF IInv, NoEntryStranded, NoEntry
<1> QED BY <1>1, <1>2, <1>3, <1>4

\* _ensure_household keeps the invariant, leaves access as it was, and gives
\* the user a household, a stranger's only if he had no access.
LEMMA EnsureIInv ==
  ASSUME NEW u \in User, IInv, Ensure(u), UNCHANGED <<invite, entry, choosing>>
  PROVE  /\ IInv'
         /\ member'[u] \in Household
         /\ Authorized(u) => owner'[member'[u]] \in Allowed
         /\ \A v \in User : Authorized(v) => Authorized(v)'
<1>1. CASE member[u] # None /\ UNCHANGED people
  <2>1. IInv' /\ member'[u] \in Household
    BY <1>1 DEF IInv, TypeOK, Fresh, NoEntryStranded, HouseholdsArePeopled,
                StrangersOwnNothing, people
  <2>2. Authorized(u) => owner'[member'[u]] \in Allowed
    BY <1>1, <2>1 DEF IInv, TypeOK, HouseholdsArePeopled, StrangersOwnNothing,
                      Authorized, people
  <2> QED BY <1>1, <2>1, <2>2 DEF Authorized, people
<1>2. CASE /\ member[u] = None
           /\ next \in Household
           /\ next' = next + 1
           /\ member' = [member EXCEPT ![u] = next]
           /\ owner' = [owner EXCEPT ![next] = u]
           /\ UNCHANGED mayGoal
  <2>1. /\ owner[next] = None
        /\ \A v \in User : member[v] # next
        /\ \A t \in Token : invite[t].house # next
        /\ \A e \in Entry : entry[e].house # next
    BY <1>2, NextIsUnused
  <2>2. TypeOK'
    BY <1>2 DEF IInv, TypeOK
  <2>3. Fresh'
    BY <1>2 DEF IInv, TypeOK, Fresh
  <2>4. NoEntryStranded'
    BY <1>2 DEF IInv, TypeOK, NoEntryStranded, NoEntry
  <2>5. HouseholdsArePeopled'
    <3>1. ASSUME NEW h \in Household
          PROVE  owner'[h] # None <=> \E v \in User : member'[v] = h
      BY <1>2, <2>1 DEF IInv, TypeOK, HouseholdsArePeopled
    <3>2. ASSUME NEW t \in Token, invite[t].house # None
          PROVE  owner'[invite[t].house] # None
      BY <1>2, <2>1, <3>2 DEF IInv, TypeOK, HouseholdsArePeopled
    <3> QED BY <3>1, <3>2 DEF HouseholdsArePeopled
  <2>6. StrangersOwnNothing'
    BY <1>2, <2>1 DEF IInv, TypeOK, StrangersOwnNothing
  <2>7. \A v \in User : Authorized(v) => Authorized(v)'
    BY <1>2, <2>1 DEF IInv, TypeOK, Authorized
  <2> QED BY <1>2, <2>2, <2>3, <2>4, <2>5, <2>6, <2>7 DEF IInv, TypeOK, Authorized
<1> QED BY <1>1, <1>2 DEF Ensure

\* An invitation leads into a household whose owner may use the bot.
LEMMA InvitedToAllowed ==
  ASSUME IInv, NEW t \in Token, invite[t].house # None
  PROVE  /\ invite[t].house \in Household
         /\ owner[invite[t].house] \in Allowed
<1>1. invite[t].house \in Household
  BY DEF IInv, TypeOK, NoInvite, Invite
<1> QED BY <1>1 DEF IInv, TypeOK, HouseholdsArePeopled, StrangersOwnNothing

LEMMA OpenInvite ==
  ASSUME TypeOK, NEW t \in Token, invite[t].status \in {"open", "used"}
  PROVE  invite[t] \in Invite
BY DEF TypeOK, NoInvite

\* join_household keeps the invariant and everybody's access.
LEMMA JoinIInv ==
  ASSUME NEW u \in User, NEW t \in Token, IInv, Join(u, t)
  PROVE  /\ IInv'
         /\ \A v \in User : Authorized(v) => Authorized(v)'
<1> DEFINE house == invite[t].house
           old == member[u]
<1>1. /\ invite[t] \in Invite /\ invite[t].status = "open"
      /\ house \in Household /\ house # None /\ old # house
  BY OpenInvite DEF Join, MayJoin, IInv, Invite
<1>2. owner[house] \in Allowed /\ owner[house] # None
  BY <1>1, InvitedToAllowed
<1>3. /\ member' = [member EXCEPT ![u] = house]
      /\ owner' = [h \in Household |-> IF h \in Abandoned(u) THEN None ELSE owner[h]]
      /\ invite' = InvitesAfterJoin(u, t)
      /\ UNCHANGED <<next, choosing>>
  BY DEF Join, Vacate
<1>4. /\ \A h \in Abandoned(u) : h = old /\ h # None /\ (\A v \in User \ {u} : member[v] # h)
      /\ old \in Household => (old \in Abandoned(u) \/ \E v \in User \ {u} : member[v] = old)
  BY DEF Abandoned
<1>5. owner'[house] = owner[house]
  BY <1>1, <1>3, <1>4 DEF IInv, TypeOK
<1>6. TypeOK'
  <2>1. /\ member' \in [User -> Household \cup {None}]
        /\ owner' \in [Household -> User \cup {None}]
        /\ next' \in 1..(MaxHouseholds + 1)
        /\ choosing' \in SUBSET User
    BY <1>1, <1>3 DEF IInv, TypeOK
  <2>2. mayGoal' \in [User -> BOOLEAN]
    BY <1>1 DEF Join, Permission, IInv, TypeOK, Invite
  <2>3. invite' \in [Token -> Invite \cup {NoInvite("unissued"), NoInvite("deleted")}]
    <3>1. Used(t, u) \in Invite
      BY <1>1 DEF Used, Invite
    <3> QED BY <1>3, <3>1 DEF InvitesAfterJoin, IInv, TypeOK
  <2>4. entry' \in [Entry -> [house: Household, by: User] \cup {NoEntry}]
    BY <1>1 DEF Join, MoveEntries, IInv, TypeOK
  <2> QED BY <2>1, <2>2, <2>3, <2>4 DEF TypeOK
<1>7. Fresh'
  BY <1>3 DEF IInv, TypeOK, Fresh
<1>8. \A e \in Entry : entry'[e].house # old \/ entry'[e] = NoEntry
  BY <1>1 DEF Join, MoveEntries, IInv, TypeOK
<1>9. \A e \in Entry : entry'[e] # NoEntry =>
        entry'[e].house = house \/ entry'[e] = entry[e]
  BY DEF Join, MoveEntries, IInv, TypeOK
<1>10. NoEntryStranded'
  <2> SUFFICES ASSUME NEW e \in Entry, entry'[e] # NoEntry
               PROVE  \E v \in User : member'[v] = entry'[e].house
    BY DEF NoEntryStranded
  <2>1. CASE entry'[e].house = house
    BY <1>1, <1>3, <2>1 DEF IInv, TypeOK
  <2>2. CASE entry'[e] = entry[e] /\ entry'[e].house # house
    <3>1. PICK v \in User : member[v] = entry[e].house
      BY <2>2 DEF IInv, NoEntryStranded
    <3>2. v # u
      BY <1>8, <2>2, <3>1
    <3> QED BY <1>3, <2>2, <3>1, <3>2 DEF IInv, TypeOK
  <2> QED BY <1>9, <2>1, <2>2
<1>11. \A i \in Token : invite'[i].house # None =>
         invite'[i].house = invite[i].house /\ invite'[i].house \notin Abandoned(u)
  BY <1>1, <1>3, <1>4 DEF InvitesAfterJoin, Used, NoInvite, Invite, IInv, TypeOK
<1>12. HouseholdsArePeopled'
  <2>1. ASSUME NEW h \in Household
        PROVE  owner'[h] # None <=> \E v \in User : member'[v] = h
    <3>1. CASE h = house
      BY <1>1, <1>2, <1>3, <1>5, <3>1 DEF IInv, TypeOK
    <3>2. CASE h # house /\ h = old
      <4>1. (\E v \in User : member'[v] = h) <=> \E v \in User \ {u} : member[v] = h
        BY <1>1, <1>3, <3>2 DEF IInv, TypeOK
      <4>2. owner[h] # None
        BY <3>2 DEF IInv, HouseholdsArePeopled
      <4> QED BY <1>3, <1>4, <3>2, <4>1, <4>2
    <3>3. CASE h # house /\ h # old
      <4>1. \A v \in User : member'[v] = h <=> member[v] = h
        BY <1>3, <3>3 DEF IInv, TypeOK
      <4>2. owner'[h] = owner[h]
        BY <1>3, <1>4, <3>3
      <4> QED BY <4>1, <4>2 DEF IInv, HouseholdsArePeopled
    <3> QED BY <3>1, <3>2, <3>3
  <2>2. ASSUME NEW i \in Token, invite'[i].house # None
        PROVE  owner'[invite'[i].house] # None
    <3>1. /\ invite'[i].house = invite[i].house
          /\ invite'[i].house \notin Abandoned(u)
      BY <1>11, <2>2
    <3>2. invite[i].house \in Household /\ owner[invite[i].house] \in Allowed
      BY <2>2, <3>1, InvitedToAllowed
    <3> QED BY <1>3, <3>1, <3>2
  <2> QED BY <2>1, <2>2 DEF HouseholdsArePeopled
<1>13. StrangersOwnNothing'
  <2> SUFFICES ASSUME NEW h \in Household, owner'[h] \in User \ Allowed
               PROVE  /\ \A v \in User : member'[v] = h => v = owner'[h]
                      /\ \A e \in Entry : entry'[e].house # h
                      /\ \A i \in Token : invite'[i].house # h
    BY DEF StrangersOwnNothing
  <2>1. h # house /\ owner'[h] = owner[h] /\ h # None
    BY <1>2, <1>3, <1>5
  <2>2. \A v \in User : member'[v] = h => v = owner'[h]
    BY <1>3, <2>1 DEF IInv, TypeOK, StrangersOwnNothing
  <2>3. \A e \in Entry : entry'[e].house # h
    BY <1>9, <2>1 DEF IInv, StrangersOwnNothing, NoEntry
  <2>4. \A i \in Token : invite'[i].house # h
    BY <1>11, <2>1 DEF IInv, StrangersOwnNothing
  <2> QED BY <2>2, <2>3, <2>4
<1>14. ASSUME NEW v \in User, Authorized(v) PROVE Authorized(v)'
  <2>1. CASE v = u
    BY <1>1, <1>2, <1>3, <1>5, <2>1 DEF Authorized, IInv, TypeOK
  <2>2. CASE v # u
    BY <1>3, <1>4, <1>14, <2>2 DEF Authorized, IInv, TypeOK
  <2> QED BY <2>1, <2>2
<1> QED BY <1>6, <1>7, <1>10, <1>12, <1>13, <1>14 DEF IInv

\* RecordEntry and CreateInvite: what they add to is a household in use, of an
\* owner who may use the bot.
LEMMA RecordIInv ==
  ASSUME NEW u \in User, NEW e \in Entry, IInv, RecordEntry(u, e)
  PROVE  /\ IInv'
         /\ \A v \in User : Authorized(v) => Authorized(v)'
<1>1. /\ Authorized(u) /\ Ensure(u) /\ UNCHANGED <<invite, choosing>>
      /\ entry' = [entry EXCEPT ![e] = [house |-> member'[u], by |-> u]]
  BY DEF RecordEntry
<1>2. CASE member[u] # None /\ UNCHANGED people
  <2>1. /\ member'[u] = member[u] /\ member[u] \in Household
        /\ owner[member[u]] \in Allowed
    BY <1>1, <1>2 DEF people, IInv, TypeOK, HouseholdsArePeopled,
                      StrangersOwnNothing, Authorized
  <2>2. TypeOK' /\ Fresh'
    BY <1>1, <1>2, <2>1 DEF people, IInv, TypeOK, Fresh
  <2>3. NoEntryStranded' /\ StrangersOwnNothing'
    BY <1>1, <1>2, <2>1 DEF people, IInv, TypeOK, NoEntryStranded, StrangersOwnNothing
  <2>4. HouseholdsArePeopled'
    BY <1>1, <1>2 DEF people, IInv, HouseholdsArePeopled
  <2> QED BY <1>2, <2>2, <2>3, <2>4 DEF IInv, Authorized, people
<1>3. CASE /\ member[u] = None
           /\ next \in Household
           /\ next' = next + 1
           /\ member' = [member EXCEPT ![u] = next]
           /\ owner' = [owner EXCEPT ![next] = u]
           /\ UNCHANGED mayGoal
  <2>1. /\ owner[next] = None
        /\ \A v \in User : member[v] # next
        /\ \A t \in Token : invite[t].house # next
        /\ \A f \in Entry : entry[f].house # next
    BY <1>3, NextIsUnused
  <2>2. u \in Allowed /\ member'[u] = next
    BY <1>1, <1>3 DEF Authorized, IInv, TypeOK
  <2>3. TypeOK' /\ Fresh'
    <3>1. entry' \in [Entry -> [house: Household, by: User] \cup {NoEntry}]
      BY <1>1, <1>3, <2>2 DEF IInv, TypeOK
    <3>2. TypeOK'
      BY <1>1, <1>3, <3>1 DEF IInv, TypeOK
    <3>3. Fresh'
      BY <1>3 DEF IInv, TypeOK, Fresh
    <3> QED BY <3>2, <3>3
  <2>4. NoEntryStranded'
    <3> SUFFICES ASSUME NEW f \in Entry, entry'[f] # NoEntry
                 PROVE  \E v \in User : member'[v] = entry'[f].house
      BY DEF NoEntryStranded
    <3>1. CASE f = e
      BY <1>1, <2>2, <3>1 DEF IInv, TypeOK
    <3>2. CASE f # e
      <4>1. entry'[f] = entry[f]
        BY <1>1, <3>2 DEF IInv, TypeOK
      <4>2. PICK v \in User : member[v] = entry[f].house
        BY <4>1 DEF IInv, NoEntryStranded
      <4>3. v # u
        <5>1. entry[f].house \in Household
          BY <4>1 DEF IInv, TypeOK
        <5> QED BY <1>3, <4>2, <5>1
      <4> QED BY <1>3, <4>1, <4>2, <4>3 DEF IInv, TypeOK
    <3> QED BY <3>1, <3>2
  <2>5. HouseholdsArePeopled'
    <3>1. ASSUME NEW h \in Household
          PROVE  owner'[h] # None <=> \E v \in User : member'[v] = h
      BY <1>3, <2>1 DEF IInv, TypeOK, HouseholdsArePeopled
    <3>2. ASSUME NEW t \in Token, invite'[t].house # None
          PROVE  owner'[invite'[t].house] # None
      BY <1>1, <1>3, <2>1, <3>2 DEF IInv, TypeOK, HouseholdsArePeopled
    <3> QED BY <3>1, <3>2 DEF HouseholdsArePeopled
  <2>6. StrangersOwnNothing'
    BY <1>1, <1>3, <2>1, <2>2 DEF IInv, TypeOK, StrangersOwnNothing
  <2>7. \A v \in User : Authorized(v) => Authorized(v)'
    BY <1>3, <2>1 DEF IInv, TypeOK, Authorized
  <2> QED BY <2>3, <2>4, <2>5, <2>6, <2>7 DEF IInv
<1> QED BY <1>1, <1>2, <1>3 DEF Ensure

\* Mutatis mutandis for an invitation.
LEMMA CreateInviteIInv ==
  ASSUME NEW u \in User, NEW t \in Token, NEW goals \in BOOLEAN, IInv,
         CreateInvite(u, t, goals)
  PROVE  /\ IInv'
         /\ \A v \in User : Authorized(v) => Authorized(v)'
<1> DEFINE new == [status |-> "open", house |-> member'[u], by |-> u,
                   goals |-> goals, usedBy |-> None]
<1>1. /\ Authorized(u) /\ Ensure(u) /\ UNCHANGED entry
      /\ choosing' = choosing \ {u}
      /\ invite' = [invite EXCEPT ![t] = new]
  BY DEF CreateInvite
<1>2. CASE member[u] # None /\ UNCHANGED people
  <2>1. /\ member'[u] = member[u] /\ member[u] \in Household
        /\ owner[member[u]] \in Allowed
    BY <1>1, <1>2 DEF people, IInv, TypeOK, HouseholdsArePeopled,
                      StrangersOwnNothing, Authorized
  <2>2. new \in Invite
    BY <2>1 DEF Invite
  <2>3. TypeOK' /\ Fresh'
    BY <1>1, <1>2, <2>2 DEF people, IInv, TypeOK, Fresh
  <2>4. \A i \in Token : invite'[i].house = invite[i].house \/ invite'[i].house = member[u]
    BY <1>1, <2>1 DEF IInv, TypeOK
  <2>5. NoEntryStranded'
    BY <1>1, <1>2 DEF people, IInv, NoEntryStranded
  <2>6. StrangersOwnNothing'
    BY <1>1, <1>2, <2>1, <2>4 DEF people, IInv, StrangersOwnNothing
  <2>7. HouseholdsArePeopled'
    BY <1>2, <2>1, <2>4 DEF people, IInv, HouseholdsArePeopled
  <2> QED BY <1>2, <2>3, <2>5, <2>6, <2>7 DEF IInv, Authorized, people
<1>3. CASE /\ member[u] = None
           /\ next \in Household
           /\ next' = next + 1
           /\ member' = [member EXCEPT ![u] = next]
           /\ owner' = [owner EXCEPT ![next] = u]
           /\ UNCHANGED mayGoal
  <2>1. /\ owner[next] = None
        /\ \A v \in User : member[v] # next
        /\ \A i \in Token : invite[i].house # next
        /\ \A e \in Entry : entry[e].house # next
    BY <1>3, NextIsUnused
  <2>2. u \in Allowed /\ member'[u] = next
    BY <1>1, <1>3 DEF Authorized, IInv, TypeOK
  <2>3. TypeOK' /\ Fresh'
    <3>1. new \in Invite
      BY <1>3, <2>2 DEF Invite
    <3>2. TypeOK'
      BY <1>1, <1>3, <3>1 DEF IInv, TypeOK
    <3>3. Fresh'
      BY <1>3 DEF IInv, TypeOK, Fresh
    <3> QED BY <3>2, <3>3
  <2>4. NoEntryStranded'
    BY <1>1, <1>3 DEF IInv, TypeOK, NoEntryStranded, NoEntry
  <2>5. \A i \in Token : invite'[i].house = invite[i].house \/ invite'[i].house = next
    BY <1>1, <2>2 DEF IInv, TypeOK
  <2>6. HouseholdsArePeopled'
    <3>1. ASSUME NEW h \in Household
          PROVE  owner'[h] # None <=> \E v \in User : member'[v] = h
      BY <1>3, <2>1 DEF IInv, TypeOK, HouseholdsArePeopled
    <3>2. ASSUME NEW i \in Token, invite'[i].house # None
          PROVE  owner'[invite'[i].house] # None
      <4>1. CASE invite'[i].house = next
        BY <1>3, <4>1 DEF IInv, TypeOK
      <4>2. CASE invite'[i].house = invite[i].house
        <5>1. /\ invite[i].house \in Household /\ invite[i].house # next
              /\ owner[invite[i].house] \in Allowed
          BY <2>1, <3>2, <4>2, InvitedToAllowed
        <5> QED BY <1>3, <4>2, <5>1 DEF IInv, TypeOK
      <4> QED BY <2>5, <4>1, <4>2
    <3> QED BY <3>1, <3>2 DEF HouseholdsArePeopled
  <2>7. StrangersOwnNothing'
    BY <1>1, <1>3, <2>1, <2>2, <2>5 DEF IInv, TypeOK, StrangersOwnNothing
  <2>8. \A v \in User : Authorized(v) => Authorized(v)'
    BY <1>3, <2>1 DEF IInv, TypeOK, Authorized
  <2> QED BY <2>3, <2>4, <2>6, <2>7, <2>8 DEF IInv
<1> QED BY <1>1, <1>2, <1>3 DEF Ensure

\* The first commit of a join alone changes nothing that matters.
LEMMA JoinCutShortIInv ==
  ASSUME NEW u \in User, NEW t \in Token, IInv, JoinCutShort(u, t)
  PROVE  /\ IInv'
         /\ \A v \in User : Authorized(v) => Authorized(v)'
<1>1. /\ invite' = [invite EXCEPT ![t] = Used(t, u)]
      /\ choosing' \in {choosing, {}}
      /\ UNCHANGED <<people, entry>>
      /\ invite[t] \in Invite
  BY OpenInvite DEF JoinCutShort, MayJoin, IInv
<1>2. Used(t, u) \in Invite /\ Used(t, u).house = invite[t].house
  BY <1>1 DEF Used, Invite
<1>3. TypeOK'
  BY <1>1, <1>2 DEF IInv, TypeOK, people
<1>4. \A i \in Token : invite'[i].house = invite[i].house
  BY <1>1, <1>2 DEF IInv, TypeOK
<1>5. Fresh' /\ NoEntryStranded' /\ HouseholdsArePeopled' /\ StrangersOwnNothing'
  BY <1>1, <1>4 DEF IInv, Fresh, NoEntryStranded, HouseholdsArePeopled,
                    StrangersOwnNothing, people
<1> QED BY <1>1, <1>3, <1>5 DEF IInv, Authorized, people

\* The wizard's state and the display names are nobody's access.
LEMMA ChoosingIInv ==
  ASSUME IInv, choosing' \in SUBSET User, UNCHANGED <<people, invite, entry>>
  PROVE  /\ IInv'
         /\ \A v \in User : Authorized(v) => Authorized(v)'
<1>1. TypeOK'
  BY DEF IInv, TypeOK, people
<1>2. Fresh' /\ NoEntryStranded' /\ HouseholdsArePeopled' /\ StrangersOwnNothing'
  BY DEF IInv, Fresh, NoEntryStranded, HouseholdsArePeopled, StrangersOwnNothing, people
<1> QED BY <1>1, <1>2 DEF IInv, Authorized, people

LEMMA IInvStep ==
  ASSUME IInv, [Next]_vars
  PROVE  /\ IInv'
         /\ \A v \in User : Authorized(v) => Authorized(v)'
<1>1. ASSUME NEW u \in User, Touch(u) \/ (\E t \in Token : WelcomeAgain(u, t))
      PROVE  IInv' /\ \A v \in User : Authorized(v) => Authorized(v)'
  <2>1. Ensure(u) /\ UNCHANGED <<invite, entry, choosing>>
    BY <1>1 DEF Touch, WelcomeAgain
  <2> QED BY <2>1, EnsureIInv
<1>2. ASSUME NEW u \in User, ChooseRelation(u) \/ Cancel(u)
      PROVE  IInv' /\ \A v \in User : Authorized(v) => Authorized(v)'
  <2>1. choosing' \in SUBSET User /\ UNCHANGED <<people, invite, entry>>
    BY <1>2 DEF ChooseRelation, Cancel, IInv, TypeOK
  <2> QED BY <2>1, ChoosingIInv
<1>3. CASE Restart \/ UNCHANGED vars
  <2>1. choosing' \in SUBSET User /\ UNCHANGED <<people, invite, entry>>
    BY <1>3 DEF Restart, vars, people, IInv, TypeOK
  <2> QED BY <2>1, ChoosingIInv
<1> QED BY <1>1, <1>2, <1>3, RecordIInv, CreateInviteIInv, JoinIInv,
           JoinCutShortIInv DEF Next

LEMMA IInvAlways == Spec => []IInv
BY InitIInv, IInvStep, PTL DEF Spec

\* The tables of the households are always well-typed.
THEOREM TypeCorrect == Spec => []TypeOK
<1>1. IInv => TypeOK
  BY DEF IInv
<1> QED BY <1>1, IInvAlways, PTL

\* Whoever joins and leaves which household, every entry is in a ledger that
\* somebody can open.
THEOREM NoEntryStrandedCorrect == Spec => []NoEntryStranded
<1>1. IInv => NoEntryStranded
  BY DEF IInv
<1> QED BY <1>1, IInvAlways, PTL

\* Households and memberships come and go together.
THEOREM HouseholdsArePeopledCorrect == Spec => []HouseholdsArePeopled
<1>1. IInv => HouseholdsArePeopled
  BY DEF IInv
<1> QED BY <1>1, IInvAlways, PTL

\* A household owned by somebody without access stays empty but for him.
THEOREM StrangersOwnNothingCorrect == Spec => []StrangersOwnNothing
<1>1. IInv => StrangersOwnNothing
  BY DEF IInv
<1> QED BY <1>1, IInvAlways, PTL

\* No step of anybody takes access away from a user.
THEOREM AccessIsKeptCorrect == Spec => AccessIsKept
<1>1. IInv /\ [Next]_vars => [\A u \in User : Authorized(u) => Authorized(u)']_vars
  BY IInvStep
<1> QED BY <1>1, IInvAlways, PTL DEF Spec, AccessIsKept

\* Only an invitation that carries it gives a member the right to set goals.
THEOREM RightComesFromInviteCorrect == Spec => RightComesFromInvite
<1> DEFINE Right(v) == \E t \in Token : /\ invite[t].status = "open" /\ invite[t].goals
                                       /\ invite'[t].usedBy = v
<1>1. ASSUME IInv, [Next]_vars, NEW v \in User, ~mayGoal[v], mayGoal'[v]
      PROVE  Right(v)
  <2>1. PICK u \in User, t \in Token : Join(u, t)
    <3>1. ~(mayGoal' = mayGoal)
      BY <1>1
    <3>2. Next
      BY <1>1, <3>1 DEF vars
    <3> QED BY <3>1, <3>2 DEF Next, people, Touch, Ensure, ChooseRelation, Cancel,
                 RecordEntry, CreateInvite, JoinCutShort, WelcomeAgain, Restart
  <2>2. mayGoal' = [mayGoal EXCEPT ![u] = invite[t].goals] /\ invite[t].status = "open"
    BY <2>1 DEF Join, MayJoin, Permission
  <2>3. v = u /\ invite[t].goals
    <3>1. /\ mayGoal'[u] = invite[t].goals
          /\ \A w \in User \ {u} : mayGoal'[w] = mayGoal[w]
      <4>1. mayGoal \in [User -> BOOLEAN]
        BY <1>1 DEF IInv, TypeOK
      <4> QED BY <2>2, <4>1, Zenon
    <3>2. CASE v # u
      <4>1. mayGoal'[v] = mayGoal[v]
        BY <3>1, <3>2
      <4> QED BY <1>1, <4>1, Zenon
    <3>3. CASE v = u
      <4>1. mayGoal'[v] = invite[t].goals
        BY <3>1, <3>3
      <4> QED BY <1>1, <3>3, <4>1, Zenon
    <3> QED BY <3>2, <3>3
  <2>4. invite[t] \in Invite /\ invite'[t] = Used(t, u)
    <3>1. TypeOK /\ invite[t] \in Invite
      BY <1>1, <2>2, OpenInvite DEF IInv
    <3> QED BY <2>1, <3>1 DEF Join, InvitesAfterJoin
  <2>5. invite'[t].usedBy = u
    BY <2>4 DEF Used, Invite
  <2> QED BY <2>2, <2>3, <2>5, Zenon
<1>2. IInv /\ [Next]_vars =>
        [\A u \in User : ~mayGoal[u] /\ mayGoal'[u] =>
           \E t \in Token : /\ invite[t].status = "open" /\ invite[t].goals
                            /\ invite'[t].usedBy = u]_vars
  BY <1>1, Zenon
<1> QED BY <1>2, IInvAlways, PTL DEF Spec, RightComesFromInvite
=============================================================================
