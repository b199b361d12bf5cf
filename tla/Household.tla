------------------------------ MODULE Household ------------------------------
(***************************************************************************)
(* Households (bot/services/household.py, the household part of            *)
(* bot/db/repo.py, the invitation wizard of bot/handlers/callbacks.py and  *)
(* /start of bot/handlers/commands.py): who belongs to which household,    *)
(* which ledger an entry is in, and who may use the bot.                   *)
(*                                                                         *)
(* Each action is one handler, which runs without waiting; accepting an    *)
(* invitation commits twice, and a restart may come between the two.       *)
(***************************************************************************)
EXTENDS Naturals

CONSTANTS
  User,            \* everybody who talks to the bot
  Allowed,         \* settings.is_authorized: ALLOWED_USER_IDS, or all of User
  Token,           \* invitation tokens; random, so that none is issued twice
  Entry,           \* the transactions, goals and debts that will be recorded
  None,            \* NULL, or no row
  MaxHouseholds,   \* bound: households ever created
  CanCrash         \* may the process restart between two commits?

Household == 1..MaxHouseholds

ASSUME AllowedAssumption == Allowed \subseteq User
ASSUME NoneAssumption == None \notin User /\ None \notin Nat
ASSUME BoundAssumption == MaxHouseholds \in Nat /\ CanCrash \in BOOLEAN

VARIABLES
  member,     \* household_members: the household of each user, or None
  mayGoal,    \* can_set_goals: the column, or TRUE if there is no row
  owner,      \* households: the owner of each household, or None if no row
  next,       \* the AUTOINCREMENT id of the next household
  invite,     \* household_invites, by token
  entry,      \* transactions, goals, debts: who recorded an entry, and where it is
  choosing    \* user_data[INVITE_KEY]: users in the middle of the wizard

people == <<member, mayGoal, owner, next>>
vars == <<member, mayGoal, owner, next, invite, entry, choosing>>

NoInvite(status) ==
  [status |-> status, house |-> None, by |-> None, goals |-> FALSE, usedBy |-> None]
Invite == [status: {"open", "used"}, house: Household, by: User, goals: BOOLEAN,
           usedBy: User \cup {None}]
NoEntry == [house |-> None, by |-> None]

TypeOK ==
  /\ member \in [User -> Household \cup {None}]
  /\ mayGoal \in [User -> BOOLEAN]
  /\ owner \in [Household -> User \cup {None}]
  /\ next \in 1..(MaxHouseholds + 1)
  /\ invite \in [Token -> Invite \cup {NoInvite("unissued"), NoInvite("deleted")}]
  /\ entry \in [Entry -> [house: Household, by: User] \cup {NoEntry}]
  /\ choosing \in SUBSET User

Init ==
  /\ member = [u \in User |-> None]
  /\ mayGoal = [u \in User |-> TRUE]
  /\ owner = [h \in Household |-> None]
  /\ next = 1
  /\ invite = [t \in Token |-> NoInvite("unissued")]
  /\ entry = [e \in Entry |-> NoEntry]
  /\ choosing = {}

-----------------------------------------------------------------------------

Authorized(u) ==
  \/ u \in Allowed
  \/ member[u] # None /\ owner[member[u]] \in Allowed

\* _ensure_household: a user without a household gets one of his own.
Ensure(u) ==
  \/ /\ member[u] # None
     /\ UNCHANGED people
  \/ /\ member[u] = None
     /\ next \in Household
     /\ next' = next + 1
     /\ member' = [member EXCEPT ![u] = next]
     /\ owner' = [owner EXCEPT ![next] = u]
     /\ UNCHANGED mayGoal

\* Any message, button or command of an authorized user.
Touch(u) ==
  /\ Authorized(u)
  /\ Ensure(u)
  /\ UNCHANGED <<invite, entry, choosing>>

\* create_transaction, create_goal, create_debt.
RecordEntry(u, e) ==
  /\ Authorized(u)
  /\ entry[e] = NoEntry
  /\ Ensure(u)
  /\ entry' = [entry EXCEPT ![e] = [house |-> member'[u], by |-> u]]
  /\ UNCHANGED <<invite, choosing>>

-----------------------------------------------------------------------------
(* The wizard: a relation is chosen, then a permission.                    *)

ChooseRelation(u) ==
  /\ Authorized(u)
  /\ choosing' = choosing \cup {u}
  /\ UNCHANGED <<people, invite, entry>>

Cancel(u) ==
  /\ Authorized(u)
  /\ choosing' = choosing \ {u}
  /\ UNCHANGED <<people, invite, entry>>

\* Mutant of CreateInvite: the buttons of the wizard do not ask who taps them.
CreateInviteUnchecked(u, t, goals) ==
  /\ invite[t] = NoInvite("unissued")
  /\ Ensure(u)
  /\ invite' = [invite EXCEPT ![t] =
       [status |-> "open", house |-> member'[u], by |-> u, goals |-> goals, usedBy |-> None]]
  /\ choosing' = choosing \ {u}
  /\ UNCHANGED entry

CreateInvite(u, t, goals) ==
  /\ Authorized(u)
  /\ u \in choosing
  /\ invite[t] = NoInvite("unissued")
  /\ Ensure(u)
  /\ invite' = [invite EXCEPT ![t] =
       [status |-> "open", house |-> member'[u], by |-> u, goals |-> goals, usedBy |-> None]]
  /\ choosing' = choosing \ {u}
  /\ UNCHANGED entry

-----------------------------------------------------------------------------
(* The link.                                                               *)

\* accept_invite lets the user through to mark_invite_used.
MayJoin(u, t) ==
  /\ invite[t].status = "open"
  /\ invite[t].by # u
  /\ member[u] # invite[t].house

Used(t, u) == [invite[t] EXCEPT !.status = "used", !.usedBy = u]

\* The last member to leave takes the household with him.
Abandoned(u) == {member[u]} \ ({None} \cup {member[v] : v \in User \ {u}})

\* Mutant of Vacate: a household goes when anybody leaves it.
VacateAlways(u) ==
  owner' = [h \in Household |-> IF h = member[u] THEN None ELSE owner[h]]

Vacate(u) ==
  owner' = [h \in Household |-> IF h \in Abandoned(u) THEN None ELSE owner[h]]

\* Mutant of MoveEntries: the membership is changed first, so that "his old
\* household" is already the new one.
MoveNothing(u, house) == UNCHANGED entry

\* Every entry of the household he leaves moves, whoever recorded it.
MoveEntries(u, house) ==
  entry' = [e \in Entry |->
              IF entry[e] # NoEntry /\ entry[e].house = member[u]
                THEN [entry[e] EXCEPT !.house = house] ELSE entry[e]]

\* Mutant of InvitesAfterJoin: the invitations of a deleted household stay.
InvitesKept(u, t) == [i \in Token |-> IF i = t THEN Used(t, u) ELSE invite[i]]

\* ON DELETE CASCADE: the invitations of a deleted household go with it.
InvitesAfterJoin(u, t) ==
  [i \in Token |-> IF i = t THEN Used(t, u)
                   ELSE IF invite[i].house \in Abandoned(u) THEN NoInvite("deleted")
                   ELSE invite[i]]

\* Mutant of Permission: the yes and no of the wizard are mixed up.
PermissionInverted(t) == ~invite[t].goals

Permission(t) == invite[t].goals

\* mark_invite_used, then join_household.
Join(u, t) ==
  /\ MayJoin(u, t)
  /\ invite' = InvitesAfterJoin(u, t)
  /\ MoveEntries(u, invite[t].house)
  /\ Vacate(u)
  /\ member' = [member EXCEPT ![u] = invite[t].house]
  /\ mayGoal' = [mayGoal EXCEPT ![u] = Permission(t)]
  /\ UNCHANGED <<next, choosing>>

\* A restart, or an error of the second commit: the invitation is used up.
JoinCutShort(u, t) ==
  /\ CanCrash
  /\ MayJoin(u, t)
  /\ invite' = [invite EXCEPT ![t] = Used(t, u)]
  /\ choosing' \in {choosing, {}}
  /\ UNCHANGED <<people, entry>>

\* He who used the link is welcomed again, wherever he is by now; to name his
\* partners, the reply looks for his household, and makes one if there is none.
WelcomeAgain(u, t) ==
  /\ invite[t].status = "used" /\ invite[t].usedBy = u
  /\ Ensure(u)
  /\ UNCHANGED <<invite, entry, choosing>>

Restart ==
  /\ CanCrash
  /\ choosing' = {}
  /\ UNCHANGED <<people, invite, entry>>

-----------------------------------------------------------------------------

Next ==
  \/ \E u \in User :
       \/ Touch(u) \/ ChooseRelation(u) \/ Cancel(u)
       \/ \E e \in Entry : RecordEntry(u, e)
       \/ \E t \in Token :
            \/ \E goals \in BOOLEAN : CreateInvite(u, t, goals)
            \/ Join(u, t) \/ JoinCutShort(u, t) \/ WelcomeAgain(u, t)
  \/ Restart

Spec == Init /\ [][Next]_vars

-----------------------------------------------------------------------------
(* Properties.                                                             *)

\* No entry is left in a ledger nobody can open: whoever joins and leaves, each
\* entry is in the household of some user (repo.py:305-314).
NoEntryStranded ==
  \A e \in Entry : entry[e] # NoEntry => \E u \in User : member[u] = entry[e].house

\* A household exists as long as it has members, and no longer, so that no
\* foreign key of a member or an invitation dangles (repo.py:310-319).
HouseholdsArePeopled ==
  /\ \A h \in Household : owner[h] # None <=> \E u \in User : member[u] = h
  /\ \A t \in Token : invite[t].house # None => owner[invite[t].house] # None

\* A stranger can come to own a household (WelcomeAgain after JoinCutShort), but
\* he stays alone in it, nothing is recorded in it and nobody invited to it.
StrangersOwnNothing ==
  \A h \in Household : owner[h] \in User \ Allowed =>
    /\ \A u \in User : member[u] = h => u = owner[h]
    /\ \A e \in Entry : entry[e].house # h
    /\ \A t \in Token : invite[t].house # h

\* Nobody who may use the bot loses access by what the others do, nor by
\* moving on: not when the owner leaves his household, nor when a household is
\* deleted (household.py:42-53, repo.py:309-314).
AccessIsKept == [][\A u \in User : Authorized(u) => Authorized(u)']_vars

\* A member who may not set goals gets that right only by an invitation that
\* carries it, which he uses in that very step (household.py:141-143).
RightComesFromInvite ==
  [][\A u \in User : ~mayGoal[u] /\ mayGoal'[u] =>
       \E t \in Token : /\ invite[t].status = "open" /\ invite[t].goals
                        /\ invite'[t].usedBy = u]_vars

\* "His own previous household of one is merged into it", "so that nothing is
\* lost" (repo.py:292, 305): what somebody recorded is in his ledger.
LedgerFollowsRecorder ==
  \A e \in Entry : entry[e] # NoEntry => entry[e].house = member[entry[e].by]
=============================================================================
