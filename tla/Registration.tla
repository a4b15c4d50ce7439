---------------------------- MODULE Registration ----------------------------
(***************************************************************************)
(* AuthService.register: a new account, its role and, for a parent, the    *)
(* guardians it is joined to, each in a statement of its own.  Sessions    *)
(* has what becomes of the account's tokens.                               *)
(***************************************************************************)
EXTENDS School

CONSTANTS
  Accounts,           \* the users who may register
  EmailOf, PhoneOf    \* of each of them and of each guardian, or None

Unassigned == "unassigned"
SelfRoles == {"teacher", "student", "parent"}

ASSUME RegistrationAssumption ==
  /\ \A u \in Accounts : EmailOf[u] # None \/ PhoneOf[u] # None
  /\ None \notin Accounts \cup SelfRoles \cup {Unassigned}

VARIABLE account      \* tables users and user_roles: the role of each, Unassigned or None

SameEmail(x, y) == EmailOf[x] # None /\ EmailOf[x] = EmailOf[y]
SamePhone(x, y) == PhoneOf[x] # None /\ PhoneOf[x] = PhoneOf[y]
SameContact(x, y) == SameEmail(x, y) \/ SamePhone(x, y)

Registered == {u \in Accounts : account[u] # None}
\* The rows of table guardians: addGuardian and create insert one with its first link.
GuardianRows == {linked[i].guardian : i \in DOMAIN linked}

\* register looks for an account with the e-mail or, of a user without one, the phone ...
Register(h) ==
  \E u \in Accounts, role \in SelfRoles :
    /\ Arrives(h, "register")
    /\ IF EmailOf[u] # None THEN ~ \E v \in Registered : SameEmail(u, v)
                            ELSE ~ \E v \in Registered : SamePhone(u, v)
    /\ Start(h, [at |-> "createUser", user |-> u, role |-> role])
    /\ UNCHANGED <<school, account>>

\* ... inserts the user, whom the unique indexes refuse when either is taken ...
CreateUser(h) ==
  LET m == req[h]
  IN /\ m.at = "createUser"
     /\ IF \E v \in Registered : SameContact(m.user, v)
        THEN Reply(h) /\ UNCHANGED account
        ELSE /\ account' = [account EXCEPT ![m.user] = Unassigned]
             /\ Goes(h, [m EXCEPT !.at = "assignRole"])
     /\ UNCHANGED school

\* ... and the role ...
AssignRole(h) ==
  LET m == req[h]
  IN /\ m.at = "assignRole"
     /\ account' = [account EXCEPT ![m.user] = m.role]
     /\ IF m.role = "parent" THEN Goes(h, [m EXCEPT !.at = "findGuardians"]) ELSE Reply(h)
     /\ UNCHANGED school

\* Mutant: a parent who registers with a phone is not looked for.
FoundByEmail(u) == {g \in GuardianRows : login[g] = None /\ SameEmail(g, u)}
\* ... and finds the guardians with the parent's e-mail or phone and no account ...
FoundGuardians(u) == {g \in GuardianRows : login[g] = None /\ SameContact(g, u)}
FindGuardians(h) ==
  LET m == req[h]
      found == FoundGuardians(m.user)
  IN /\ m.at = "findGuardians"
     /\ IF found = {} THEN Reply(h)
        ELSE Goes(h, [at |-> "joinGuardians", user |-> m.user, found |-> found])
     /\ UNCHANGED <<school, account>>

\* ... and saves them one by one, also one that another parent has been joined to meanwhile.
JoinGuardian(h) ==
  LET m == req[h]
  IN /\ m.at = "joinGuardians"
     /\ \E g \in m.found :
          /\ login' = [login EXCEPT ![g] = m.user]
          /\ IF m.found = {g} THEN Reply(h) ELSE Goes(h, [m EXCEPT !.found = @ \ {g}])
     /\ UNCHANGED <<student, assigned, linked, enrolled, profile, told, account>>

\* h registers u.
InProgress(h, u) ==
  /\ req[h].at \in {"createUser", "assignRole", "findGuardians", "joinGuardians"}
  /\ req[h].user = u

RegistrationInit == account = [u \in Accounts |-> None]

RegistrationStep(h) ==
  Register(h) \/ CreateUser(h) \/ AssignRole(h) \/ FindGuardians(h) \/ JoinGuardian(h)
=============================================================================
