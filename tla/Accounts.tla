------------------------------ MODULE Accounts ------------------------------
(***************************************************************************)
(* The panel's users (internal/panel/store.go) as administrators change    *)
(* them.  requireAuth looks the user of a session up, copies the record    *)
(* and lets go of the store's lock; the handler then acts on the copy, so  *)
(* a request carries the role its sender had when it came in.              *)
(*                                                                         *)
(* Abstracted: names, passwords, two-step verification, and sessions:      *)
(* whoever is not disabled may have logged in.  A refused request changes  *)
(* nothing and is not an action.                                           *)
(***************************************************************************)
EXTENDS Naturals, FiniteSets

CONSTANTS
    UserIds,    \* identifiers RandomID("usr") may return
    Team,       \* the super_admins in the beginning: the one the panel creates at
                \* its first start, with those created by him since
    Requests,   \* at most this many requests are being handled
    Absent,     \* "no entry" in a map; no request
    SaveMayFail \* whether writing the snapshot may fail

VARIABLES
    users,      \* Data.Users in memory
    savedUsers, \* the snapshot last written
    named,      \* identifiers handed out so far
    requests    \* requests past requireAuth: their senders, as copied there

accountVars == <<users, savedUsers, named, requests>>

Roles == {"user", "admin", "super_admin"}

User == [role : Roles, disabled : BOOLEAN]

Actor == [id : UserIds, role : Roles]

ASSUME AccountConstants ==
    /\ IsFiniteSet(UserIds)
    /\ Team \subseteq UserIds /\ Team # {}
    /\ Absent \notin User
    /\ Absent \notin Actor

-----------------------------------------------------------------------------

Exists(u) == users[u] # Absent

Enabled(u) == Exists(u) /\ ~users[u].disabled

SuperAdmins(accounts) ==
    {u \in UserIds : accounts[u] # Absent /\ accounts[u].role = "super_admin"}

EnabledSuperAdmins(accounts) == {u \in SuperAdmins(accounts) : ~accounts[u].disabled}

\* saveLocked
SaveUsers == savedUsers' = users' \/ (SaveMayFail /\ savedUsers' = savedUsers)

\* isAdmin
IsAdmin(role) == role \in {"admin", "super_admin"}

\* requireAuth and UserBySession
Authenticate(q, u) ==
    /\ requests[q] = Absent
    /\ Enabled(u)
    /\ requests' = [requests EXCEPT ![q] = [id |-> u, role |-> users[u].role]]
    /\ UNCHANGED <<users, savedUsers, named>>

\* handleUsers and CreateUser
CreateUser(actor, id, role) ==
    /\ IsAdmin(actor.role)
    /\ role = "super_admin" => actor.role = "super_admin"
    /\ id \notin named
    /\ named' = named \cup {id}
    /\ users' = [users EXCEPT ![id] = [role |-> role, disabled |-> FALSE]]
    /\ SaveUsers

MayTouch(actor, id, role) ==
    actor.role # "super_admin" => "super_admin" \notin {users[id].role, role}

NotOneself(actor, id, role, disabled) ==
    actor.id = id => ~disabled /\ role = users[id].role

\* A faulty variant: whoever may demote others may demote the last one.
LastGoesToo(id, role, disabled) == TRUE

\* The last super_admin is not demoted, the last enabled one not disabled.
KeepsLast(id, role, disabled) ==
    users[id].role = "super_admin" =>
        /\ role # "super_admin" => Cardinality(SuperAdmins(users)) > 1
        /\ disabled => Cardinality(EnabledSuperAdmins(users)) > 1

\* handleUserByID and UpdateUser
UpdateUser(actor, id, role, disabled) ==
    /\ IsAdmin(actor.role)
    /\ Exists(id)
    /\ MayTouch(actor, id, role)
    /\ NotOneself(actor, id, role, disabled)
    /\ KeepsLast(id, role, disabled)
    /\ users' = [users EXCEPT ![id] = [role |-> role, disabled |-> disabled]]
    /\ SaveUsers
    /\ UNCHANGED named

\* ResetUserPassword, of which only the save shows here
ResetUserPassword(actor, id) ==
    /\ IsAdmin(actor.role)
    /\ Exists(id)
    /\ users[id].role = "super_admin" => actor.role = "super_admin"
    /\ UNCHANGED <<users, named>>
    /\ SaveUsers

Handle(q) ==
    /\ requests[q] # Absent
    /\ \E id \in UserIds :
          \/ \E role \in Roles : CreateUser(requests[q], id, role)
          \/ \E role \in Roles, disabled \in BOOLEAN :
                UpdateUser(requests[q], id, role, disabled)
          \/ ResetUserPassword(requests[q], id)
    /\ requests' = [requests EXCEPT ![q] = Absent]

\* Some other handler saves what is in memory.
SaveAgain ==
    /\ savedUsers' = users
    /\ UNCHANGED <<users, named, requests>>

\* OpenStore after the process ended: what was being handled is lost.  The
\* snapshot has a user, so no administrator is created again.
PanelRestarts ==
    /\ users' = savedUsers
    /\ requests' = [q \in Requests |-> Absent]
    /\ UNCHANGED <<savedUsers, named>>

\* OpenStore of an empty database, or of one to which colleagues were added
AccountInit ==
    /\ users = [u \in UserIds |-> IF u \in Team THEN [role |-> "super_admin", disabled |-> FALSE]
                                  ELSE Absent]
    /\ savedUsers = users
    /\ named = Team
    /\ requests = [q \in Requests |-> Absent]

AccountNext ==
    \/ \E q \in Requests, u \in UserIds : Authenticate(q, u)
    \/ \E q \in Requests : Handle(q)
    \/ SaveAgain
    \/ PanelRestarts

AccountSpec == AccountInit /\ [][AccountNext]_accountVars

-----------------------------------------------------------------------------
(* Properties.                                                             *)

Accounts == [UserIds -> User \cup {Absent}]

AccountTypeOK ==
    /\ users \in Accounts
    /\ savedUsers \in Accounts
    /\ named \subseteq UserIds
    /\ requests \in [Requests -> Actor \cup {Absent}]

\* There is always a super_admin, in memory and in the snapshot: also when one
\* of two demotes the other, who demotes him in turn with the rights he had when
\* his request came in, and when the panel restarts from an older snapshot
\* (requireAuth, UpdateUser).
SuperAdminKept == SuperAdmins(users) # {} /\ SuperAdmins(savedUsers) # {}

\* docs/PROGRESS.md:56: the last super_admin cannot be disabled.  So one of
\* them can always log in (UpdateUser).  This holds while requests are
\* handled one at a time: UpdateUser counts the disabled ones before it
\* demotes, so a super_admin who was disabled a moment ago may still demote
\* the one who did it.
EnabledSuperAdminLeft ==
    EnabledSuperAdmins(users) # {} /\ EnabledSuperAdmins(savedUsers) # {}

=============================================================================
