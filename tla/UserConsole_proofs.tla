-------------------------- MODULE UserConsole_proofs --------------------------
(***************************************************************************)
(* Theorems about Accounts, and about UserConsole, which takes its steps,  *)
(* for every value of their constants.                                     *)
(***************************************************************************)
EXTENDS UserConsole, QueryCache_proofs, FiniteSetTheorems

-----------------------------------------------------------------------------
(* The panel.                                                              *)

\* What happens to the records of users, whoever asks for it.
Handled(actor) ==
    \E id \in UserIds :
        \/ \E role \in Roles : CreateUser(actor, id, role)
        \/ \E role \in Roles, disabled \in BOOLEAN : UpdateUser(actor, id, role, disabled)
        \/ ResetUserPassword(actor, id)

RecordsStep ==
    \/ \E actor \in Actor : Handled(actor)
    \/ named' = named /\ users' = users /\ savedUsers' \in {users, savedUsers}
    \/ named' = named /\ users' = savedUsers /\ savedUsers' = savedUsers

\* Identifiers are not handed out again.
AccountInv ==
    /\ AccountTypeOK
    /\ \A u \in UserIds : users[u] # Absent \/ savedUsers[u] # Absent => u \in named
    /\ SuperAdminKept

LEMMA AccountStart == AccountInit => AccountInv
<1> SUFFICES ASSUME AccountInit
             PROVE  AccountInv
  OBVIOUS
<1>1. AccountTypeOK
  <2>1. [role |-> "super_admin", disabled |-> FALSE] \in User
    BY DEF User, Roles
  <2>2. users \in Accounts /\ savedUsers = users
    BY <2>1 DEF AccountInit, Accounts
  <2>3. named \subseteq UserIds /\ requests \in [Requests -> Actor \cup {Absent}]
    BY AccountConstants DEF AccountInit
  <2> QED
    BY <2>2, <2>3 DEF AccountTypeOK
<1>2. \A u \in UserIds : users[u] # Absent => u \in named
  BY DEF AccountInit
<1>3. PICK u \in UserIds : u \in Team
  BY AccountConstants
<1>4. users[u] = [role |-> "super_admin", disabled |-> FALSE] /\ users[u] # Absent
  <2>1. [role |-> "super_admin", disabled |-> FALSE] \in User
    BY DEF User, Roles
  <2>2. users[u] = [role |-> "super_admin", disabled |-> FALSE]
    BY <1>3 DEF AccountInit
  <2> QED
    BY <2>1, <2>2, AccountConstants
<1>5. SuperAdmins(users) # {} /\ savedUsers = users
  BY <1>4 DEF SuperAdmins, AccountInit
<1> QED
  BY <1>1, <1>2, <1>5 DEF AccountInv, SuperAdminKept

\* When one of several super_admins goes, another one stays.
LEMMA AnotherStays ==
    ASSUME NEW id,
           Cardinality(SuperAdmins(users)) > 1
    PROVE  \E u \in SuperAdmins(users) : u # id
<1> SUFFICES ASSUME \A u \in SuperAdmins(users) : u = id
             PROVE  FALSE
  OBVIOUS
<1>1. SuperAdmins(users) = {} \/ SuperAdmins(users) = {id}
  OBVIOUS
<1>2. Cardinality({}) = 0 /\ Cardinality({id}) = 1
  BY FS_EmptySet, FS_Singleton
<1> QED
  BY <1>1, <1>2

LEMMA RecordsAreKept ==
    ASSUME AccountInv, RecordsStep
    PROVE  /\ users' \in Accounts /\ savedUsers' \in Accounts /\ named' \subseteq UserIds
           /\ \A u \in UserIds : users'[u] # Absent \/ savedUsers'[u] # Absent => u \in named'
           /\ SuperAdminKept'
<1> DEFINE Goal == /\ users' \in Accounts /\ savedUsers' \in Accounts /\ named' \subseteq UserIds
                   /\ \A u \in UserIds :
                         users'[u] # Absent \/ savedUsers'[u] # Absent => u \in named'
                   /\ SuperAdminKept'
<1> USE DEF AccountInv, AccountTypeOK
<1>0. PICK admin \in UserIds : users[admin] # Absent /\ users[admin].role = "super_admin"
  BY DEF SuperAdminKept, SuperAdmins
<1>1. \A role \in Roles, disabled \in BOOLEAN :
        /\ [role |-> role, disabled |-> disabled] \in User
        /\ [role |-> role, disabled |-> disabled] # Absent
  BY AccountConstants DEF User
<1>2. ASSUME users' \in Accounts, SaveUsers, named \subseteq named', named' \subseteq UserIds,
             \A u \in UserIds : users'[u] # Absent => u \in named',
             SuperAdmins(users') # {}
      PROVE  Goal
  BY <1>2 DEF SaveUsers, SuperAdminKept, SuperAdmins
<1>3. ASSUME NEW actor \in Actor, NEW id \in UserIds, NEW role \in Roles,
             CreateUser(actor, id, role)
      PROVE  Goal
  <2>1. /\ users' = [users EXCEPT ![id] = [role |-> role, disabled |-> FALSE]]
        /\ id \notin named /\ named' = named \cup {id} /\ SaveUsers
    BY <1>3 DEF CreateUser
  <2>2. users' \in Accounts
    BY <1>1, <2>1 DEF Accounts
  <2>3. admin # id /\ users'[admin] = users[admin]
    BY <1>0, <2>1 DEF Accounts
  <2>4. SuperAdmins(users') # {}
    BY <1>0, <2>3 DEF SuperAdmins
  <2>5. \A u \in UserIds : users'[u] # Absent => u \in named'
    BY <2>1 DEF Accounts
  <2> QED
    BY <1>2, <2>1, <2>2, <2>4, <2>5
<1>4. ASSUME NEW actor \in Actor, NEW id \in UserIds, NEW role \in Roles, NEW disabled \in BOOLEAN,
             UpdateUser(actor, id, role, disabled)
      PROVE  Goal
  <2>1. /\ users' = [users EXCEPT ![id] = [role |-> role, disabled |-> disabled]]
        /\ users[id] # Absent /\ named' = named /\ SaveUsers
    BY <1>4 DEF UpdateUser, Exists
  <2>2. users' \in Accounts
    BY <1>1, <2>1 DEF Accounts
  <2>3. SuperAdmins(users') # {}
    <3>1. CASE role = "super_admin"
      BY <1>1, <2>1, <3>1 DEF SuperAdmins, Accounts
    <3>2. CASE users[id].role # "super_admin"
      BY <1>0, <2>1, <3>2 DEF SuperAdmins, Accounts
    <3>3. CASE role # "super_admin" /\ users[id].role = "super_admin"
      <4>1. PICK u \in SuperAdmins(users) : u # id
        BY <1>4, <3>3, AnotherStays DEF UpdateUser, KeepsLast
      <4> QED
        BY <2>1, <4>1 DEF SuperAdmins, Accounts
    <3> QED
      BY <3>1, <3>2, <3>3
  <2>4. \A u \in UserIds : users'[u] # Absent => u \in named'
    BY <2>1 DEF Accounts
  <2> QED
    BY <1>2, <2>1, <2>2, <2>3, <2>4
<1>5. ASSUME NEW actor \in Actor, NEW id \in UserIds, ResetUserPassword(actor, id)
      PROVE  Goal
  BY <1>2, <1>5 DEF ResetUserPassword, SuperAdminKept
<1>6. CASE named' = named /\ users' = users /\ savedUsers' \in {users, savedUsers}
  BY <1>6 DEF SuperAdminKept, SuperAdmins
<1>7. CASE named' = named /\ users' = savedUsers /\ savedUsers' = savedUsers
  BY <1>7 DEF SuperAdminKept, SuperAdmins
<1> QED
  BY <1>3, <1>4, <1>5, <1>6, <1>7 DEF RecordsStep, Handled

\* The requests of the other administrators
LEMMA RequestsStep ==
    ASSUME AccountTypeOK, [AccountNext]_accountVars
    PROVE  RecordsStep /\ requests' \in [Requests -> Actor \cup {Absent}]
<1> USE DEF AccountTypeOK
<1>1. ASSUME NEW q \in Requests, NEW u \in UserIds, Authenticate(q, u)
      PROVE  RecordsStep /\ requests' \in [Requests -> Actor \cup {Absent}]
  <2>1. users[u] \in User
    BY <1>1 DEF Authenticate, Enabled, Exists, Accounts
  <2>2. [id |-> u, role |-> users[u].role] \in Actor
    BY <2>1 DEF User, Actor
  <2> QED
    BY <1>1, <2>2 DEF Authenticate, RecordsStep
<1>2. ASSUME NEW q \in Requests, Handle(q)
      PROVE  RecordsStep /\ requests' \in [Requests -> Actor \cup {Absent}]
  <2>1. requests[q] \in Actor
    BY <1>2 DEF Handle
  <2>2. requests' \in [Requests -> Actor \cup {Absent}]
    BY <1>2 DEF Handle
  <2>3. Handled(requests[q])
    BY <1>2 DEF Handle, Handled
  <2> QED
    BY <2>1, <2>2, <2>3 DEF RecordsStep
<1>3. CASE SaveAgain
  BY <1>3 DEF SaveAgain, RecordsStep
<1>4. CASE PanelRestarts
  BY <1>4 DEF PanelRestarts, RecordsStep
<1>5. CASE UNCHANGED accountVars
  BY <1>5 DEF accountVars, RecordsStep
<1> QED
  BY <1>1, <1>2, <1>3, <1>4, <1>5 DEF AccountNext

LEMMA AccountStep ==
    ASSUME AccountInv, RecordsStep, requests' \in [Requests -> Actor \cup {Absent}]
    PROVE  AccountInv'
  BY RecordsAreKept DEF AccountInv, AccountTypeOK

THEOREM AccountsSafe == AccountSpec => []AccountInv
<1>1. AccountInv /\ [AccountNext]_accountVars => AccountInv'
  BY RequestsStep, AccountStep DEF AccountInv
<1> QED
  BY <1>1, AccountStart, PTL DEF AccountSpec

\* Nothing changed since the sender of a request was looked up.
SendersAreCurrent ==
    \A q \in Requests : requests[q] # Absent =>
        /\ Enabled(requests[q].id)
        /\ users[requests[q].id].role = requests[q].role

OneAtATime == \A p, q \in Requests : p = q

\* A change that takes an enabled super_admin away is made by another one, who
\* stays.
LEMMA UpdateLeavesEnabled ==
    ASSUME AccountTypeOK, NEW actor \in Actor, NEW id \in UserIds, NEW role \in Roles,
           NEW disabled \in BOOLEAN, UpdateUser(actor, id, role, disabled),
           Enabled(actor.id), users[actor.id].role = actor.role,
           EnabledSuperAdmins(users) # {}
    PROVE  EnabledSuperAdmins(users') # {}
<1> DEFINE changed == [role |-> role, disabled |-> disabled]
<1>1. /\ users \in Accounts /\ actor.id \in UserIds
      /\ changed \in User /\ changed # Absent
      /\ users' = [users EXCEPT ![id] = changed]
  BY AccountConstants DEF AccountTypeOK, Actor, User, UpdateUser
<1>2. ASSUME NEW u \in UserIds, u # id, u \in EnabledSuperAdmins(users)
      PROVE  u \in EnabledSuperAdmins(users')
  BY <1>1, <1>2 DEF EnabledSuperAdmins, SuperAdmins, Accounts
<1>3. CASE id \notin EnabledSuperAdmins(users)
  BY <1>2, <1>3 DEF EnabledSuperAdmins, SuperAdmins
<1>4. CASE id \in EnabledSuperAdmins(users) /\ role = "super_admin" /\ ~disabled
  <2>1. users'[id] = changed
    BY <1>1 DEF Accounts
  <2>2. id \in EnabledSuperAdmins(users')
    BY <1>1, <1>4, <2>1 DEF EnabledSuperAdmins, SuperAdmins
  <2> QED
    BY <2>2
<1>5. CASE id \in EnabledSuperAdmins(users) /\ (role # "super_admin" \/ disabled)
  <2>1. users[id].role = "super_admin"
    BY <1>5 DEF EnabledSuperAdmins, SuperAdmins
  <2>2. actor.id # id /\ actor.role = "super_admin"
    BY <1>5, <2>1 DEF UpdateUser, NotOneself, MayTouch
  <2>3. actor.id \in EnabledSuperAdmins(users)
    BY <1>1, <2>2 DEF Enabled, Exists, EnabledSuperAdmins, SuperAdmins
  <2> QED
    BY <1>1, <1>2, <2>2, <2>3
<1> QED
  BY <1>3, <1>4, <1>5

LEMMA EnabledStep ==
    ASSUME OneAtATime, AccountInv, EnabledSuperAdminLeft, SendersAreCurrent,
           [AccountNext]_accountVars
    PROVE  EnabledSuperAdminLeft' /\ SendersAreCurrent'
<1> DEFINE Goal == EnabledSuperAdminLeft' /\ SendersAreCurrent'
<1>1. AccountTypeOK
  BY DEF AccountInv
<1>2. ASSUME NEW q \in Requests, NEW u \in UserIds, Authenticate(q, u)
      PROVE  Goal
  <2>1. /\ requests' = [requests EXCEPT ![q] = [id |-> u, role |-> users[u].role]]
        /\ users' = users /\ savedUsers' = savedUsers /\ Enabled(u)
    BY <1>2 DEF Authenticate
  <2>2. SendersAreCurrent'
    BY <1>1, <2>1 DEF SendersAreCurrent, AccountTypeOK, Enabled, Exists
  <2> QED
    BY <2>1, <2>2 DEF EnabledSuperAdminLeft, EnabledSuperAdmins, SuperAdmins
<1>3. ASSUME NEW q \in Requests, Handle(q)
      PROVE  Goal
  <2>1. /\ requests[q] \in Actor /\ requests' = [requests EXCEPT ![q] = Absent]
        /\ Enabled(requests[q].id) /\ users[requests[q].id].role = requests[q].role
    BY <1>1, <1>3 DEF Handle, AccountTypeOK, SendersAreCurrent
  <2>2. SendersAreCurrent'
    BY <1>1, <2>1 DEF OneAtATime, SendersAreCurrent, AccountTypeOK
  <2>3. SaveUsers /\ EnabledSuperAdmins(users') # {}
    <3>1. ASSUME NEW id \in UserIds, NEW role \in Roles, CreateUser(requests[q], id, role)
          PROVE  SaveUsers /\ EnabledSuperAdmins(users') # {}
      <4>1. PICK u \in UserIds : users[u] # Absent /\ u \in EnabledSuperAdmins(users)
        BY DEF EnabledSuperAdminLeft, EnabledSuperAdmins, SuperAdmins
      <4>2. u # id
        BY <3>1, <4>1 DEF CreateUser, AccountInv
      <4>3. users'[u] = users[u] /\ SaveUsers
        BY <1>1, <3>1, <4>2 DEF CreateUser, AccountTypeOK, Accounts
      <4> QED
        BY <4>1, <4>3 DEF EnabledSuperAdmins, SuperAdmins
    <3>2. ASSUME NEW id \in UserIds, NEW role \in Roles, NEW disabled \in BOOLEAN,
                 UpdateUser(requests[q], id, role, disabled)
          PROVE  SaveUsers /\ EnabledSuperAdmins(users') # {}
      <4>1. SaveUsers
        BY <3>2 DEF UpdateUser
      <4> QED
        BY <1>1, <2>1, <3>2, <4>1, UpdateLeavesEnabled DEF EnabledSuperAdminLeft
    <3>3. ASSUME NEW id \in UserIds, ResetUserPassword(requests[q], id)
          PROVE  SaveUsers /\ EnabledSuperAdmins(users') # {}
      BY <3>3 DEF ResetUserPassword, EnabledSuperAdminLeft, EnabledSuperAdmins, SuperAdmins
    <3> QED
      BY <1>3, <3>1, <3>2, <3>3 DEF Handle
  <2>4. EnabledSuperAdminLeft'
    BY <2>3 DEF SaveUsers, EnabledSuperAdminLeft, EnabledSuperAdmins, SuperAdmins
  <2> QED
    BY <2>2, <2>4
<1>4. CASE SaveAgain
  BY <1>4 DEF SaveAgain, EnabledSuperAdminLeft, EnabledSuperAdmins, SuperAdmins,
              SendersAreCurrent, Enabled, Exists
<1>5. CASE PanelRestarts
  BY <1>5 DEF PanelRestarts, EnabledSuperAdminLeft, EnabledSuperAdmins, SuperAdmins,
              SendersAreCurrent
<1>6. CASE UNCHANGED accountVars
  BY <1>6 DEF accountVars, EnabledSuperAdminLeft, EnabledSuperAdmins, SuperAdmins,
              SendersAreCurrent, Enabled, Exists
<1> QED
  BY <1>2, <1>3, <1>4, <1>5, <1>6 DEF AccountNext

\* The last super_admin who can log in is not taken away (docs/PROGRESS.md:56;
\* UpdateUser), whoever asks for what and through restarts from older
\* snapshots, as long as one request is handled before the next is let in.
\* That is the most that holds: requireAuth copies the sender's rights.
THEOREM EnabledOneLeft ==
    ASSUME OneAtATime
    PROVE  AccountSpec => []EnabledSuperAdminLeft
<1>1. AccountInit => EnabledSuperAdminLeft /\ SendersAreCurrent
  <2> SUFFICES ASSUME AccountInit
               PROVE  EnabledSuperAdminLeft /\ SendersAreCurrent
    OBVIOUS
  <2>1. PICK u \in UserIds : u \in Team
    BY AccountConstants
  <2>2. [role |-> "super_admin", disabled |-> FALSE] # Absent
    <3>1. "super_admin" \in Roles /\ FALSE \in BOOLEAN
      BY DEF Roles
    <3>2. [role |-> "super_admin", disabled |-> FALSE] \in User
      BY <3>1 DEF User
    <3> QED
      BY <3>2, AccountConstants
  <2>3. users[u] = [role |-> "super_admin", disabled |-> FALSE]
    BY <2>1 DEF AccountInit
  <2>4. u \in EnabledSuperAdmins(users) /\ savedUsers = users
    BY <2>2, <2>3 DEF AccountInit, EnabledSuperAdmins, SuperAdmins
  <2> QED
    BY <2>4 DEF AccountInit, EnabledSuperAdminLeft, SendersAreCurrent
<1>2. AccountInv /\ EnabledSuperAdminLeft /\ SendersAreCurrent /\ [AccountNext]_accountVars
        => EnabledSuperAdminLeft' /\ SendersAreCurrent'
  BY EnabledStep
<1> QED
  BY <1>1, <1>2, AccountsSafe, PTL DEF AccountSpec

-----------------------------------------------------------------------------
(* The page.                                                               *)

\* What a mutation carries is fit for its kind.
CallFits ==
    call # Nothing => /\ call.kind \in {"create", "update"} => call.draft \in Draft
                      /\ call.kind \in {"update", "reset"} => call.id \in UserIds

LEMMA DraftTypes ==
    /\ Draft = User
    /\ \A role \in Roles : NewUser(role) \in Draft
    /\ \A d \in Draft, role \in Roles, disabled \in BOOLEAN :
          /\ d.role \in Roles /\ d.disabled \in BOOLEAN
          /\ [d EXCEPT !.role = role] \in Draft
          /\ [d EXCEPT !.disabled = disabled] \in Draft
  BY DEF Draft, User, NewUser

LEMMA RowTypes ==
    ASSUME UserTypeOK, NEW u \in Rows
    PROVE  u \in UserIds /\ DraftOf(u) \in Draft /\ DraftSoFar(u) \in Draft
<1>1. u \in UserIds /\ list.data # Nothing /\ list.data.users[u] # Absent
  BY DEF Rows, Listed
<1>2. list.data.users \in Accounts
  BY <1>1 DEF UserTypeOK, Query, Shown
<1>3. list.data.users[u] \in User
  BY <1>1, <1>2 DEF Accounts
<1>4. drafts[u] \in Draft \cup {Nothing} /\ "user" \in Roles
  BY <1>1 DEF UserTypeOK, Roles
<1> QED
  BY <1>1, <1>3, <1>4, DraftTypes DEF DraftOf, DraftSoFar

\* A call that is handled, and the requests of the others, change the records
\* of users the same way.
LEMMA PageStepsThePanel ==
    ASSUME UserTypeOK, CallFits, [UserNext]_userVars
    PROVE  RecordsStep /\ requests' \in [Requests -> Actor \cup {Absent}]
<1>1. CASE HandleCall
  <2> DEFINE me == [id |-> Me, role |-> users[Me].role]
  <2>1. Me \in UserIds
    BY UserConsoleConstants, AccountConstants
  <2>2. users[Me] \in User
    BY <1>1, <2>1 DEF HandleCall, Enabled, Exists, UserTypeOK, AccountTypeOK, Accounts
  <2>3. me \in Actor
    BY <2>1, <2>2 DEF User, Actor
  <2>4. call # Nothing /\ Request(me)
    BY <1>1 DEF HandleCall
  <2> HIDE DEF me
  <2>5. Handled(me)
    <3>1. ASSUME call.kind = "create", NEW id \in UserIds, CreateUser(me, id, call.draft.role)
          PROVE  Handled(me)
      <4>1. call.draft.role \in Roles
        BY <2>4, <3>1 DEF CallFits, Draft
      <4> QED
        BY <3>1, <4>1, Zenon DEF Handled
    <3>2. CASE call.kind = "update" /\ UpdateUser(me, call.id, call.draft.role, call.draft.disabled)
      <4>1. call.id \in UserIds /\ call.draft.role \in Roles /\ call.draft.disabled \in BOOLEAN
        BY <2>4, <3>2 DEF CallFits, Draft
      <4> QED
        BY <3>2, <4>1 DEF Handled
    <3>3. CASE call.kind = "reset" /\ ResetUserPassword(me, call.id)
      <4>1. call.id \in UserIds
        BY <2>4, <3>3 DEF CallFits
      <4> QED
        BY <3>3, <4>1 DEF Handled
    <3> QED
      BY <2>4, <3>1, <3>2, <3>3 DEF Request
  <2> QED
    BY <1>1, <2>3, <2>5 DEF HandleCall, RecordsStep, UserTypeOK, AccountTypeOK
<1>2. CASE Others
  BY <1>2, RequestsStep DEF Others, UserTypeOK
<1>3. ASSUME [UserNext]_userVars, ~HandleCall, ~Others
      PROVE  UNCHANGED accountVars
  BY <1>3 DEF UserNext, OpenPage, LeavePage, Refresh, Reconnect, ChooseRole, TickDisabled,
              SaveRow, OpenDialog,
              SubmitForm, ConfirmReset, Send, CallFails, OnSuccess, ServeFetch, DeliverFetch,
              FetchLost, panelVars, accountVars, userVars
<1> QED
  BY <1>1, <1>2, <1>3 DEF UserTypeOK, AccountTypeOK, RecordsStep, accountVars

LEMMA CallTypes ==
    ASSUME NEW c \in Call, NEW v \in Nat
    PROVE  /\ [c EXCEPT !.here = FALSE] \in Call
           /\ [c EXCEPT !.here = FALSE].kind = c.kind
           /\ [c EXCEPT !.here = FALSE].id = c.id
           /\ [c EXCEPT !.here = FALSE].draft = c.draft
           /\ [c EXCEPT !.here = FALSE].version = c.version
           /\ [c EXCEPT !.done = TRUE, !.version = v] \in Call
           /\ [c EXCEPT !.done = TRUE, !.version = v].kind = c.kind
           /\ [c EXCEPT !.done = TRUE, !.version = v].id = c.id
           /\ [c EXCEPT !.done = TRUE, !.version = v].draft = c.draft
           /\ [c EXCEPT !.done = TRUE, !.version = v].version = v
  BY DEF Call

\* The page's own state, beside the panel's
PageTypeOK ==
    /\ changes \in Nat
    /\ page \in BOOLEAN
    /\ list \in Query(Shown)
    /\ drafts \in [UserIds -> Draft \cup {Nothing}]
    /\ dialog \in Dialogs
    /\ call \in Call \cup {Nothing}
    /\ own \in Nat

LEMMA NewCalls ==
    ASSUME NEW kind \in {"create", "update", "reset"},
           NEW id \in UserIds \cup {Nothing},
           NEW draft \in Draft \cup {Nothing},
           Send(kind, id, draft)
    PROVE  /\ call' \in Call
           /\ call'.kind = kind /\ call'.id = id /\ call'.draft = draft
           /\ ~call'.done
           /\ UNCHANGED <<panelVars, page, list, pageVars, own>>
  BY DEF Send, Call

\* A mutation that is sent is fit for its kind.
LEMMA SentCalls ==
    ASSUME UserTypeOK,
           \/ \E u \in UserIds : SaveRow(u)
           \/ \E role \in Roles : SubmitForm(role)
           \/ ConfirmReset
    PROVE  /\ call' \in Call /\ CallFits' /\ ~call'.done
           /\ UNCHANGED <<panelVars, page, list, pageVars, own>>
<1>1. ASSUME NEW u \in UserIds, SaveRow(u)
      PROVE  /\ call' \in Call /\ CallFits' /\ ~call'.done
             /\ UNCHANGED <<panelVars, page, list, pageVars, own>>
  <2>1. DraftOf(u) \in Draft /\ Send("update", u, DraftOf(u))
    BY <1>1, RowTypes DEF SaveRow
  <2> QED
    BY <2>1, NewCalls DEF CallFits
<1>2. ASSUME NEW role \in Roles, SubmitForm(role)
      PROVE  /\ call' \in Call /\ CallFits' /\ ~call'.done
             /\ UNCHANGED <<panelVars, page, list, pageVars, own>>
  <2>1. NewUser(role) \in Draft /\ Send("create", Nothing, NewUser(role))
    BY <1>2 DEF SubmitForm, NewUser, Draft
  <2> QED
    BY <2>1, NewCalls DEF CallFits
<1>3. CASE ConfirmReset
  <2>1. dialog \in UserIds /\ Send("reset", dialog, Nothing)
    BY <1>3 DEF ConfirmReset, Listed
  <2> QED
    BY <2>1, NewCalls DEF CallFits
<1> QED
  BY <1>1, <1>2, <1>3

LEMMA PageTypeStep ==
    ASSUME UserTypeOK, CallFits, [UserNext]_userVars
    PROVE  PageTypeOK' /\ CallFits'
<1> USE DEF PageTypeOK, CallFits
<1>0. PageTypeOK
  BY DEF UserTypeOK
<1>1. ASSUME NEW aged \in BOOLEAN, OpenPage(aged) \/ Reconnect(aged)
      PROVE  PageTypeOK' /\ CallFits'
  BY <1>0, <1>1, QueryTypes DEF OpenPage, Reconnect, panelVars, pageVars
<1>2. CASE LeavePage
  <2>1. call # Nothing => /\ call' = [call EXCEPT !.here = FALSE]
                          /\ call \in Call
    BY <1>0, <1>2 DEF LeavePage
  <2>2. call # Nothing => /\ call' \in Call /\ call'.kind = call.kind
                          /\ call'.id = call.id /\ call'.draft = call.draft
    BY <2>1, CallTypes
  <2>3. call = Nothing => call' = Nothing
    BY <1>2 DEF LeavePage
  <2>4. drafts' = [u \in UserIds |-> Nothing] /\ dialog' = "none" /\ own' = 0
        /\ page' = FALSE /\ UNCHANGED <<changes, list>>
    BY <1>2 DEF LeavePage, panelVars
  <2> QED
    BY <1>0, <2>2, <2>3, <2>4 DEF Dialogs
<1>3. CASE Refresh
  BY <1>0, <1>3, QueryTypes DEF Refresh, panelVars, pageVars
<1>4. ASSUME NEW u \in UserIds, NEW role \in Roles, ChooseRole(u, role)
      PROVE  PageTypeOK' /\ CallFits'
  <2>1. [DraftSoFar(u) EXCEPT !.role = role] \in Draft
    BY <1>4, RowTypes, DraftTypes DEF ChooseRole
  <2> QED
    BY <1>0, <1>4, <2>1 DEF ChooseRole, panelVars
<1>5. ASSUME NEW u \in UserIds, TickDisabled(u)
      PROVE  PageTypeOK' /\ CallFits'
  <2>1. [DraftSoFar(u) EXCEPT !.disabled = ~DraftOf(u).disabled] \in Draft
    <3>1. DraftSoFar(u) \in Draft
      BY <1>5, RowTypes DEF TickDisabled
    <3>2. (~DraftOf(u).disabled) \in BOOLEAN
      OBVIOUS
    <3> QED
      BY <3>1, <3>2 DEF Draft
  <2> QED
    BY <1>0, <1>5, <2>1 DEF TickDisabled, panelVars
<1>6. ASSUME NEW d \in Dialogs, OpenDialog(d)
      PROVE  PageTypeOK' /\ CallFits'
  BY <1>0, <1>6 DEF OpenDialog, panelVars
<1>7. CASE \/ \E u \in UserIds : SaveRow(u)
           \/ \E role \in Roles : SubmitForm(role)
           \/ ConfirmReset
  BY <1>0, <1>7, SentCalls DEF panelVars, pageVars
<1>8. CASE HandleCall
  <2>1. call \in Call /\ changes' \in Nat
    BY <1>0, <1>8 DEF HandleCall
  <2>2. call' = Nothing \/ call' = [call EXCEPT !.done = TRUE, !.version = changes']
    BY <1>8 DEF HandleCall
  <2>3. call' # Nothing => /\ call' \in Call /\ call'.kind = call.kind
                           /\ call'.id = call.id /\ call'.draft = call.draft
    <3>1. CASE call' = Nothing
      BY <3>1
    <3>2. CASE call' = [call EXCEPT !.done = TRUE, !.version = changes']
      BY <2>1, <3>2, CallTypes, Zenon
    <3> QED
      BY <2>2, <3>1, <3>2
  <2>4. UNCHANGED <<page, list, drafts, dialog, own>> /\ call # Nothing
    BY <1>8 DEF HandleCall, pageVars
  <2> QED
    BY <1>0, <2>1, <2>3, <2>4
<1>9. CASE CallFails
  BY <1>0, <1>9 DEF CallFails, panelVars, pageVars
<1>10. CASE OnSuccess
  <2>1. call.version \in Nat
    BY <1>0, <1>10 DEF OnSuccess, Call
  <2>2. own' \in Nat
    BY <1>0, <1>10, <2>1 DEF OnSuccess, Later
  <2>3. list' \in Query(Shown)
    BY <1>0, <1>10, QueryTypes DEF OnSuccess
  <2>4. dialog' \in Dialogs
    BY <1>0, <1>10 DEF OnSuccess, Dialogs
  <2> QED
    BY <1>0, <1>10, <2>2, <2>3, <2>4 DEF OnSuccess, panelVars
<1>11. CASE ServeFetch
  <2>1. [users |-> users, version |-> changes] \in Shown
    BY DEF UserTypeOK, AccountTypeOK, Shown
  <2> QED
    BY <1>0, <1>11, <2>1, QueryTypes DEF ServeFetch, panelVars, pageVars
<1>12. CASE DeliverFetch
  BY <1>0, <1>12, QueryTypes DEF DeliverFetch, panelVars, pageVars
<1>13. CASE FetchLost
  BY <1>0, <1>13, QueryTypes DEF FetchLost, panelVars, pageVars
<1>14. CASE Others
  <2>1. changes' \in Nat
    BY <1>0, <1>14 DEF Others
  <2> QED
    BY <1>0, <1>14, <2>1 DEF Others, pageVars
<1>15. CASE UNCHANGED userVars
  BY <1>0, <1>15 DEF userVars
<1> QED
  BY <1>1, <1>2, <1>3, <1>4, <1>5, <1>6, <1>7, <1>8, <1>9, <1>10, <1>11, <1>12, <1>13, <1>14, <1>15
  DEF UserNext

\* No answer is on its way that is older than the table, or than a change the
\* user was told is saved.
VersionsInOrder ==
    /\ own <= changes
    /\ ShownVersion <= changes
    /\ call # Nothing => call.version <= changes
    /\ list.step = "answered" => /\ list.answer # Nothing
                                 /\ list.answer.version >= ShownVersion
                                 /\ list.answer.version >= own
                                 /\ list.answer.version <= changes

UserInv ==
    /\ UserTypeOK
    /\ CallFits
    /\ AccountInv
    /\ VersionsInOrder

LEMMA UserStart == UserInit => UserInv
<1> SUFFICES ASSUME UserInit
             PROVE  UserInv
  OBVIOUS
<1>1. AccountInv
  BY AccountStart DEF UserInit
<1>2. PageTypeOK
  BY NewQueryType DEF UserInit, PageTypeOK, Dialogs
<1>3. ShownVersion = 0 /\ changes = 0 /\ own = 0 /\ list.step = "idle" /\ call = Nothing
  BY DEF UserInit, ShownVersion, NewQuery
<1> QED
  BY <1>1, <1>2, <1>3 DEF UserInv, UserTypeOK, PageTypeOK, AccountInv, CallFits, VersionsInOrder

\* What the table shows changes only when an answer is delivered.
LEMMA VersionsStep ==
    ASSUME UserInv, [UserNext]_userVars
    PROVE  VersionsInOrder' /\ [Copy!RYWNext]_(Copy!rywVars)
<1> DEFINE Goal == VersionsInOrder' /\ [Copy!RYWNext]_(Copy!rywVars)
<1> USE DEF ShownVersion
<1>0. /\ list \in Query(Shown) /\ page \in BOOLEAN /\ own \in Nat /\ changes \in Nat
      /\ call \in Call \cup {Nothing}
      /\ VersionsInOrder
  BY DEF UserInv, UserTypeOK
<1>1. /\ ShownVersion \in Nat
      /\ list.answer # Nothing => list.answer.version \in Nat
      /\ call # Nothing => call.version \in Nat
  BY <1>0 DEF Query, Shown, Call
<1>2. ASSUME UNCHANGED <<changes, own, list, call>>
      PROVE  Goal
  BY <1>0, <1>2 DEF VersionsInOrder, Copy!rywVars
<1>3. ASSUME UNCHANGED <<changes, list>>, own' \in {own, 0}, call' # Nothing =>
                (call # Nothing /\ call'.version = call.version) \/ call'.version = 0
      PROVE  Goal
  BY <1>0, <1>1, <1>3 DEF VersionsInOrder, Copy!rywVars, Copy!RYWNext, Copy!Forget
\* A fetch that starts, ends without an answer, or goes on changes no version.
<1>4. ASSUME UNCHANGED <<changes, own, call>>, list'.data = list.data,
             list'.step = "answered" => list.step = "answered" /\ list'.answer = list.answer
      PROVE  Goal
  BY <1>0, <1>1, <1>4 DEF VersionsInOrder, Copy!rywVars
<1>5. ASSUME NEW aged \in BOOLEAN, OpenPage(aged) \/ Reconnect(aged)
      PROVE  Goal
  <2>1. UNCHANGED <<changes, own, call>> /\ list' = Mount(list, aged)
    BY <1>5 DEF OpenPage, Reconnect, panelVars
  <2> QED
    BY <1>0, <1>4, <2>1, QueryKeepsData
<1>6. CASE LeavePage
  <2>1. UNCHANGED <<changes, list>> /\ own' = 0
    BY <1>6 DEF LeavePage, panelVars
  <2>2. call' # Nothing => call # Nothing /\ call'.version = call.version
    <3>1. CASE call = Nothing
      BY <1>6, <3>1 DEF LeavePage
    <3>2. CASE call \in Call /\ call # Nothing
      <4>1. call' = [call EXCEPT !.here = FALSE]
        BY <1>6, <3>2 DEF LeavePage
      <4> QED
        BY <3>2, <4>1, CallTypes
    <3> QED
      BY <1>0, <3>1, <3>2
  <2> QED
    BY <1>3, <2>1, <2>2
<1>7. CASE Refresh
  <2>1. UNCHANGED <<changes, own, call>> /\ list' = Invalidate(list, page)
    BY <1>7 DEF Refresh, panelVars
  <2> QED
    BY <1>0, <1>4, <2>1, QueryKeepsData
<1>8. CASE \/ \E u \in UserIds : SaveRow(u)
           \/ \E role \in Roles : SubmitForm(role)
           \/ ConfirmReset
  <2>1. UNCHANGED <<changes, list, own>>
    BY <1>8 DEF SaveRow, SubmitForm, ConfirmReset, Send, panelVars
  <2>2. call'.version = 0
    BY <1>8 DEF SaveRow, SubmitForm, ConfirmReset, Send
  <2> QED
    BY <1>3, <2>1, <2>2
<1>9. CASE HandleCall
  <2>1. UNCHANGED <<list, own>> /\ changes' \in {changes, changes + 1} /\ call \in Call
    BY <1>0, <1>9 DEF HandleCall
  <2>2. call' # Nothing => call'.version = changes'
    <3>1. call' = Nothing \/ call' = [call EXCEPT !.done = TRUE, !.version = changes']
      BY <1>9 DEF HandleCall
    <3>2. changes' \in Nat
      BY <1>0, <2>1
    <3>3. [call EXCEPT !.done = TRUE, !.version = changes'].version = changes'
      BY <2>1, <3>2, CallTypes, Zenon
    <3> QED
      BY <3>1, <3>3
  <2> QED
    BY <1>0, <1>1, <2>1, <2>2 DEF VersionsInOrder, Copy!rywVars, Copy!RYWNext, Copy!Change
<1>10. CASE OnSuccess
  <2>1. UNCHANGED changes /\ list' = Invalidate(list, page) /\ call' = Nothing /\ call # Nothing
    BY <1>10 DEF OnSuccess, panelVars
  <2>2. /\ list'.data = list.data
        /\ page /\ list.data # Nothing => list'.step = "sent"
        /\ list'.step = "answered" => list.step = "answered" /\ list'.answer = list.answer
    BY <1>0, <2>1, QueryKeepsData
  <2>3. own' \in {own, call.version} /\ own <= own' /\ (own' # own => page /\ list.data # Nothing)
    BY <1>0, <1>1, <1>10 DEF OnSuccess, Later
  <2> QED
    BY <1>0, <1>1, <2>1, <2>2, <2>3 DEF VersionsInOrder, Copy!rywVars, Copy!RYWNext, Copy!Tell
<1>11. CASE ServeFetch
  <2> DEFINE answer == [users |-> users, version |-> changes]
  <2>1. UNCHANGED <<changes, own, call>> /\ list' = Serve(list, answer)
    BY <1>11 DEF ServeFetch, panelVars
  <2>2. answer \in Shown
    BY <1>0 DEF UserInv, UserTypeOK, AccountTypeOK, Shown
  <2>3. list'.data = list.data /\ list'.answer = answer /\ answer # Nothing
    BY <1>0, <2>1, <2>2, QueryAnswers, NothingIsNoList
  <2>4. answer.version = changes
    OBVIOUS
  <2> HIDE DEF answer
  <2> QED
    BY <1>0, <1>1, <2>1, <2>3, <2>4 DEF VersionsInOrder, Copy!rywVars
<1>12. CASE DeliverFetch
  <2>1. UNCHANGED <<changes, own, call>> /\ list' = Deliver(list) /\ list.step = "answered"
    BY <1>12 DEF DeliverFetch, panelVars
  <2>2. list'.data = list.answer /\ list'.step = "idle"
    BY <1>0, <2>1, QueryAnswers
  <2> QED
    BY <1>0, <1>1, <2>1, <2>2 DEF VersionsInOrder, Copy!rywVars, Copy!RYWNext, Copy!Show
<1>13. CASE FetchLost
  <2>1. UNCHANGED <<changes, own, call>> /\ list' = FetchFails(list)
    BY <1>13 DEF FetchLost, panelVars
  <2>2. list'.data = list.data /\ list'.step = "failed"
    BY <1>0, <2>1, QueryAnswers
  <2> QED
    BY <1>4, <2>1, <2>2
<1>14. CASE Others
  <2>1. UNCHANGED <<list, own, call>> /\ changes' \in {changes, changes + 1}
    BY <1>14 DEF Others
  <2> QED
    BY <1>0, <1>1, <2>1 DEF VersionsInOrder, Copy!rywVars, Copy!RYWNext, Copy!Change
<1>15. CASE CallFails
  BY <1>3, <1>15 DEF CallFails, panelVars
<1> QED
  BY <1>2, <1>5, <1>6, <1>7, <1>8, <1>9, <1>10, <1>11, <1>12, <1>13, <1>14, <1>15
  DEF UserNext, ChooseRole, TickDisabled, OpenDialog, panelVars, userVars

THEOREM UserSafe == UserSpec => []UserInv
<1>1. ASSUME UserInv, [UserNext]_userVars
      PROVE  UserInv'
  <2>1. PageTypeOK' /\ CallFits' /\ RecordsStep /\ requests' \in [Requests -> Actor \cup {Absent}]
    BY <1>1, PageTypeStep, PageStepsThePanel DEF UserInv
  <2>2. AccountInv'
    BY <1>1, <2>1, AccountStep DEF UserInv
  <2> QED
    BY <1>1, <2>1, <2>2, VersionsStep DEF UserInv, UserTypeOK, PageTypeOK, AccountInv
<1> QED
  BY <1>1, UserStart, PTL DEF UserSpec

\* What the page and the panel hold has the shape the code gives it.
THEOREM UserTypeCorrect == UserSpec => []UserTypeOK
<1>1. UserInv => UserTypeOK
  BY DEF UserInv
<1> QED
  BY <1>1, UserSafe, PTL

\* Administrators who demote each other at once leave a super_admin, also
\* across restarts from an older snapshot (UpdateUser).
THEOREM SuperAdminStays == UserSpec => []SuperAdminKept
<1>1. UserInv => SuperAdminKept
  BY DEF UserInv, AccountInv
<1> QED
  BY <1>1, UserSafe, PTL

\* The table of users implements ReadYourWrites (onSuccess of the mutations).
THEOREM UsersAreRead == UserSpec => UsersReadTheirWrites
<1>1. UserInit => Copy!RYWInit
  BY DEF UserInit, Copy!RYWInit, ShownVersion, NewQuery
<1>2. UserInv /\ [UserNext]_userVars => [Copy!RYWNext]_(Copy!rywVars)
  BY VersionsStep
<1> QED
  BY <1>1, <1>2, UserSafe, PTL DEF UserSpec, UsersReadTheirWrites, Copy!RYWSpec

LEMMA CallTypes2 ==
    ASSUME NEW c \in Call, NEW v \in Nat
    PROVE  /\ [c EXCEPT !.done = TRUE, !.version = v] \in Call
           /\ [c EXCEPT !.done = TRUE, !.version = v].kind = c.kind
<1> DEFINE d == [c EXCEPT !.done = TRUE]
<1>1. d \in Call /\ d.kind = c.kind
  BY DEF Call
<1> HIDE DEF d
<1>2. [d EXCEPT !.version = v] \in Call /\ [d EXCEPT !.version = v].kind = d.kind
  BY <1>1 DEF Call
<1>3. [c EXCEPT !.done = TRUE, !.version = v] = [d EXCEPT !.version = v]
  BY DEF d
<1> QED
  BY <1>1, <1>2, <1>3
=============================================================================
