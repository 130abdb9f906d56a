----------------------------- MODULE UserConsole -----------------------------
(***************************************************************************)
(* The users page of the web console (frontend/src/pages/UsersPage.tsx) in *)
(* the browser of the administrator Me, beside the panel of Accounts,      *)
(* whose other requests stand for every other administrator.               *)
(*                                                                         *)
(* A row of the table holds a draft of the user's role and disabled state  *)
(* from the first time one of its controls is touched until the page is    *)
(* left.  Of the page's three mutations one is modelled to be under way at *)
(* a time, and the panel lets it in and handles it in one step: what can   *)
(* come between the two is left to the other requests.  The dialogs are    *)
(* modal: one is open at a time, over the rows.  What result shows of a    *)
(* mutation is left out.                                                   *)
(***************************************************************************)
EXTENDS Accounts, QueryCache

CONSTANTS
    Me,        \* the user of AuthContext
    MyRole,    \* his role, as AuthContext has it
    MaxChanges \* bound on the changes to users

ASSUME UserConsoleConstants == Me \in Team /\ MyRole \in Roles

VARIABLES
    changes, \* how often users were changed: the version of the list
    page,    \* the page is open
    list,    \* the query of /api/users
    drafts,  \* drafts, by user
    dialog,  \* formOpen, or resetUserId
    call,    \* createMutation, updateMutation or resetMutation
    own      \* the version of the last change the user was told is saved,
             \* while this page was open and had users to show

userVars == <<users, savedUsers, named, requests,
              changes, page, list, drafts, dialog, call, own>>
panelVars == <<users, savedUsers, named, requests, changes>>
pageVars == <<drafts, dialog>>

-----------------------------------------------------------------------------
(* The page.                                                               *)

\* RowDraft
Draft == [role : Roles, disabled : BOOLEAN]

NewUser(role) == [role |-> role, disabled |-> FALSE]

\* The answer to GET /api/users
Shown == [users : Accounts, version : Nat]

ASSUME NothingIsNoList == Nothing \notin Shown

Dialogs == {"none", "create"} \cup UserIds

\* A mutation; version is the version of the list once it is handled.
Call == [kind    : {"create", "update", "reset"},
         id      : UserIds \cup {Nothing},
         draft   : Draft \cup {Nothing},
         done    : BOOLEAN,
         version : Nat,
         here    : BOOLEAN]

Usable == page /\ ~Loading(list)

Listed == IF list.data = Nothing THEN {} ELSE {u \in UserIds : list.data.users[u] # Absent}

\* The rows whose controls can be used
Rows == IF Usable /\ dialog = "none" THEN Listed \ {Me} ELSE {}

\* roleOptions: super_admin is for a super_admin to give.
RoleOptions(u) ==
    {role \in Roles : role = "super_admin" =>
                         "super_admin" \in {MyRole, list.data.users[u].role}}

\* draftOf: what the controls of a row show
DraftOf(u) == IF drafts[u] = Nothing THEN list.data.users[u] ELSE drafts[u]

\* A faulty variant: a new draft has only what was touched.
DraftWithoutRole(u) == IF drafts[u] = Nothing THEN [disabled |-> FALSE] ELSE drafts[u]

\* What setDraft starts from.
DraftSoFar(u) == IF drafts[u] = Nothing THEN NewUser("user") ELSE drafts[u]

OpenPage(aged) ==
    /\ ~page
    /\ page' = TRUE
    /\ list' = Mount(list, aged)
    /\ UNCHANGED <<panelVars, pageVars, call, own>>

LeavePage ==
    /\ page
    /\ page' = FALSE
    /\ drafts' = [u \in UserIds |-> Nothing]
    /\ dialog' = "none"
    /\ call' = IF call = Nothing THEN Nothing ELSE [call EXCEPT !.here = FALSE]
    /\ own' = 0
    /\ UNCHANGED <<panelVars, list>>

\* onRefresh of Layout
Refresh ==
    /\ page
    /\ list' = Invalidate(list, page)
    /\ UNCHANGED <<panelVars, page, pageVars, call, own>>

\* The browser is online again (refetchOnReconnect): what is in use is fetched
\* if it is stale.
Reconnect(aged) ==
    /\ page
    /\ list' = Mount(list, aged)
    /\ UNCHANGED <<panelVars, page, pageVars, call, own>>

\* setDraft, from the select and from the checkbox of a row
ChooseRole(u, role) ==
    /\ u \in Rows
    /\ role \in RoleOptions(u) \ {DraftOf(u).role}
    /\ drafts' = [drafts EXCEPT ![u] = [DraftSoFar(u) EXCEPT !.role = role]]
    /\ UNCHANGED <<panelVars, page, list, dialog, call, own>>

TickDisabled(u) ==
    /\ u \in Rows
    /\ drafts' = [drafts EXCEPT ![u] = [DraftSoFar(u) EXCEPT !.disabled = ~DraftOf(u).disabled]]
    /\ UNCHANGED <<panelVars, page, list, dialog, call, own>>

\* "新增用户", "重置密码" of a row, and closing what is open
OpenDialog(d) ==
    /\ Usable
    /\ d \in {"none", "create"} \cup Listed
    /\ (dialog = "none") # (d = "none")
    /\ dialog' = d
    /\ UNCHANGED <<panelVars, page, list, drafts, call, own>>

\* mutate
Send(kind, id, draft) ==
    /\ call = Nothing
    /\ call' = [kind |-> kind, id |-> id, draft |-> draft,
                done |-> FALSE, version |-> 0, here |-> TRUE]
    /\ UNCHANGED <<panelVars, page, list, pageVars, own>>

\* "保存" of a row
SaveRow(u) ==
    /\ u \in Rows
    /\ Send("update", u, DraftOf(u))

\* onCreate
SubmitForm(role) ==
    /\ Usable /\ dialog = "create"
    /\ role = "super_admin" => MyRole = "super_admin"
    /\ Send("create", Nothing, NewUser(role))

\* The dialog that asks shows for a listed user only.
ConfirmReset ==
    /\ Usable /\ dialog \in Listed
    /\ Send("reset", dialog, Nothing)

-----------------------------------------------------------------------------
(* Calls and fetches, on their way.                                        *)

Request(me) ==
    \/ call.kind = "create" /\ \E id \in UserIds : CreateUser(me, id, call.draft.role)
    \/ call.kind = "update" /\ UpdateUser(me, call.id, call.draft.role, call.draft.disabled)
    \/ call.kind = "reset" /\ ResetUserPassword(me, call.id)

\* requireAuth and the handler, which answers with an error if it cannot save
HandleCall ==
    /\ call # Nothing /\ ~call.done
    /\ Enabled(Me)
    /\ Request([id |-> Me, role |-> users[Me].role])
    /\ changes' = IF call.kind = "reset" THEN changes ELSE changes + 1
    /\ changes' <= MaxChanges
    /\ call' = IF savedUsers' = users' THEN [call EXCEPT !.done = TRUE, !.version = changes']
               ELSE Nothing
    /\ UNCHANGED <<requests, page, list, pageVars, own>>

\* The panel refuses the call, or it or its answer is lost: onError only tells.
CallFails ==
    /\ call # Nothing
    /\ call' = Nothing
    /\ UNCHANGED <<panelVars, page, list, pageVars, own>>

Later(v, w) == IF v < w THEN w ELSE v

\* A faulty variant of OnSuccess: the table is not refreshed.
OnSuccessUnrefreshed ==
    /\ call # Nothing /\ call.done
    /\ own' = IF page /\ list.data # Nothing THEN Later(own, call.version) ELSE own
    /\ call' = Nothing
    /\ UNCHANGED <<panelVars, page, list, pageVars>>

\* onSuccess of the three mutations
OnSuccess ==
    /\ call # Nothing /\ call.done
    /\ list' = Invalidate(list, page)
    /\ own' = IF page /\ list.data # Nothing THEN Later(own, call.version) ELSE own
    /\ dialog' = IF call.here /\ (\/ call.kind = "create" /\ dialog = "create"
                                  \/ call.kind = "reset" /\ dialog \in UserIds)
                 THEN "none" ELSE dialog
    /\ call' = Nothing
    /\ UNCHANGED <<panelVars, page, drafts>>

ServeFetch ==
    /\ list.step = "sent"
    /\ list' = Serve(list, [users |-> users, version |-> changes])
    /\ UNCHANGED <<panelVars, page, pageVars, call, own>>

DeliverFetch ==
    /\ list.step = "answered"
    /\ list' = Deliver(list)
    /\ UNCHANGED <<panelVars, page, pageVars, call, own>>

FetchLost ==
    /\ InFlight(list)
    /\ list' = FetchFails(list)
    /\ UNCHANGED <<panelVars, page, pageVars, call, own>>

\* The other administrators, and the rest of the panel
Others ==
    /\ AccountNext
    /\ changes' = IF users' = users THEN changes ELSE changes + 1
    /\ changes' <= MaxChanges
    /\ UNCHANGED <<page, list, pageVars, call, own>>

UserInit ==
    /\ AccountInit
    /\ changes = 0
    /\ page = FALSE
    /\ list = NewQuery
    /\ drafts = [u \in UserIds |-> Nothing]
    /\ dialog = "none"
    /\ call = Nothing
    /\ own = 0

UserNext ==
    \/ \E aged \in BOOLEAN : OpenPage(aged) \/ Reconnect(aged)
    \/ LeavePage
    \/ Refresh
    \/ \E u \in UserIds, role \in Roles : ChooseRole(u, role)
    \/ \E u \in UserIds : TickDisabled(u) \/ SaveRow(u)
    \/ \E d \in Dialogs : OpenDialog(d)
    \/ \E role \in Roles : SubmitForm(role)
    \/ ConfirmReset
    \/ HandleCall
    \/ CallFails
    \/ OnSuccess
    \/ ServeFetch
    \/ DeliverFetch
    \/ FetchLost
    \/ Others

UserSpec == UserInit /\ [][UserNext]_userVars

-----------------------------------------------------------------------------
(* Properties.                                                             *)

\* What the page holds has the shape the code gives it.
UserTypeOK ==
    /\ AccountTypeOK
    /\ changes \in Nat
    /\ page \in BOOLEAN
    /\ list \in Query(Shown)
    /\ drafts \in [UserIds -> Draft \cup {Nothing}]
    /\ dialog \in Dialogs
    /\ call \in Call \cup {Nothing}
    /\ own \in Nat

ShownVersion == IF list.data = Nothing THEN 0 ELSE list.data.version

Copy == INSTANCE ReadYourWrites
          WITH latest <- changes, told <- own, shown <- ShownVersion

\* The table never goes back in time, and every list shown after the user was
\* told that a change is saved has that change in it (refreshUsers).
UsersReadTheirWrites == Copy!RYWSpec

\* UsersPage.tsx:116: an account that is not used any more can simply be
\* disabled.  So ticking the box "disabled" of a row changes nothing else of
\* what the row shows and saves (draftOf, setDraft).
DisableOnlyDisables ==
    [][\A u \in UserIds : TickDisabled(u) => drafts'[u].role = DraftOf(u).role]_userVars

=============================================================================
