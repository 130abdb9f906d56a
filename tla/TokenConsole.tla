---------------------------- MODULE TokenConsole ----------------------------
(***************************************************************************)
(* The page for node tokens of the web console                             *)
(* (frontend/src/pages/TokensPage.tsx) in one administrator's browser,     *)
(* beside the panel and the agents of Registration, whose other steps      *)
(* stand for every other client.                                           *)
(***************************************************************************)
EXTENDS Registration, QueryCache

VARIABLES
    page,      \* the page is open
    list,      \* the query of /api/node-tokens
    form,      \* formOpen
    command,   \* the token whose install command is shown
    confirm,   \* deleteTokenId
    creation,  \* createMutation: nothing, sent, or its token
    deletion,  \* deleteMutation: nothing, or the token and whether it is gone
    gone       \* the tokens whose deletion the user was told on this page, and
               \* that the panel has not written again since

tokenVars == <<store, saved, used, admits, origin,
               page, list, form, command, confirm, creation, deletion, gone>>
panelVars == <<store, saved, used, admits, origin>>
dialogVars == <<form, command, confirm>>
callVars == <<creation, deletion>>

-----------------------------------------------------------------------------

\* The answer to GET /api/node-tokens
Records == [TokenIds -> Token \cup {Absent}]

ASSUME NothingIsNoAnswer == Nothing \notin Records

\* A mutation that is under way, one of each kind at a time; done: the panel
\* has handled it; here: the page it was made on is still open.
Creation == [token : TokenIds \cup {Nothing}, done : BOOLEAN, here : BOOLEAN]
Deletion == [token : TokenIds, done : BOOLEAN, here : BOOLEAN]

Usable == page /\ ~Loading(list)

Listed == IF list.data = Nothing THEN {} ELSE {t \in TokenIds : list.data[t] # Absent}

Pending(call) == call # Nothing /\ call.here

OpenPage(aged) ==
    /\ ~page
    /\ page' = TRUE
    /\ list' = Mount(list, aged)
    /\ UNCHANGED <<panelVars, dialogVars, callVars, gone>>

Elsewhere(call) == IF call = Nothing THEN Nothing ELSE [call EXCEPT !.here = FALSE]

\* The dialogs go with the page, and with them the only copy of the command.
LeavePage ==
    /\ page
    /\ page' = FALSE
    /\ form' = FALSE
    /\ command' = Nothing
    /\ confirm' = Nothing
    /\ creation' = Elsewhere(creation)
    /\ deletion' = Elsewhere(deletion)
    /\ gone' = {}
    /\ UNCHANGED <<panelVars, list>>

\* onRefresh of Layout
Refresh ==
    /\ page
    /\ list' = Invalidate(list, page)
    /\ UNCHANGED <<panelVars, page, dialogVars, callVars, gone>>

\* The browser is online again (refetchOnReconnect): what is in use is fetched
\* if it is stale.
Reconnect(aged) ==
    /\ page
    /\ list' = Mount(list, aged)
    /\ UNCHANGED <<panelVars, page, dialogVars, callVars, gone>>

ToggleForm ==
    /\ Usable
    /\ form' = ~form
    /\ UNCHANGED <<panelVars, page, list, command, confirm, callVars, gone>>

SubmitForm ==
    /\ Usable /\ form /\ creation = Nothing
    /\ creation' = [token |-> Nothing, done |-> FALSE, here |-> TRUE]
    /\ UNCHANGED <<panelVars, page, list, dialogVars, deletion, gone>>

\* "删除记录" of a row, which a bound token has disabled
AskDelete(t) ==
    /\ Usable
    /\ t \in Listed
    /\ list.data[t].node = Absent
    /\ confirm' = t
    /\ UNCHANGED <<panelVars, page, list, form, command, callVars, gone>>

CloseConfirm ==
    /\ confirm # Nothing
    /\ confirm' = Nothing
    /\ UNCHANGED <<panelVars, page, list, form, command, callVars, gone>>

\* A faulty variant: the button works though the dialog has gone.
ConfirmUnlisted ==
    /\ Usable
    /\ deletion = Nothing
    /\ deletion' = [token |-> confirm, done |-> FALSE, here |-> TRUE]
    /\ UNCHANGED <<panelVars, page, list, dialogVars, creation, gone>>

\* The dialog shows while its token is listed, bound by now or not.
ConfirmDelete ==
    /\ Usable
    /\ confirm \in Listed
    /\ deletion = Nothing
    /\ deletion' = [token |-> confirm, done |-> FALSE, here |-> TRUE]
    /\ UNCHANGED <<panelVars, page, list, dialogVars, creation, gone>>

-----------------------------------------------------------------------------
(* Calls and fetches.  A call that the panel refuses, cannot save, or that *)
(* gets lost before or after it was handled, ends in onError, which only   *)
(* tells.                                                                  *)

HandleCreate(t) ==
    /\ creation # Nothing /\ ~creation.done
    /\ CreateToken(t)
    /\ creation' = IF SaveFailed THEN Nothing
                   ELSE [token |-> t, done |-> TRUE, here |-> creation.here]
    /\ UNCHANGED <<page, list, dialogVars, deletion, gone>>

HandleDelete ==
    /\ deletion # Nothing /\ ~deletion.done
    /\ DeleteToken(deletion.token)
    /\ deletion' = IF SaveFailed THEN Nothing ELSE [deletion EXCEPT !.done = TRUE]
    /\ UNCHANGED <<page, list, dialogVars, creation, gone>>

CreateFails ==
    /\ creation # Nothing
    /\ creation' = Nothing
    /\ UNCHANGED <<panelVars, page, list, dialogVars, deletion, gone>>

DeleteFails ==
    /\ deletion # Nothing
    /\ deletion' = Nothing
    /\ UNCHANGED <<panelVars, page, list, dialogVars, creation, gone>>

\* onSuccess of createMutation
Created ==
    /\ creation # Nothing /\ creation.done
    /\ list' = Invalidate(list, page)
    /\ command' = IF creation.here THEN creation.token ELSE command
    /\ form' = IF creation.here THEN FALSE ELSE form
    /\ creation' = Nothing
    /\ UNCHANGED <<panelVars, page, confirm, deletion, gone>>

Without(t) ==
    IF list.data = Nothing THEN list ELSE SetData(list, [list.data EXCEPT ![t] = Absent])

\* A faulty variant: what setQueryData wrote is good enough.
DeletedWithoutFetch(t) == Without(t)

\* onSuccess of deleteMutation: the row goes at once, then the list is fetched.
ListAfterDelete(t) == Invalidate(Without(t), page)

Deleted ==
    /\ deletion # Nothing /\ deletion.done
    /\ list' = ListAfterDelete(deletion.token)
    /\ confirm' = IF deletion.here THEN Nothing ELSE confirm
    /\ gone' = IF page /\ ~Kept(deletion.token) THEN gone \cup {deletion.token} ELSE gone
    /\ deletion' = Nothing
    /\ UNCHANGED <<panelVars, page, form, command, creation>>

ServeFetch ==
    /\ list.step = "sent"
    /\ list' = Serve(list, store.tokens)
    /\ UNCHANGED <<panelVars, page, dialogVars, callVars, gone>>

DeliverFetch ==
    /\ list.step = "answered"
    /\ list' = Deliver(list)
    /\ UNCHANGED <<panelVars, page, dialogVars, callVars, gone>>

FetchLost ==
    /\ InFlight(list)
    /\ list' = FetchFails(list)
    /\ UNCHANGED <<panelVars, page, dialogVars, callVars, gone>>

\* Everybody else.  A record the panel writes again is no longer gone.
Others ==
    /\ RegistrationNext
    /\ gone' = {t \in gone : store'.tokens[t] = Absent}
    /\ UNCHANGED <<page, list, dialogVars, callVars>>

TokenInit ==
    /\ RegistrationInit
    /\ page = FALSE
    /\ list = NewQuery
    /\ form = FALSE
    /\ command = Nothing
    /\ confirm = Nothing
    /\ creation = Nothing
    /\ deletion = Nothing
    /\ gone = {}

TokenNext ==
    \/ \E aged \in BOOLEAN : OpenPage(aged) \/ Reconnect(aged)
    \/ LeavePage
    \/ Refresh
    \/ ToggleForm
    \/ SubmitForm
    \/ \E t \in TokenIds : AskDelete(t) \/ HandleCreate(t)
    \/ CloseConfirm
    \/ ConfirmDelete
    \/ HandleDelete
    \/ CreateFails
    \/ DeleteFails
    \/ Created
    \/ Deleted
    \/ ServeFetch
    \/ DeliverFetch
    \/ FetchLost
    \/ Others

TokenSpec == TokenInit /\ [][TokenNext]_tokenVars

-----------------------------------------------------------------------------
(* Properties.                                                             *)

\* What the page holds has the shape the code gives it.
TokenTypeOK ==
    /\ RegistrationTypeOK
    /\ page \in BOOLEAN
    /\ list \in Query(Records)
    /\ form \in BOOLEAN
    /\ command \in TokenIds \cup {Nothing}
    /\ confirm \in TokenIds \cup {Nothing}
    /\ creation \in Creation \cup {Nothing}
    /\ deletion \in Deletion \cup {Nothing}
    /\ gone \subseteq TokenIds

\* A record that the user was told is deleted does not come back into the list
\* by an answer from before (onSuccess of deleteMutation), unless a
\* registration that was under way wrote it again.
DeletedStayGone == gone \cap Listed = {}

=============================================================================
