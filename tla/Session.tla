------------------------------- MODULE Session -------------------------------
(***************************************************************************)
(* Signing in and out of the web console in one tab of a browser: the      *)
(* frontend's AuthContext, App, Layout, LoginPage and SecurityPage, and    *)
(* the handlers of internal/panel/server.go behind them.                   *)
(*                                                                         *)
(* The console knows who is signed in from a cached answer of /api/me.  It *)
(* forgets him at a logout only: when his session ends at the panel every  *)
(* request is refused, and the pages keep what they show.                  *)
(*                                                                         *)
(* Logins, logouts and calls of the security page may be under way at once *)
(* and end in any order: no button waits for another's call, the logout    *)
(* button not even for its own, and a page that is built anew has forgotten *)
(* what it sent.                                                           *)
(*                                                                         *)
(* Assumed: no other tab of the browser signs in or out.  Abstracted:      *)
(* passwords, codes, the state of two-step verification and its setup, and *)
(* of what the pages fetch all but one query, which any page but the       *)
(* security page may use.                                                  *)
(***************************************************************************)
EXTENDS QueryCache

CONSTANTS
    Users,    \* who may sign in here
    Nobody,   \* no session, no call
    Calls,    \* at most this many logins, logouts and changes are under way
    Addresses \* where the browser may be pointed: typed, linked, back, forward

VARIABLES
    admin,   \* the users who are administrators at the panel
    cookie,  \* whose session the browser's cookie names
    live,    \* the panel has that session
    me,      \* the query of /api/me
    list,    \* a query of the pages; its data is known by whom it was for
    path,    \* the address in the address bar
    calls,   \* the logins, logouts and changes under way
    out,     \* the session was ended by a logout, and nothing done since
             \* brings a user back
    late     \* since the cache was last emptied something reached it late: an
             \* answer of the security page for somebody who had signed out, or
             \* a login that found there another user or an answer about him

sessionVars == <<admin, cookie, live, me, list, path, calls, out, late>>
panelVars == <<admin, cookie, live>>
ghostVars == <<out, late>>

-----------------------------------------------------------------------------
(* Who sees which page.                                                    *)

\* The answer to GET /api/me
Identity == [user : Users, admin : BOOLEAN]

\* A faulty variant: the role is left out.
IdentityWithoutRole(u) == [user |-> u]

IdentityOf(u) == [user |-> u, admin |-> u \in admin]

\* A faulty variant: an item that leads to no page.
NavItemsMisspelt == {"/", "/nodes", "/rules", "/diagnostics", "/token", "/users", "/security", "/events"}

\* The paths of NAV_ITEMS of navConfig; "/" is the first of them.
NavItems == {"/", "/nodes", "/rules", "/diagnostics", "/tokens", "/users", "/security", "/events"}

AdminOnly == {"/tokens", "/users", "/events"}

\* items of Layout
Items(identity) == {p \in NavItems : identity.admin \/ p \notin AdminOnly}

\* A faulty variant: the routes do not ask for the role.
RoutesForAll(identity) ==
    {"/", "/nodes", "/rules", "/diagnostics", "/security", "/tokens", "/users", "/events"}

\* The routes of App for somebody who is signed in
Routes(identity) ==
    {"/", "/nodes", "/rules", "/diagnostics", "/security"}
        \cup (IF identity.admin THEN {"/tokens", "/users", "/events"} ELSE {})

\* An address: the route it matches, which a slash at its end or another case
\* of its letters does not change, and whether it is written as the route is.
Address == [page : Routes([admin |-> TRUE]) \cup {"/login", "/nowhere"}, exact : BOOLEAN]

Home == [page |-> "/", exact |-> TRUE]
LoginForm == [page |-> "/login", exact |-> TRUE]

\* current of Layout: the item whose path is the address, or else the first.
Title(identity, a) == IF a.exact /\ a.page \in Items(identity) THEN a.page ELSE "/"

SignedIn(q) == q.data # Nothing

\* Where App leads: to the page of the address, to "/", or to the login page.
Routed(q, a) ==
    IF Loading(q) THEN a
    ELSE IF ~SignedIn(q) THEN IF a.page = "/login" THEN a ELSE LoginForm
    ELSE IF a.page \in Routes(q.data) THEN a ELSE Home

\* The page of the console that is built
Built(q, a) == IF SignedIn(q) THEN a.page ELSE "none"

\* A page in sight may ask for the list, old as it may be.
MayAsk(q, a, l) ==
    {l} \cup (IF SignedIn(q) /\ a.page # "/security" THEN {Mount(l, TRUE)} ELSE {})

\* The console renders, at address a and with q of /api/me: a page that was not
\* there before, or is built again after a redirect, may ask for the list.
Render(q, a, l) ==
    /\ me' = q
    /\ path' = Routed(q, a)
    /\ list' \in IF path' = a /\ Built(q, a) = Built(me, path) THEN {l} ELSE MayAsk(q, path', l)

-----------------------------------------------------------------------------
(* Calls: a login, a logout, or a change of two-step verification.         *)

\* by is who logs in, or whose cookie the call carries; since tells what became
\* of the tab's session while the call is under way.
Call == [kind   : {"login", "logout", "change"},
         by     : Users \cup {Nobody},
         step   : {"sent", "handled"},
         answer : Identity \cup {Nothing},
         since  : {"nothing", "logout", "login"}]

ASSUME SessionConstants ==
    /\ Nobody \notin Users \cup Call
    /\ Nothing \notin Identity
    /\ Addresses \subseteq Address

Is(k, kind, step) == calls[k] # Nobody /\ calls[k].kind = kind /\ calls[k].step = step

Send(k, kind, by) ==
    /\ calls[k] = Nobody
    /\ calls' = [calls EXCEPT ![k] = [kind |-> kind, by |-> by, step |-> "sent",
                                      answer |-> Nothing, since |-> "nothing"]]

Handled(k, answer) == calls' = [calls EXCEPT ![k].step = "handled", ![k].answer = answer]

Since(call, news) ==
    IF news = "nothing" \/ call.kind = "login" \/ call.since = "login" THEN call
    ELSE [call EXCEPT !.since = news]

\* A call is over; what it did to the session is news to those that carry one.
Over(k, news) ==
    calls' = [c \in Calls |-> IF c = k \/ calls[c] = Nobody THEN Nobody ELSE Since(calls[c], news)]

\* The session a call carries is one the panel may have: that of the cookie, or
\* one left behind by a login in the same tab.
Authorized(k) == calls[k].by \in Users /\ (calls[k].since # "login" => live)

-----------------------------------------------------------------------------
(* The panel.                                                              *)

\* A session ends: its time is over, or the user was disabled or his password
\* reset.
SessionEnds ==
    /\ live
    /\ live' = FALSE
    /\ UNCHANGED <<admin, cookie, me, list, path, calls, ghostVars>>

\* An administrator changes the rights of a user.
ChangeRole(u) ==
    /\ admin' = IF u \in admin THEN admin \ {u} ELSE admin \cup {u}
    /\ UNCHANGED <<cookie, live, me, list, path, calls, ghostVars>>

\* requireAuth for GET /api/me and handleMe
ServeMe ==
    /\ me.step = "sent" /\ live
    /\ me' = Serve(me, IdentityOf(cookie))
    /\ UNCHANGED <<panelVars, list, path, calls, ghostVars>>

ServeList ==
    /\ list.step = "sent" /\ live
    /\ list' = Serve(list, cookie)
    /\ UNCHANGED <<panelVars, me, path, calls, ghostVars>>

-----------------------------------------------------------------------------
(* The console.                                                            *)

DeliverMe ==
    /\ me.step = "answered"
    /\ Render(Deliver(me), path, list)
    /\ UNCHANGED <<panelVars, calls, ghostVars>>

\* Refused for want of a session, or lost
MeFails ==
    /\ InFlight(me)
    /\ Render(FetchFails(me), path, list)
    /\ UNCHANGED <<panelVars, calls, ghostVars>>

DeliverList ==
    /\ list.step = "answered"
    /\ list' = Deliver(list)
    /\ UNCHANGED <<panelVars, me, path, calls, ghostVars>>

ListFails ==
    /\ InFlight(list)
    /\ list' = FetchFails(list)
    /\ UNCHANGED <<panelVars, me, path, calls, ghostVars>>

\* An item of the sidebar, or the browser's back and forward
GoTo(a) ==
    /\ a # path
    /\ Render(me, a, list)
    /\ UNCHANGED <<panelVars, calls, ghostVars>>

\* invalidateQueries on a query in use.  The mark it leaves on any other one
\* is left out: MayAsk finds an answer old whether it has one or not.
Refetch(q) == IF Loading(q) THEN q ELSE Fetch(q)

\* onRefresh
Refresh ==
    /\ SignedIn(me)
    /\ me' = Refetch(me)
    /\ list' \in {list} \cup (IF path.page # "/security" THEN {Refetch(list)} ELSE {})
    /\ UNCHANGED <<panelVars, path, calls, ghostVars>>

\* The browser is online again (refetchOnReconnect): what is in use is fetched
\* if it is stale.
Reconnect ==
    /\ me' \in {Mount(me, aged) : aged \in BOOLEAN}
    /\ list' \in MayAsk(me, path, list)
    /\ UNCHANGED <<panelVars, path, calls, ghostVars>>

\* onSubmit of LoginPage, which shows for nobody who is signed in.  Its button
\* waits for its own call only, which is left out: the page is built anew, and
\* its button free, after every fetch of /api/me that shows the spinner.
SubmitLogin(k, u) ==
    /\ ~Loading(me) /\ ~SignedIn(me)
    /\ path.page = "/login"
    /\ Send(k, "login", u)
    /\ UNCHANGED <<panelVars, me, list, path, ghostVars>>

\* handleLogin creates a session.
HandleLogin(k) ==
    /\ Is(k, "login", "sent")
    /\ Handled(k, IdentityOf(calls[k].by))
    /\ UNCHANGED <<panelVars, me, list, path, ghostVars>>

\* What is still on its way to the panel carries the old cookie.  Had the panel
\* answered it, that had been a step before this one; it will not do it later.
Outdated(q) == IF q.step = "sent" THEN FetchFails(q) ELSE q

\* The answer comes, the cookie of the new session with it, and setSession takes
\* it for that of /api/me.
LoginAnswered(k) ==
    /\ Is(k, "login", "handled")
    /\ cookie' = calls[k].by
    /\ live' = TRUE
    /\ Render(SetData(Outdated(me), calls[k].answer), path, Outdated(list))
    /\ Over(k, "login")
    /\ out' = FALSE
    /\ late' = (late \/ SignedIn(me) \/ me.step = "answered")
    /\ UNCHANGED admin

\* A login or a change is refused, or it or its answer is lost.
CallFails(k) ==
    /\ calls[k] # Nobody /\ calls[k].kind # "logout"
    /\ Over(k, "nothing")
    /\ UNCHANGED <<panelVars, me, list, path, ghostVars>>

\* onLogout
PressLogout(k) ==
    /\ SignedIn(me)
    /\ Send(k, "logout", cookie)
    /\ UNCHANGED <<panelVars, me, list, path, ghostVars>>

\* handleLogout; without a session requireAuth refuses the call.
HandleLogout(k) ==
    /\ Is(k, "logout", "sent") /\ Authorized(k)
    /\ live' = (live /\ calls[k].since = "login")
    /\ Handled(k, Nothing)
    /\ UNCHANGED <<admin, cookie, me, list, path, ghostVars>>

\* A faulty variant of clearSession, without clear()
ForgetUserOnly ==
    /\ me' = SetData(me, Nothing)
    /\ path' = LoginForm
    /\ UNCHANGED list

\* clearSession: the cache is emptied and what was being fetched dropped.  As
\* AuthProvider still wants to know the user, /api/me is asked again.
ClearSession ==
    /\ me' = Fetch(NewQuery)
    /\ list' = NewQuery
    /\ UNCHANGED path

\* The end of onLogout, whatever became of the call: it caught any error.  The
\* cookie goes with an answer only, also if it is another's by then.
LogoutEnds(k, answered) ==
    /\ calls[k] # Nobody /\ calls[k].kind = "logout"
    /\ answered => calls[k].step = "handled"
    /\ cookie' = IF answered THEN Nobody ELSE cookie
    /\ live' = (live /\ ~answered)
    /\ ClearSession
    /\ Over(k, "logout")
    /\ out' = ~live'
    /\ late' = FALSE
    /\ UNCHANGED admin

-----------------------------------------------------------------------------
(* Two-step verification: enableMutation or disableMutation.               *)

\* onEnable or onDisable
SubmitChange(k) ==
    /\ SignedIn(me) /\ path.page = "/security"
    /\ Send(k, "change", cookie)
    /\ UNCHANGED <<panelVars, me, list, path, ghostVars>>

\* handleTOTPEnable, handleTOTPDisable and SetUserTOTP
HandleChange(k) ==
    /\ Is(k, "change", "sent") /\ Authorized(k)
    /\ Handled(k, IdentityOf(calls[k].by))
    /\ UNCHANGED <<panelVars, me, list, path, ghostVars>>

\* applyUser, also if the user has left the page or signed out.
ChangeAnswered(k) ==
    /\ Is(k, "change", "handled")
    /\ Render(SetData(me, calls[k].answer), path, list)
    /\ Over(k, "nothing")
    /\ out' = FALSE
    /\ late' = (late \/ calls[k].since # "nothing")
    /\ UNCHANGED panelVars

\* The console is opened somewhere: with a cookie from before, or without.
SessionInit ==
    /\ admin \in SUBSET Users
    /\ cookie \in Users \cup {Nobody}
    /\ live = (cookie # Nobody)
    /\ me = Fetch(NewQuery)
    /\ list = NewQuery
    /\ path \in Addresses
    /\ calls = [k \in Calls |-> Nobody]
    /\ out = FALSE
    /\ late = FALSE

CallSteps(k) ==
    \/ \E u \in Users : SubmitLogin(k, u)
    \/ HandleLogin(k) \/ LoginAnswered(k)
    \/ PressLogout(k) \/ HandleLogout(k)
    \/ \E answered \in BOOLEAN : LogoutEnds(k, answered)
    \/ SubmitChange(k) \/ HandleChange(k) \/ ChangeAnswered(k)
    \/ CallFails(k)

SessionNext ==
    \/ SessionEnds
    \/ \E u \in Users : ChangeRole(u)
    \/ ServeMe \/ DeliverMe \/ MeFails
    \/ ServeList \/ DeliverList \/ ListFails
    \/ \E a \in Addresses : GoTo(a)
    \/ Refresh
    \/ Reconnect
    \/ \E k \in Calls : CallSteps(k)

SessionSpec == SessionInit /\ [][SessionNext]_sessionVars

-----------------------------------------------------------------------------
(* Properties.                                                             *)

\* What the console knows has the shape the code gives it.
SessionTypeOK ==
    /\ admin \subseteq Users
    /\ cookie \in Users \cup {Nobody}
    /\ live \in BOOLEAN
    /\ me \in Query(Identity)
    /\ list \in Query(Users)
    /\ path \in Address
    /\ calls \in [Calls -> Call \cup {Nobody}]
    /\ out \in BOOLEAN
    /\ late \in BOOLEAN

\* A user whose session a logout ended is not shown as signed in again, by
\* no answer that was under way, not even with a second logout (clearSession).
\* The exception is an answer to the security page, which is applied whenever
\* it comes (applyUser).
SignedOutStaysOut == out => ~SignedIn(me)

\* What the pages show was fetched for the user the console shows, through
\* logins of different users in one tab (clearSession, setSession).  Excepted
\* is what follows, up to the next logout, on one of two: an answer of the
\* security page that comes after a logout, and a login whose answer comes
\* when a user or an answer about him is there again: a call of /api/me that
\* was sent after it, by a second logout or a reconnect, may have been faster.
OwnDataOnly == SignedIn(me) /\ list.data # Nothing /\ ~late => list.data = me.data.user

\* The page that shows is one the rights of the user allow, also when they
\* change while he is on it, and at an address written as the sidebar has it
\* its title is the page's own (App, Layout).  At "/rules/" the title is not.
TitleIsPage ==
    SignedIn(me) =>
        /\ path.page \in Routes(me.data)
        /\ path.exact => Title(me.data, path) = path.page

=============================================================================
