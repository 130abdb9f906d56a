---------------------------- MODULE Session_proofs ----------------------------
(***************************************************************************)
(* Theorems about Session, for every set of users, every number of calls   *)
(* under way and whatever addresses the browser is pointed at.             *)
(***************************************************************************)
EXTENDS Session, QueryCache_proofs

-----------------------------------------------------------------------------
(* The inductive invariant.                                                *)

\* A login is somebody's, and an answer names whom the call was for.
CallsInOrder ==
    \A k \in Calls :
        calls[k] # Nobody =>
            /\ calls[k].kind = "login" => calls[k].by \in Users
            /\ calls[k].step = "handled" /\ calls[k].kind # "logout" =>
                  /\ calls[k].answer \in Identity
                  /\ calls[k].answer.user = calls[k].by

\* A change that was sent in the present session is the present user's.
ChangesAreOwn ==
    \A k \in Calls :
        calls[k] # Nobody /\ calls[k].kind = "change" /\ calls[k].since = "nothing" =>
            SignedIn(me) /\ calls[k].by = cookie

\* While nothing came late, whatever the tab holds is of the user the cookie
\* names: a logout empties the cache, and a login finds it empty.
CacheIsOwn ==
    /\ SignedIn(me) => me.data.user = cookie
    /\ me.step = "answered" => me.answer.user = cookie
    /\ ~SignedIn(me) => list.data = Nothing /\ ~InFlight(list)
    /\ list.data # Nothing => list.data = cookie
    /\ list.step = "answered" => list.answer = cookie
    /\ ChangesAreOwn

\* A session ended by a logout leaves no answer behind that names a user.
NothingComesBack == out => ~live /\ ~SignedIn(me) /\ me.step # "answered"

SessionInv ==
    /\ SessionTypeOK
    /\ live => cookie \in Users
    /\ me.step = "answered" => me.answer # Nothing
    /\ CallsInOrder
    /\ TitleIsPage
    /\ NothingComesBack
    /\ ~late => CacheIsOwn

-----------------------------------------------------------------------------
(* The operators.                                                          *)

\* The sidebar offers a user exactly the pages there is a route to (navConfig,
\* App): the login page is none of them.
LEMMA ItemsAreRoutes ==
    ASSUME NEW identity \in Identity
    PROVE  /\ Items(identity) = Routes(identity)
           /\ Routes(identity) \subseteq Routes([admin |-> TRUE])
           /\ "/" \in Routes(identity)
           /\ "/login" \notin Routes(identity)
  BY DEF Items, Routes, NavItems, AdminOnly

LEMMA AddressTypes == Home \in Address /\ LoginForm \in Address /\ Addresses \subseteq Address
  BY SessionConstants DEF Home, LoginForm, Address, Routes

LEMMA IdentityType ==
    ASSUME NEW u \in Users
    PROVE  IdentityOf(u) \in Identity /\ IdentityOf(u).user = u /\ IdentityOf(u) # Nothing
<1>1. IdentityOf(u).user = u
  BY DEF IdentityOf
<1>2. (u \in admin) \in BOOLEAN
  OBVIOUS
<1>3. IdentityOf(u) \in Identity
  BY <1>2 DEF IdentityOf, Identity
<1> QED
  BY <1>1, <1>3, SessionConstants

\* A page that asks for the list keeps what it has.
LEMMA MayAskKeeps ==
    ASSUME NEW q, NEW a, NEW l \in Query(Users), NEW new \in MayAsk(q, a, l)
    PROVE  /\ new \in Query(Users)
           /\ new.data = l.data
           /\ \/ new = l
              \/ SignedIn(q) /\ new.step = "sent"
<1>1. /\ Mount(l, TRUE) \in Query(Users) /\ Mount(l, TRUE).data = l.data
      /\ Mount(l, TRUE) = l \/ Mount(l, TRUE).step = "sent"
  BY QueryTypes, QueryKeepsData
<1>2. new = l \/ (SignedIn(q) /\ new = Mount(l, TRUE))
  BY DEF MayAsk
<1> QED
  BY <1>1, <1>2

\* Whatever the console learns about its user, and wherever it is led, it shows
\* a page he may see, or the login page, and gives away nothing it held.
LEMMA RenderKeeps ==
    ASSUME NEW q \in Query(Identity), NEW a \in Address, NEW l \in Query(Users),
           Render(q, a, l)
    PROVE  /\ me' = q
           /\ path' \in Address
           /\ TitleIsPage'
           /\ list' \in Query(Users)
           /\ list'.data = l.data
           /\ \/ list' = l
              \/ SignedIn(q) /\ list'.step = "sent"
<1>1. me' = q /\ path' = Routed(q, a)
  BY DEF Render
<1>2. SignedIn(q) => q.data \in Identity
  BY DEF SignedIn, Query
<1>3. path' \in Address
  BY <1>1, AddressTypes DEF Routed
<1>4. TitleIsPage'
  <2> SUFFICES ASSUME SignedIn(q)
               PROVE  /\ path'.page \in Routes(q.data)
                      /\ path'.exact => Title(q.data, path') = path'.page
    BY <1>1 DEF TitleIsPage
  <2>1. path'.page \in Routes(q.data)
    BY <1>1, <1>2, ItemsAreRoutes DEF Routed, Loading, SignedIn, Home
  <2>2. path'.page \in Items(q.data)
    BY <1>2, <2>1, ItemsAreRoutes
  <2> QED
    BY <2>1, <2>2 DEF Title
<1>5. /\ list' \in Query(Users)
      /\ list'.data = l.data
      /\ list' = l \/ (SignedIn(q) /\ list'.step = "sent")
  <2>1. list' = l \/ list' \in MayAsk(q, path', l)
    BY DEF Render
  <2> QED
    BY <2>1, MayAskKeeps
<1> QED
  BY <1>1, <1>3, <1>4, <1>5

\* What the steps of a call leave of the calls under way.
LEMMA SendKeeps ==
    ASSUME SessionTypeOK, CallsInOrder,
           NEW k \in Calls, NEW kind \in {"login", "logout", "change"},
           NEW by \in Users \cup {Nobody},
           kind = "login" => by \in Users,
           Send(k, kind, by)
    PROVE  /\ calls' \in [Calls -> Call \cup {Nobody}]
           /\ CallsInOrder'
           /\ \A c \in Calls : c # k => calls'[c] = calls[c]
           /\ calls'[k].kind = kind /\ calls'[k].by = by
<1> DEFINE new == [kind |-> kind, by |-> by, step |-> "sent", answer |-> Nothing, since |-> "nothing"]
<1>1. new \in Call
  BY DEF Call
<1>2. calls \in [Calls -> Call \cup {Nobody}]
  BY DEF SessionTypeOK
<1>3. calls' = [calls EXCEPT ![k] = new]
  BY DEF Send
<1>4. new.kind = kind /\ new.by = by /\ new.step = "sent"
  OBVIOUS
<1> HIDE DEF new
<1>5. calls'[k] = new /\ \A c \in Calls : c # k => calls'[c] = calls[c]
  BY <1>2, <1>3
<1>6. CallsInOrder'
  BY <1>4, <1>5 DEF CallsInOrder
<1> QED
  BY <1>1, <1>2, <1>3, <1>4, <1>5, <1>6

LEMMA HandledKeeps ==
    ASSUME SessionTypeOK, CallsInOrder,
           NEW k \in Calls, calls[k] # Nobody,
           NEW answer \in Identity \cup {Nothing},
           calls[k].kind # "logout" => answer \in Identity /\ answer.user = calls[k].by,
           Handled(k, answer)
    PROVE  /\ calls' \in [Calls -> Call \cup {Nobody}]
           /\ CallsInOrder'
           /\ ChangesAreOwn /\ me' = me /\ cookie' = cookie => ChangesAreOwn'
<1> DEFINE new == [calls[k] EXCEPT !.step = "handled", !.answer = answer]
<1>1. calls \in [Calls -> Call \cup {Nobody}] /\ calls[k] \in Call
  BY DEF SessionTypeOK
<1>2. /\ new \in Call /\ new # Nobody /\ new.kind = calls[k].kind /\ new.by = calls[k].by
      /\ new.since = calls[k].since /\ new.answer = answer
  BY <1>1, SessionConstants DEF Call
<1>3. calls' = [calls EXCEPT ![k] = new]
  BY <1>1 DEF Handled
<1> HIDE DEF new
<1>4. calls'[k] = new /\ \A c \in Calls : c # k => calls'[c] = calls[c]
  BY <1>1, <1>3
<1>5. CallsInOrder'
  BY <1>2, <1>4 DEF CallsInOrder
<1>6. ChangesAreOwn /\ me' = me /\ cookie' = cookie => ChangesAreOwn'
  BY <1>2, <1>4 DEF ChangesAreOwn
<1> QED
  BY <1>1, <1>2, <1>3, <1>5, <1>6

LEMMA OverKeeps ==
    ASSUME SessionTypeOK, CallsInOrder,
           NEW k \in Calls, NEW news \in {"nothing", "logout", "login"},
           Over(k, news)
    PROVE  /\ calls' \in [Calls -> Call \cup {Nobody}]
           /\ CallsInOrder'
           /\ news = "nothing" => \A c \in Calls : calls'[c] = Nobody \/ calls'[c] = calls[c]
           /\ news # "nothing" =>
                \A c \in Calls : calls'[c] # Nobody /\ calls'[c].kind = "change"
                                   => calls'[c].since # "nothing"
<1>1. calls \in [Calls -> Call \cup {Nobody}]
  BY DEF SessionTypeOK
<1>2. ASSUME NEW call \in Call
      PROVE  /\ Since(call, news) \in Call
             /\ Since(call, news).kind = call.kind /\ Since(call, news).by = call.by
             /\ Since(call, news).step = call.step /\ Since(call, news).answer = call.answer
             /\ news = "nothing" => Since(call, news) = call
             /\ news # "nothing" /\ call.kind = "change" => Since(call, news).since # "nothing"
  BY <1>2 DEF Since, Call
<1>3. \A c \in Calls : \/ calls'[c] = Nobody
                        \/ /\ calls[c] \in Call /\ calls[c] # Nobody
                           /\ calls'[c] = Since(calls[c], news)
  BY <1>1 DEF Over
<1>4. calls' \in [Calls -> Call \cup {Nobody}]
  <2>1. \A c \in Calls : calls'[c] \in Call \cup {Nobody}
    BY <1>2, <1>3
  <2> QED
    BY <2>1 DEF Over
<1>5. CallsInOrder'
  BY <1>2, <1>3 DEF CallsInOrder
<1> QED
  BY <1>2, <1>3, <1>4, <1>5

-----------------------------------------------------------------------------
(* The theorems.                                                           *)

LEMMA SessionStart == SessionInit => SessionInv
<1> SUFFICES ASSUME SessionInit
             PROVE  SessionInv
  OBVIOUS
<1> USE DEF SessionInit
<1>1. /\ me \in Query(Identity) /\ me.data = Nothing /\ me.step = "sent"
      /\ list \in Query(Users) /\ list.data = Nothing /\ list.step = "idle"
  <2>1. NewQuery \in Query(Identity) /\ NewQuery \in Query(Users)
    BY NewQueryType
  <2>2. Fetch(NewQuery) \in Query(Identity)
    BY <2>1, QueryTypes
  <2> QED
    BY <2>1, <2>2 DEF Fetch, NewQuery
<1>2. \A k \in Calls : calls[k] = Nobody
  OBVIOUS
<1>3. SessionTypeOK
  BY <1>1, AddressTypes DEF SessionTypeOK
<1>4. live => cookie \in Users
  BY SessionConstants
<1>5. ~SignedIn(me) /\ ~InFlight(list)
  BY <1>1 DEF SignedIn, InFlight
<1>6. CallsInOrder /\ ChangesAreOwn
  BY <1>2 DEF CallsInOrder, ChangesAreOwn
<1> QED
  BY <1>1, <1>3, <1>4, <1>5, <1>6 DEF SessionInv, TitleIsPage, NothingComesBack, CacheIsOwn

\* No step of the panel, the network, the console or its user breaks it.
LEMMA SessionStep == SessionInv /\ [SessionNext]_sessionVars => SessionInv'
<1> SUFFICES ASSUME SessionInv, [SessionNext]_sessionVars
             PROVE  SessionInv'
  OBVIOUS
<1> USE DEF SessionInv, panelVars, ghostVars
<1> DEFINE Rest == /\ live => cookie \in Users
                   /\ me.step = "answered" => me.answer # Nothing
                   /\ NothingComesBack
                   /\ ~late => CacheIsOwn
<1>0. SessionTypeOK /\ CallsInOrder /\ TitleIsPage /\ NothingComesBack /\ (~late => CacheIsOwn)
  OBVIOUS
<1>1. me \in Query(Identity) /\ list \in Query(Users) /\ path \in Address
  BY DEF SessionTypeOK
\* Enough for a step that leaves me and path alone, or the calls, or both.
<1>2. ASSUME me' = me, path' = path
      PROVE  TitleIsPage'
  BY <1>0, <1>2 DEF TitleIsPage
<1>3. ASSUME calls' = calls
      PROVE  CallsInOrder'
  BY <1>0, <1>3 DEF CallsInOrder
<1>4. ASSUME calls' = calls, ChangesAreOwn, SignedIn(me) => SignedIn(me'), cookie' = cookie
      PROVE  ChangesAreOwn'
  BY <1>4 DEF ChangesAreOwn
<1>5. CASE SessionEnds
  <2>1. SessionTypeOK'
    BY <1>5 DEF SessionEnds, SessionTypeOK
  <2>2. Rest'
    BY <1>5, <1>4 DEF SessionEnds, NothingComesBack, CacheIsOwn
  <2> QED
    BY <1>2, <1>3, <1>5, <2>1, <2>2 DEF SessionEnds
<1>6. ASSUME NEW u \in Users, ChangeRole(u)
      PROVE  SessionInv'
  <2>1. SessionTypeOK'
    BY <1>6 DEF ChangeRole, SessionTypeOK
  <2>2. Rest'
    BY <1>6, <1>4 DEF ChangeRole, NothingComesBack, CacheIsOwn
  <2> QED
    BY <1>2, <1>3, <1>6, <2>1, <2>2 DEF ChangeRole
<1>7. CASE ServeMe
  <2>1. cookie \in Users /\ IdentityOf(cookie) \in Identity
        /\ IdentityOf(cookie).user = cookie /\ IdentityOf(cookie) # Nothing
    BY <1>7, IdentityType DEF ServeMe
  <2>2. /\ me' \in Query(Identity) /\ me'.data = me.data
        /\ me'.step = "answered" /\ me'.answer = IdentityOf(cookie)
    <3>1. me' \in Query(Identity)
      BY <1>1, <1>7, <2>1, QueryTypes DEF ServeMe
    <3>2. me'.data = me.data /\ me'.step = "answered" /\ me'.answer = IdentityOf(cookie)
      BY <1>1, <1>7, <2>1, QueryAnswers DEF ServeMe
    <3> QED
      BY <3>1, <3>2
  <2>3. SessionTypeOK'
    BY <1>7, <2>2 DEF ServeMe, SessionTypeOK
  <2>4. ~out
    BY <1>0, <1>7 DEF ServeMe, NothingComesBack
  <2>5. SignedIn(me') = SignedIn(me)
    BY <2>2 DEF SignedIn
  <2>6. Rest'
    BY <1>4, <1>7, <2>1, <2>2, <2>4, <2>5 DEF ServeMe, NothingComesBack, CacheIsOwn
  <2>7. TitleIsPage'
    BY <1>0, <1>7, <2>2, <2>5 DEF ServeMe, TitleIsPage
  <2> QED
    BY <1>3, <1>7, <2>3, <2>6, <2>7 DEF ServeMe
<1>8. CASE DeliverMe
  <2>1. /\ Deliver(me) \in Query(Identity)
        /\ Deliver(me).data = me.answer /\ Deliver(me).step = "idle"
    <3>1. Deliver(me) \in Query(Identity)
      BY <1>1, QueryTypes
    <3>2. Deliver(me).data = me.answer /\ Deliver(me).step = "idle"
      BY <1>1, QueryAnswers
    <3> QED
      BY <3>1, <3>2
  <2>2. /\ me' = Deliver(me) /\ TitleIsPage' /\ path' \in Address
        /\ list' \in Query(Users) /\ list'.data = list.data
        /\ list' = list \/ list'.step = "sent"
    BY <1>1, <1>8, <2>1, RenderKeeps DEF DeliverMe
  <2>3. SessionTypeOK'
    BY <1>8, <2>1, <2>2 DEF DeliverMe, SessionTypeOK
  <2>4. me.step = "answered" /\ SignedIn(me')
    BY <1>8, <2>1, <2>2 DEF DeliverMe, SignedIn
  <2>5. ~out
    BY <1>0, <2>4 DEF NothingComesBack
  <2>6. Rest'
    BY <1>4, <1>8, <2>1, <2>2, <2>4, <2>5 DEF DeliverMe, NothingComesBack, CacheIsOwn
  <2> QED
    BY <1>3, <1>8, <2>2, <2>3, <2>6 DEF DeliverMe
<1>9. CASE MeFails
  <2>1. /\ FetchFails(me) \in Query(Identity)
        /\ FetchFails(me).data = me.data /\ FetchFails(me).step = "failed"
    <3>1. FetchFails(me) \in Query(Identity)
      BY <1>1, QueryTypes
    <3>2. FetchFails(me).data = me.data /\ FetchFails(me).step = "failed"
      BY <1>1, QueryAnswers
    <3> QED
      BY <3>1, <3>2
  <2>2. /\ me' = FetchFails(me) /\ TitleIsPage' /\ path' \in Address
        /\ list' \in Query(Users) /\ list'.data = list.data
        /\ list' = list \/ (SignedIn(me') /\ list'.step = "sent")
    BY <1>1, <1>9, <2>1, RenderKeeps DEF MeFails
  <2>3. SessionTypeOK'
    BY <1>9, <2>1, <2>2 DEF MeFails, SessionTypeOK
  <2>4. SignedIn(me') = SignedIn(me)
    BY <2>1, <2>2 DEF SignedIn
  <2>5. Rest'
    BY <1>4, <1>9, <2>1, <2>2, <2>4 DEF MeFails, NothingComesBack, CacheIsOwn
  <2> QED
    BY <1>3, <1>9, <2>2, <2>3, <2>5 DEF MeFails
<1>10. CASE ServeList
  <2>1. /\ list' \in Query(Users) /\ list'.data = list.data
        /\ list'.step = "answered" /\ list'.answer = cookie
    <3>1. list' \in Query(Users)
      BY <1>1, <1>10, QueryTypes DEF ServeList
    <3>2. list'.data = list.data /\ list'.step = "answered" /\ list'.answer = cookie
      BY <1>1, <1>10, QueryAnswers DEF ServeList
    <3> QED
      BY <3>1, <3>2
  <2>2. SessionTypeOK'
    BY <1>10, <2>1 DEF ServeList, SessionTypeOK
  <2>3. InFlight(list)
    BY <1>10 DEF ServeList, InFlight
  <2>4. Rest'
    BY <1>4, <1>10, <2>1, <2>3 DEF ServeList, NothingComesBack, CacheIsOwn
  <2> QED
    BY <1>2, <1>3, <1>10, <2>2, <2>4 DEF ServeList
<1>11. CASE DeliverList
  <2>1. list' \in Query(Users) /\ list'.data = list.answer /\ list'.step = "idle"
    <3>1. list' \in Query(Users)
      BY <1>1, <1>11, QueryTypes DEF DeliverList
    <3>2. list'.data = list.answer /\ list'.step = "idle"
      BY <1>1, <1>11, QueryAnswers DEF DeliverList
    <3> QED
      BY <3>1, <3>2
  <2>2. SessionTypeOK'
    BY <1>11, <2>1 DEF DeliverList, SessionTypeOK
  <2>3. list.step = "answered" /\ InFlight(list)
    BY <1>11 DEF DeliverList, InFlight
  <2>4. Rest'
    BY <1>4, <1>11, <2>1, <2>3 DEF DeliverList, NothingComesBack, CacheIsOwn
  <2> QED
    BY <1>2, <1>3, <1>11, <2>2, <2>4 DEF DeliverList
<1>12. CASE ListFails
  <2>1. list' \in Query(Users) /\ list'.data = list.data /\ list'.step = "failed"
    <3>1. list' \in Query(Users)
      BY <1>1, <1>12, QueryTypes DEF ListFails
    <3>2. list'.data = list.data /\ list'.step = "failed"
      BY <1>1, <1>12, QueryAnswers DEF ListFails
    <3> QED
      BY <3>1, <3>2
  <2>2. SessionTypeOK'
    BY <1>12, <2>1 DEF ListFails, SessionTypeOK
  <2>3. ~InFlight(list')
    BY <2>1 DEF InFlight
  <2>4. Rest'
    BY <1>4, <1>12, <2>1, <2>3 DEF ListFails, NothingComesBack, CacheIsOwn
  <2> QED
    BY <1>2, <1>3, <1>12, <2>2, <2>4 DEF ListFails
<1>13. ASSUME NEW a \in Addresses, GoTo(a)
       PROVE  SessionInv'
  <2>1. /\ me' = me /\ TitleIsPage' /\ path' \in Address
        /\ list' \in Query(Users) /\ list'.data = list.data
        /\ list' = list \/ (SignedIn(me) /\ list'.step = "sent")
    BY <1>1, <1>13, AddressTypes, RenderKeeps DEF GoTo
  <2>2. SessionTypeOK'
    BY <1>13, <2>1 DEF GoTo, SessionTypeOK
  <2>3. Rest'
    BY <1>4, <1>13, <2>1 DEF GoTo, NothingComesBack, CacheIsOwn
  <2> QED
    BY <1>3, <1>13, <2>1, <2>2, <2>3 DEF GoTo
<1>14. CASE Refresh
  <2>1. SignedIn(me) /\ me' = Fetch(me)
    BY <1>14 DEF Refresh, Refetch, SignedIn, Loading
  <2>2. me' \in Query(Identity) /\ me'.data = me.data /\ me'.step = "sent"
    BY <1>1, <2>1, QueryTypes DEF Fetch, Query
  <2>3. /\ Refetch(list) \in Query(Users) /\ Refetch(list).data = list.data
        /\ Refetch(list) = list \/ Refetch(list).step = "sent"
    <3>1. Fetch(list) \in Query(Users)
      BY <1>1, QueryTypes
    <3>2. Fetch(list).data = list.data /\ Fetch(list).step = "sent"
      BY <1>1 DEF Fetch, Query
    <3> QED
      BY <1>1, <3>1, <3>2 DEF Refetch
  <2>4. /\ list' \in Query(Users) /\ list'.data = list.data
        /\ list' = list \/ list'.step = "sent"
    <3>1. list' = list \/ list' = Refetch(list)
      BY <1>14 DEF Refresh
    <3> QED
      BY <1>1, <2>3, <3>1
  <2>5. SessionTypeOK'
    BY <1>14, <2>2, <2>4 DEF Refresh, SessionTypeOK
  <2>6. SignedIn(me')
    BY <2>1, <2>2 DEF SignedIn
  <2>7. TitleIsPage'
    BY <1>0, <1>14, <2>1, <2>2 DEF Refresh, TitleIsPage
  <2>8. Rest'
    BY <1>4, <1>14, <2>1, <2>2, <2>4, <2>6 DEF Refresh, NothingComesBack, CacheIsOwn
  <2> QED
    BY <1>3, <1>14, <2>5, <2>7, <2>8 DEF Refresh
<1>15. CASE Reconnect
  <2>1. me' \in Query(Identity) /\ me'.data = me.data /\ (me' = me \/ me'.step = "sent")
    <3>1. ASSUME NEW aged \in BOOLEAN
          PROVE  /\ Mount(me, aged) \in Query(Identity) /\ Mount(me, aged).data = me.data
                 /\ Mount(me, aged) = me \/ Mount(me, aged).step = "sent"
      BY <1>1, QueryTypes, QueryKeepsData
    <3> QED
      BY <1>15, <3>1 DEF Reconnect
  <2>2. /\ list' \in Query(Users) /\ list'.data = list.data
        /\ list' = list \/ (SignedIn(me) /\ list'.step = "sent")
    BY <1>1, <1>15, MayAskKeeps DEF Reconnect
  <2>3. SignedIn(me') = SignedIn(me)
    BY <2>1 DEF SignedIn
  <2>4. SessionTypeOK'
    BY <1>15, <2>1, <2>2 DEF Reconnect, SessionTypeOK
  <2>5. TitleIsPage'
    BY <1>0, <1>15, <2>1, <2>3 DEF Reconnect, TitleIsPage
  <2>6. Rest'
    BY <1>4, <1>15, <2>1, <2>2, <2>3 DEF Reconnect, NothingComesBack, CacheIsOwn
  <2> QED
    BY <1>3, <1>15, <2>4, <2>5, <2>6 DEF Reconnect
<1>16. ASSUME NEW k \in Calls, NEW u \in Users, SubmitLogin(k, u)
       PROVE  SessionInv'
  <2>1. /\ calls' \in [Calls -> Call \cup {Nobody}] /\ CallsInOrder'
        /\ \A c \in Calls : c # k => calls'[c] = calls[c]
        /\ calls'[k].kind = "login"
    BY <1>0, <1>16, SendKeeps DEF SubmitLogin
  <2>2. SessionTypeOK'
    BY <1>16, <2>1 DEF SubmitLogin, SessionTypeOK
  <2>3. ChangesAreOwn => ChangesAreOwn'
    BY <1>16, <2>1 DEF SubmitLogin, ChangesAreOwn
  <2>4. Rest'
    BY <1>16, <2>3 DEF SubmitLogin, NothingComesBack, CacheIsOwn
  <2> QED
    BY <1>2, <1>16, <2>1, <2>2, <2>4 DEF SubmitLogin
<1>17. ASSUME NEW k \in Calls, HandleLogin(k)
       PROVE  SessionInv'
  <2>1. calls[k] # Nobody /\ calls[k].kind = "login" /\ calls[k].by \in Users
    BY <1>0, <1>17 DEF HandleLogin, Is, CallsInOrder
  <2>2. /\ calls' \in [Calls -> Call \cup {Nobody}] /\ CallsInOrder'
        /\ ChangesAreOwn => ChangesAreOwn'
    BY <1>0, <1>17, <2>1, IdentityType, HandledKeeps DEF HandleLogin
  <2>3. SessionTypeOK'
    BY <1>17, <2>2 DEF HandleLogin, SessionTypeOK
  <2>4. Rest'
    BY <1>17, <2>2 DEF HandleLogin, NothingComesBack, CacheIsOwn
  <2> QED
    BY <1>2, <1>17, <2>2, <2>3, <2>4 DEF HandleLogin
<1>18. ASSUME NEW k \in Calls, LoginAnswered(k)
       PROVE  SessionInv'
  <2> DEFINE who == calls[k].by
             answer == calls[k].answer
  <2>1. /\ who \in Users /\ answer \in Identity /\ answer.user = who /\ answer # Nothing
        /\ cookie' = who
    BY <1>0, <1>18, SessionConstants DEF LoginAnswered, Is, CallsInOrder
  <2>2. /\ Outdated(me) \in Query(Identity) /\ Outdated(list) \in Query(Users)
        /\ Outdated(list).data = list.data /\ Outdated(list).step # "sent"
        /\ Outdated(list).step = "answered" => Outdated(list) = list
        /\ Outdated(me).step = "answered" => Outdated(me) = me
    <3>1. FetchFails(me) \in Query(Identity) /\ FetchFails(list) \in Query(Users)
      BY <1>1, QueryTypes
    <3>2. /\ FetchFails(list).data = list.data /\ FetchFails(list).step = "failed"
          /\ FetchFails(me).step = "failed"
      BY <1>1, QueryAnswers
    <3> QED
      BY <1>1, <3>1, <3>2 DEF Outdated
  <2> HIDE DEF who, answer
  <2>3. /\ SetData(Outdated(me), answer) \in Query(Identity)
        /\ SetData(Outdated(me), answer).data = answer
        /\ SetData(Outdated(me), answer).step = Outdated(me).step
        /\ SetData(Outdated(me), answer).answer = Outdated(me).answer
    <3>1. SetData(Outdated(me), answer) \in Query(Identity)
      BY <2>1, <2>2, QueryTypes
    <3>2. /\ SetData(Outdated(me), answer).data = answer
          /\ SetData(Outdated(me), answer).step = Outdated(me).step
          /\ SetData(Outdated(me), answer).answer = Outdated(me).answer
      BY <2>1, <2>2, QueryAnswers
    <3> QED
      BY <3>1, <3>2
  <2>4. /\ me' = SetData(Outdated(me), answer) /\ TitleIsPage' /\ path' \in Address
        /\ list' \in Query(Users) /\ list'.data = list.data
        /\ list' = Outdated(list) \/ list'.step = "sent"
    <3>1. Render(SetData(Outdated(me), answer), path, Outdated(list))
      BY <1>18 DEF LoginAnswered, answer
    <3> QED
      BY <1>1, <2>2, <2>3, <3>1, RenderKeeps
  <2>5. /\ calls' \in [Calls -> Call \cup {Nobody}] /\ CallsInOrder'
        /\ \A c \in Calls : calls'[c] # Nobody /\ calls'[c].kind = "change"
                              => calls'[c].since # "nothing"
    BY <1>0, <1>18, OverKeeps DEF LoginAnswered
  <2>6. SessionTypeOK'
    BY <1>18, <2>1, <2>3, <2>4, <2>5 DEF LoginAnswered, SessionTypeOK
  <2>7. SignedIn(me')
    BY <2>1, <2>3, <2>4 DEF SignedIn
  <2>8. ChangesAreOwn'
    BY <2>5 DEF ChangesAreOwn
  <2>9. ~late' => /\ list.data = Nothing /\ list.step # "answered" /\ me.step # "answered"
    BY <1>0, <1>18 DEF LoginAnswered, CacheIsOwn, InFlight
  <2>10. Rest'
    BY <1>18, <2>1, <2>2, <2>3, <2>4, <2>7, <2>8, <2>9 DEF LoginAnswered, NothingComesBack, CacheIsOwn
  <2> QED
    BY <2>4, <2>5, <2>6, <2>10
<1>19. ASSUME NEW k \in Calls, CallFails(k)
       PROVE  SessionInv'
  <2>1. /\ calls' \in [Calls -> Call \cup {Nobody}] /\ CallsInOrder'
        /\ \A c \in Calls : calls'[c] = Nobody \/ calls'[c] = calls[c]
    BY <1>0, <1>19, OverKeeps DEF CallFails
  <2>2. SessionTypeOK'
    BY <1>19, <2>1 DEF CallFails, SessionTypeOK
  <2>3. ChangesAreOwn => ChangesAreOwn'
    BY <1>19, <2>1 DEF CallFails, ChangesAreOwn
  <2>4. Rest'
    BY <1>19, <2>3 DEF CallFails, NothingComesBack, CacheIsOwn
  <2> QED
    BY <1>2, <1>19, <2>1, <2>2, <2>4 DEF CallFails
<1>20. ASSUME NEW k \in Calls, PressLogout(k)
       PROVE  SessionInv'
  <2>1. cookie \in Users \cup {Nobody}
    BY DEF SessionTypeOK
  <2>2. /\ calls' \in [Calls -> Call \cup {Nobody}] /\ CallsInOrder'
        /\ \A c \in Calls : c # k => calls'[c] = calls[c]
        /\ calls'[k].kind = "logout"
    BY <1>0, <1>20, <2>1, SendKeeps DEF PressLogout
  <2>3. SessionTypeOK'
    BY <1>20, <2>2 DEF PressLogout, SessionTypeOK
  <2>4. ChangesAreOwn => ChangesAreOwn'
    BY <1>20, <2>2 DEF PressLogout, ChangesAreOwn
  <2>5. Rest'
    BY <1>20, <2>4 DEF PressLogout, NothingComesBack, CacheIsOwn
  <2> QED
    BY <1>2, <1>20, <2>2, <2>3, <2>5 DEF PressLogout
<1>21. ASSUME NEW k \in Calls, HandleLogout(k)
       PROVE  SessionInv'
  <2>1. calls[k] # Nobody /\ calls[k].kind = "logout"
    BY <1>21 DEF HandleLogout, Is
  <2>2. /\ calls' \in [Calls -> Call \cup {Nobody}] /\ CallsInOrder'
        /\ ChangesAreOwn => ChangesAreOwn'
    BY <1>0, <1>21, <2>1, HandledKeeps DEF HandleLogout
  <2>3. live' => live
    BY <1>21 DEF HandleLogout
  <2>4. SessionTypeOK'
    BY <1>21, <2>2 DEF HandleLogout, SessionTypeOK
  <2>5. Rest'
    BY <1>21, <2>2, <2>3 DEF HandleLogout, NothingComesBack, CacheIsOwn
  <2> QED
    BY <1>2, <1>21, <2>2, <2>4, <2>5 DEF HandleLogout
<1>22. ASSUME NEW k \in Calls, NEW answered \in BOOLEAN, LogoutEnds(k, answered)
       PROVE  SessionInv'
  <2>1. /\ me' \in Query(Identity) /\ me'.data = Nothing /\ me'.step = "sent"
        /\ list' \in Query(Users) /\ list'.data = Nothing /\ list'.step = "idle"
        /\ path' = path
    <3>1. NewQuery \in Query(Identity) /\ NewQuery \in Query(Users)
      BY NewQueryType
    <3>2. Fetch(NewQuery) \in Query(Identity)
      BY <3>1, QueryTypes
    <3> QED
      BY <1>22, <3>1, <3>2 DEF LogoutEnds, ClearSession, Fetch, NewQuery
  <2>2. ~SignedIn(me') /\ ~InFlight(list')
    BY <2>1 DEF SignedIn, InFlight
  <2>3. /\ calls' \in [Calls -> Call \cup {Nobody}] /\ CallsInOrder'
        /\ \A c \in Calls : calls'[c] # Nobody /\ calls'[c].kind = "change"
                              => calls'[c].since # "nothing"
    BY <1>0, <1>22, OverKeeps DEF LogoutEnds
  <2>4. SessionTypeOK'
    BY <1>22, <2>1, <2>3 DEF LogoutEnds, SessionTypeOK
  <2>5. ChangesAreOwn'
    BY <2>3 DEF ChangesAreOwn
  <2>6. Rest'
    BY <1>22, <2>1, <2>2, <2>5 DEF LogoutEnds, NothingComesBack, CacheIsOwn
  <2>7. TitleIsPage'
    BY <2>2 DEF TitleIsPage
  <2> QED
    BY <2>3, <2>4, <2>6, <2>7
<1>23. ASSUME NEW k \in Calls, SubmitChange(k)
       PROVE  SessionInv'
  <2>1. cookie \in Users \cup {Nobody}
    BY DEF SessionTypeOK
  <2>2. /\ calls' \in [Calls -> Call \cup {Nobody}] /\ CallsInOrder'
        /\ \A c \in Calls : c # k => calls'[c] = calls[c]
        /\ calls'[k].kind = "change" /\ calls'[k].by = cookie
    BY <1>0, <1>23, <2>1, SendKeeps DEF SubmitChange
  <2>3. SessionTypeOK'
    BY <1>23, <2>2 DEF SubmitChange, SessionTypeOK
  <2>4. ChangesAreOwn => ChangesAreOwn'
    BY <1>23, <2>2 DEF SubmitChange, ChangesAreOwn
  <2>5. Rest'
    BY <1>23, <2>4 DEF SubmitChange, NothingComesBack, CacheIsOwn
  <2> QED
    BY <1>2, <1>23, <2>2, <2>3, <2>5 DEF SubmitChange
<1>24. ASSUME NEW k \in Calls, HandleChange(k)
       PROVE  SessionInv'
  <2>1. calls[k] # Nobody /\ calls[k].by \in Users
    BY <1>24 DEF HandleChange, Is, Authorized
  <2>2. /\ calls' \in [Calls -> Call \cup {Nobody}] /\ CallsInOrder'
        /\ ChangesAreOwn => ChangesAreOwn'
    BY <1>0, <1>24, <2>1, IdentityType, HandledKeeps DEF HandleChange
  <2>3. SessionTypeOK'
    BY <1>24, <2>2 DEF HandleChange, SessionTypeOK
  <2>4. Rest'
    BY <1>24, <2>2 DEF HandleChange, NothingComesBack, CacheIsOwn
  <2> QED
    BY <1>2, <1>24, <2>2, <2>3, <2>4 DEF HandleChange
<1>25. ASSUME NEW k \in Calls, ChangeAnswered(k)
       PROVE  SessionInv'
  <2> DEFINE answer == calls[k].answer
  <2>1. /\ calls[k] # Nobody /\ calls[k].kind = "change"
        /\ answer \in Identity /\ answer # Nothing /\ answer.user = calls[k].by
    BY <1>0, <1>25, SessionConstants DEF ChangeAnswered, Is, CallsInOrder
  <2>2. Render(SetData(me, answer), path, list)
    BY <1>25 DEF ChangeAnswered
  <2>3. ~late' => ~late /\ calls[k].since = "nothing"
    BY <1>25 DEF ChangeAnswered
  <2>4. ~late' => CacheIsOwn /\ SignedIn(me) /\ answer.user = cookie
    BY <1>0, <2>1, <2>3 DEF CacheIsOwn, ChangesAreOwn
  <2> HIDE DEF answer
  <2>5. /\ SetData(me, answer) \in Query(Identity)
        /\ SetData(me, answer).data = answer
        /\ SetData(me, answer).step = me.step
        /\ SetData(me, answer).answer = me.answer
    <3>1. SetData(me, answer) \in Query(Identity)
      BY <1>1, <2>1, QueryTypes
    <3>2. /\ SetData(me, answer).data = answer
          /\ SetData(me, answer).step = me.step
          /\ SetData(me, answer).answer = me.answer
      BY <1>1, <2>1, QueryAnswers
    <3> QED
      BY <3>1, <3>2
  <2>6. /\ me' = SetData(me, answer) /\ TitleIsPage' /\ path' \in Address
        /\ list' \in Query(Users) /\ list'.data = list.data
        /\ list' = list \/ list'.step = "sent"
    BY <1>1, <2>2, <2>5, RenderKeeps
  <2>7. /\ calls' \in [Calls -> Call \cup {Nobody}] /\ CallsInOrder'
        /\ \A c \in Calls : calls'[c] = Nobody \/ calls'[c] = calls[c]
    BY <1>0, <1>25, OverKeeps DEF ChangeAnswered
  <2>8. SessionTypeOK'
    BY <1>25, <2>5, <2>6, <2>7 DEF ChangeAnswered, SessionTypeOK
  <2>9. SignedIn(me')
    BY <2>1, <2>5, <2>6 DEF SignedIn
  <2>10. ChangesAreOwn => ChangesAreOwn'
    BY <1>25, <2>7, <2>9 DEF ChangeAnswered, ChangesAreOwn
  <2>11. Rest'
    BY <1>25, <2>1, <2>4, <2>5, <2>6, <2>9, <2>10 DEF ChangeAnswered, NothingComesBack, CacheIsOwn
  <2> QED
    BY <2>6, <2>7, <2>8, <2>11
<1>26. CASE UNCHANGED sessionVars
  <2>1. SessionTypeOK'
    BY <1>26 DEF sessionVars, SessionTypeOK
  <2>2. Rest'
    BY <1>4, <1>26 DEF sessionVars, NothingComesBack, CacheIsOwn
  <2> QED
    BY <1>2, <1>3, <1>26, <2>1, <2>2 DEF sessionVars
<1>27. ASSUME NEW k \in Calls, CallSteps(k)
       PROVE  SessionInv'
  BY <1>16, <1>17, <1>18, <1>19, <1>20, <1>21, <1>22, <1>23, <1>24, <1>25, <1>27 DEF CallSteps
<1> QED
  BY <1>5, <1>6, <1>7, <1>8, <1>9, <1>10, <1>11, <1>12, <1>13, <1>14, <1>15, <1>26, <1>27
     DEF SessionNext

\* The invariant holds for every set of users.
THEOREM SessionInvariant == SessionSpec => []SessionInv
<1> QED
  BY SessionStart, SessionStep, PTL DEF SessionSpec

\* Whatever the panel answers and whoever logs in, the console's queries and
\* the address bar stay well formed (AuthContext, App).
THEOREM SessionTypes == SessionSpec => []SessionTypeOK
<1>1. SessionInv => SessionTypeOK
  BY DEF SessionInv
<1> QED
  BY <1>1, SessionInvariant, PTL

\* A user whose session a logout ended is never shown as signed in again by an
\* answer that was under way, however many calls and logouts were
\* (clearSession), unless it is the security page's (applyUser).
THEOREM SignedOut == SessionSpec => []SignedOutStaysOut
<1>1. SessionInv => SignedOutStaysOut
  BY DEF SessionInv, NothingComesBack, SignedOutStaysOut
<1> QED
  BY <1>1, SessionInvariant, PTL

\* Nobody is shown what was fetched for another user of the tab (clearSession,
\* setSession), unless since the last logout an answer of the security page
\* came after its user had signed out, or a login was answered when a user, or
\* an answer about one, was there already.
THEOREM DataOfTheUserShown == SessionSpec => []OwnDataOnly
<1>1. SessionInv => OwnDataOnly
  BY DEF SessionInv, CacheIsOwn, OwnDataOnly
<1> QED
  BY <1>1, SessionInvariant, PTL

\* The page that shows is one the user may see, also when his rights change
\* while he is on it, and its title is its own wherever the address is written
\* as the sidebar has it (App, Layout); at "/rules/" it is not.
THEOREM TitleNamesPage == SessionSpec => []TitleIsPage
<1>1. SessionInv => TitleIsPage
  BY DEF SessionInv
<1> QED
  BY <1>1, SessionInvariant, PTL

\* The user shown changes by a logout and a login only: while somebody stays
\* signed in, no answer puts another user in his place, with the exceptions of
\* DataOfTheUserShown (setSession, applyUser).
THEOREM UserStays ==
    SessionSpec => [][SignedIn(me) /\ SignedIn(me') /\ ~late /\ ~late'
                        => me'.data.user = me.data.user]_sessionVars
<1> DEFINE Stays == SignedIn(me) /\ SignedIn(me') /\ ~late /\ ~late'
                      => me'.data.user = me.data.user
<1>1. SessionInv /\ SessionInv' /\ [SessionNext]_sessionVars => Stays
  <2> SUFFICES ASSUME SessionInv, SessionInv', [SessionNext]_sessionVars,
                      SignedIn(me), SignedIn(me'), ~late, ~late'
               PROVE  me'.data.user = me.data.user
    OBVIOUS
  <2>1. me.data.user = cookie /\ me'.data.user = cookie'
    BY DEF SessionInv, CacheIsOwn
  <2>2. cookie' = cookie
    <3>1. ASSUME NEW k \in Calls, NEW answered \in BOOLEAN, LogoutEnds(k, answered)
          PROVE  FALSE
      BY <3>1 DEF LogoutEnds, ClearSession, Fetch, NewQuery, SignedIn
    <3>2. ASSUME NEW k \in Calls, LoginAnswered(k)
          PROVE  FALSE
      BY <3>2 DEF LoginAnswered
    <3>3. ASSUME NEW k \in Calls, CallSteps(k)
          PROVE  cookie' = cookie
      BY <3>1, <3>2, <3>3 DEF CallSteps, panelVars, SubmitLogin, HandleLogin, PressLogout,
         HandleLogout, SubmitChange, HandleChange, ChangeAnswered, CallFails
    <3> QED
      BY <3>3 DEF SessionNext, sessionVars, panelVars, SessionEnds, ChangeRole, ServeMe,
         DeliverMe, MeFails, ServeList, DeliverList, ListFails, GoTo, Refresh, Reconnect
  <2> QED
    BY <2>1, <2>2
<1> QED
  BY <1>1, SessionInvariant, PTL DEF SessionSpec

=============================================================================
