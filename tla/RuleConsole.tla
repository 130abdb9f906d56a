----------------------------- MODULE RuleConsole -----------------------------
(***************************************************************************)
(* The rules page of the web console (frontend/src/pages/RulesPage.tsx     *)
(* with RuleForm, RuleCard and ConfirmDialog) in one administrator's       *)
(* browser, beside the panel of RuleStore, whose other steps stand for     *)
(* agents and for every other client.                                      *)
(*                                                                         *)
(* The page acts on a copy of the rules that is as old as its last fetch.  *)
(* A save, a toggle and a deletion are calls of their own: several may be  *)
(* under way, the panel handles them in any order, and any may fail before *)
(* or after the panel handled it.  One that the browser gave up and that   *)
(* still arrives is a request of "every other client".                     *)
(*                                                                         *)
(* Abstracted: names, targets, owners and texts of a rule; search, filters *)
(* and groups, which only hide rules.                                      *)
(***************************************************************************)
EXTENDS RuleStore, QueryCache

CONSTANTS
    Calls,  \* at most this many calls of the page are under way
    NewRule \* what the form edits when it creates a rule

ASSUME ConsoleConstants == NewRule \notin RuleIds

VARIABLES
    page,    \* the rules page is open
    list,    \* the query of /api/rules
    form,    \* formOpen and editingRule: what RuleForm edits
    confirm, \* deleteRuleId: the rule ConfirmDialog asks about
    calls,   \* the mutations under way
    own      \* the version of the last change the user was told is saved,
             \* while this page was open and had rules to show

pageVars == <<page, list, form, confirm, calls, own>>
consoleVars == <<vars, pageVars>>

-----------------------------------------------------------------------------
(* The page.                                                               *)

\* What the page takes from the answer to GET /api/rules, which is the rules: of
\* the rule_version in it the page knows nothing (RulesResponse of types.ts).
\* asOf is history: the panel's rule version when it read the rules.
Shown == [rules : [RuleIds -> Rule \cup {Absent}], asOf : Nat]

ASSUME NothingIsNoList == Nothing \notin Shown

\* A mutation: what it sends, how far it is, the panel's version once handled,
\* and whether the page that made it is still the page that is open.
Call == [kind    : {"save", "toggle", "delete"},
         id      : RuleIds \cup {NewRule},
         body    : Body \cup {Nothing},
         state   : ApplyStates,
         step    : {"sent", "answered", "refused"},
         version : Nat,
         here    : BOOLEAN]

\* What can be clicked: not behind the spinner of a first fetch.
Usable == page /\ ~Loading(list)

\* The rules for which there is a card, in whatever group it is and once the
\* filters let it through.
Listed == IF list.data = Nothing THEN {} ELSE {r \in RuleIds : Has(list.data.rules, r)}

\* isPending of the mutation of a kind
Pending(kind) == \E k \in Calls : calls[k] # Nothing /\ calls[k].kind = kind /\ calls[k].here

Mutate(kind, id, body, state) ==
    \E k \in Calls :
        /\ calls[k] = Nothing
        /\ calls' = [calls EXCEPT ![k] =
                       [kind |-> kind, id |-> id, body |-> body, state |-> state,
                        step |-> "sent", version |-> 0, here |-> TRUE]]

OpenPage(aged) ==
    /\ ~page
    /\ page' = TRUE
    /\ list' = Mount(list, aged)
    /\ UNCHANGED <<vars, form, confirm, calls, own>>

\* The page's state goes with it, what it sent does not.
LeavePage ==
    /\ page
    /\ page' = FALSE
    /\ form' = Nothing
    /\ confirm' = Nothing
    /\ calls' = [k \in Calls |-> IF calls[k] = Nothing THEN Nothing
                                 ELSE [calls[k] EXCEPT !.here = FALSE]]
    /\ own' = 0
    /\ UNCHANGED <<vars, list>>

\* onRefresh of Layout
Refresh ==
    /\ page
    /\ list' = Invalidate(list, page)
    /\ UNCHANGED <<vars, page, form, confirm, calls, own>>

\* The browser is online again (refetchOnReconnect): what is in use is fetched
\* if it is stale.
Reconnect(aged) ==
    /\ page
    /\ list' = Mount(list, aged)
    /\ UNCHANGED <<vars, page, form, confirm, calls, own>>

\* "新增规则", or "编辑" on a card
OpenForm(id) ==
    /\ Usable
    /\ id \in Listed \cup {NewRule}
    /\ form' = id
    /\ UNCHANGED <<vars, page, list, confirm, calls, own>>

CloseForm ==
    /\ form # Nothing
    /\ form' = Nothing
    /\ UNCHANGED <<vars, page, list, confirm, calls, own>>

\* RuleForm: what the user can make of the fields.  It has none for an expiry
\* date, so an edit ends the one the rule had.
FormBodies == {body \in Body : body.expireAt = Never}

SubmitForm(body) ==
    /\ Usable
    /\ form # Nothing
    /\ ~Pending("save")
    /\ Mutate("save", form, body, "pending")
    /\ UNCHANGED <<vars, page, list, form, confirm, own>>

BodyOf(rule) ==
    [node |-> rule.node, enabled |-> rule.enabled, port |-> rule.port,
     protocol |-> rule.protocol, expireAt |-> rule.expireAt]

\* A faulty variant of Toggle: it sends what changes and nothing else.
ToggleEnabledOnly(r) ==
    /\ Usable
    /\ r \in Listed
    /\ LET rule == list.data.rules[r]
       IN  Mutate("toggle", r, [enabled |-> ~rule.enabled], rule.state)
    /\ UNCHANGED <<vars, page, list, form, confirm, own>>

\* "停用" or "启用" on a card: the rule as it is shown, with enabled flipped
Toggle(r) ==
    /\ Usable
    /\ r \in Listed
    /\ LET rule == list.data.rules[r]
       IN  Mutate("toggle", r, [BodyOf(rule) EXCEPT !.enabled = ~rule.enabled], rule.state)
    /\ UNCHANGED <<vars, page, list, form, confirm, own>>

\* "删除" on a card
AskDelete(r) ==
    /\ Usable
    /\ r \in Listed
    /\ confirm' = r
    /\ UNCHANGED <<vars, page, list, form, calls, own>>

CloseConfirm ==
    /\ confirm # Nothing
    /\ confirm' = Nothing
    /\ UNCHANGED <<vars, page, list, form, calls, own>>

\* The dialog shows for a rule that is listed only.
ConfirmDelete ==
    /\ Usable
    /\ confirm \in Listed
    /\ ~Pending("delete")
    /\ Mutate("delete", confirm, Nothing, "pending")
    /\ UNCHANGED <<vars, page, list, form, confirm, own>>

-----------------------------------------------------------------------------
(* The calls and the fetch, on their way.                                  *)

Request(call) ==
    IF call.kind = "delete" THEN DeleteRule(call.id)
    ELSE IF call.id = NewRule THEN \E id \in RuleIds : CreateRule(id, call.body)
    ELSE EditRule(call.id, call.body) \/ RecreateRule(call.id, call.body, call.state)

\* The panel handles a call; it answers with an error if it cannot save.
HandleCall(k) ==
    /\ calls[k] # Nothing
    /\ calls[k].step = "sent"
    /\ Request(calls[k])
    /\ calls' = [calls EXCEPT ![k].step = IF disk' = data' THEN "answered" ELSE "refused",
                              ![k].version = data'.ruleVersion]
    /\ UNCHANGED <<page, list, form, confirm, own>>

Later(v, w) == IF v < w THEN w ELSE v

\* What the user is told: the toast of onSuccess.
Told(version) ==
    IF page /\ list.data # Nothing THEN Later(own, version) ELSE own

\* A faulty variant of onSuccess: nothing is fetched again.
OnSuccessWithoutFetch(k) ==
    /\ calls[k].step = "answered"
    /\ own' = Told(calls[k].version)
    /\ form' = IF calls[k].kind = "save" /\ calls[k].here THEN Nothing ELSE form
    /\ confirm' = IF calls[k].kind = "delete" /\ calls[k].here THEN Nothing ELSE confirm
    /\ UNCHANGED list

\* onSuccess of the mutations: invalidate, and close whatever form or dialog
\* is open by now on the page that made the call.
OnSuccess(k) ==
    /\ calls[k].step = "answered"
    /\ list' = Invalidate(list, page)
    /\ own' = Told(calls[k].version)
    /\ form' = IF calls[k].kind = "save" /\ calls[k].here THEN Nothing ELSE form
    /\ confirm' = IF calls[k].kind = "delete" /\ calls[k].here THEN Nothing ELSE confirm

Settle(k) ==
    /\ calls[k] # Nothing
    /\ OnSuccess(k)
    /\ calls' = [calls EXCEPT ![k] = Nothing]
    /\ UNCHANGED <<vars, page>>

\* The panel refused a call or could not save, or the call or its answer is
\* lost: onError only tells.
CallFails(k) ==
    /\ calls[k] # Nothing
    /\ calls' = [calls EXCEPT ![k] = Nothing]
    /\ UNCHANGED <<vars, page, list, form, confirm, own>>

\* ListRules of handleRules.  What the handler reads after it, each under a lock
\* of its own, is counters, reports, and a rule_version that the page ignores.
ServeFetch ==
    /\ list.step = "sent"
    /\ list' = Serve(list, [rules |-> data.rules, asOf |-> data.ruleVersion])
    /\ UNCHANGED <<vars, page, form, confirm, calls, own>>

DeliverFetch ==
    /\ list.step = "answered"
    /\ list' = Deliver(list)
    /\ UNCHANGED <<vars, page, form, confirm, calls, own>>

FetchLost ==
    /\ InFlight(list)
    /\ list' = FetchFails(list)
    /\ UNCHANGED <<vars, page, form, confirm, calls, own>>

Others == Next /\ UNCHANGED pageVars

ConsoleInit ==
    /\ Init
    /\ page = FALSE
    /\ list = NewQuery
    /\ form = Nothing
    /\ confirm = Nothing
    /\ calls = [k \in Calls |-> Nothing]
    /\ own = 0

ConsoleSteps ==
    \/ \E aged \in BOOLEAN : OpenPage(aged) \/ Reconnect(aged)
    \/ LeavePage
    \/ Refresh
    \/ \E id \in RuleIds \cup {NewRule} : OpenForm(id)
    \/ CloseForm
    \/ \E body \in FormBodies : SubmitForm(body)
    \/ \E r \in RuleIds : Toggle(r) \/ AskDelete(r)
    \/ CloseConfirm
    \/ ConfirmDelete
    \/ \E k \in Calls : HandleCall(k) \/ CallFails(k) \/ Settle(k)
    \/ ServeFetch
    \/ DeliverFetch
    \/ FetchLost

ConsoleNext == ConsoleSteps \/ Others

ConsoleSafety == ConsoleInit /\ [][ConsoleNext]_consoleVars

\* The panel serves a fetch and the browser shows the answer sooner or later,
\* even if the user asks for another one now and then before it is there.
ConsoleSpec == /\ ConsoleSafety
               /\ SF_consoleVars(ServeFetch)
               /\ SF_consoleVars(DeliverFetch)

-----------------------------------------------------------------------------
(* Properties.                                                             *)

\* What the page holds has the shape the code gives it; a rule it shows was
\* one the panel could have.
ConsoleTypeOK ==
    /\ page \in BOOLEAN
    /\ list \in Query(Shown)
    /\ form \in RuleIds \cup {NewRule, Nothing}
    /\ confirm \in RuleIds \cup {Nothing}
    /\ calls \in [Calls -> Call \cup {Nothing}]
    /\ own \in Nat

ShownVersion == IF list.data = Nothing THEN 0 ELSE list.data.asOf

\* Once the user was told that a change is saved, the page never takes a list
\* without that change for a fresh one, though calls and fetches overlap in
\* any order (onSuccess and invalidate of RulesPage, staleTime of main.tsx).
\* It may take one for fresh if there was no list yet when the change was
\* saved, and if the user turned to another page in between.
FreshShowsOwnSaves == page /\ ~list.stale => ShownVersion >= own

\* After a change was saved the list is fetched until it holds that change,
\* the fetch fails, or the user turns away (invalidate of RulesPage).
SaveIsShown ==
    \A v \in 1..MaxVersion :
        (page /\ own >= v) ~> (~page \/ list.step = "failed" \/ ShownVersion >= v)

\* A toggle changes the rule as the user last saved it ("规则已停用", RulesPage.tsx:92).
\* It does not: while the list is fetched again after a save, the card still has
\* the old rule, all of which a toggle sends back.
TogglesKnowOwnSaves ==
    [][\A r \in RuleIds : Toggle(r) => ShownVersion >= own]_consoleVars

Copy == INSTANCE ReadYourWrites
          WITH latest <- data.ruleVersion, told <- own, shown <- ShownVersion

\* The list on the page never goes back in time, and every list shown after a
\* change was reported saved has that change in it (as long as the panel's
\* own saves do not fail and a restart cannot take its version back).
ConsoleReadsItsWrites == Copy!RYWSpec

=============================================================================
