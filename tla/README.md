# RelayCore: specifications, model checking, proofs

RelayCore forwards ports of many hosts from one place. Users edit forwarding
rules in a **web console** of a **Panel**; an **Agent** on each node fetches its
rules by heartbeat and loads them into nftables. In *strict* mode the Agent also
loads a guard table that drops everything but the forwarded ports and SSH, and
takes it back if the Panel does not confirm it in time.

This directory models the parts of that where order, failure and timing decide:
the Panel's store, the way a rule travels to a kernel and its traffic back to the
Panel, the guard with its rollback, the registration of nodes, the users, and
the console, which shows copies of all this and acts on them. `tlc -config X.cfg
M` runs a model, `tlapm M_proofs.tla` checks proofs; `PROJECT.json` lists the
runs, the code each definition stands for, the faulty variants each property was
tried on, findings and hazards.

1. [Inventory](#1-inventory)
2. [Modules](#2-modules)
3. [Runs](#3-runs)
4. [Proofs](#4-proofs)
5. [Findings and known limits](#5-findings-and-known-limits)
6. [Not modelled](#6-not-modelled)
7. [Plan](#7-plan)

## 1. Inventory

Paths are relative to `src/`; `store.go`, `server.go` are in `internal/panel`,
`agent.go`, `nft.go`, `config.go` in `internal/agent`, `*.tsx` and `*.ts` in
`frontend/src`.

### Panel

**Rule and node store** (`store.go`). State: `Store.data` (nodes, rules, the
global `RuleVersion`, counters, reports, histories, users, sessions, tokens,
nonces) in memory under one mutex, and its last JSON snapshot in SQLite.
Operations: `SaveRule`, `DeleteRule`, `RegisterNode`, `UpdateNodeSettings`,
`DeleteNode`, `UpdateHeartbeat`, `RulesForNode`, and a restart, which loads the
snapshot. Every handler changes memory, then writes the whole snapshot; when
that fails it returns an error but keeps the change in memory, and any later
save, of whatever handler, writes it. Hard: memory ahead of disk; late requests
(a PUT after the DELETE); rules that expire with no request at all; reports
from nodes that are versions behind. Correct when: no two rules in force on a
node claim one port on one transport; every rule has its node; whatever changes
for a node changes the version; a version names one set of rules.

**Firewall policy normalisation** (`store.go:762-810`, `nft.go:767-787`). Pure
functions, written twice. Correct when the Agent's leaves what the Panel's
returns as it is; otherwise the Agent would see a new policy at each heartbeat.

**Heartbeat handler** (`server.go:563-616`). No state of its own. It
authenticates the request, records it (`UpdateHeartbeat`, which returns version
and policy), and, *under a second lock*, selects the rules if the versions
differ. Hard: what other handlers do between the two locks; answers that are
lost after the request took effect.

**Heartbeat authentication** (`AcceptNonce`, `store.go:1213-1235`). State:
nonces with the time they were seen. Correct when no request is accepted twice:
a timestamp window of 5 minutes, a nonce kept for 15.

**Node tokens and registration** (`store.go:828-951`). State: one-use tokens and
the nodes made with them. A registration takes the lock twice, to use the token
up and to make the node. Hard: two agents with one token, an agent that repeats
a registration whose answer was lost, a record deleted in between, a save that
fails or a restart between the two. Correct when a token makes one node at most
and every node keeps the record of its token.

**Users, sessions, login** (`store.go:343-590`, `server.go:114-270, 618-632,
675-702`). State: users, roles, sessions, last TOTP counters, failed logins.
Hard: `requireAuth` copies the user and the handler acts on the copy; Login and
CreateSession are two steps. Correct when there is always a super administrator,
a disabled user has no session that works, a TOTP code works once.

**Traffic accounting** (`store.go:1091-1159`). State: the last counters and the
totals by rule and protocol. Hard: the kernel's counters start anew whenever a
table is loaded; heartbeats get lost or come late; a restart takes counters and
totals back together. Correct when a total is never more than what passed.

**Histories, diagnostics, trends, events** (`store.go:1118-1413, 1487-1974`).
Capped lists and reports for display.

**SQLite** (`sqlite.go`): one key-value table. **HTTP plumbing**
(`server.go`), **command line** (`cmd/relaycore-panel`), **cryptographic
helpers** (`internal/common`), **scripts and unit files** (`scripts/`, `deploy/`).

### Agent

**Heartbeat loop** (`agent.go`, `cmd/relaycore-agent/main.go`, `config.go`).
State: node id and secret, `RuleVersion`, firewall policy, all in memory and in
`agent.json`. `heartbeatOnce` sends what it has, takes the policy of the answer
(a new one resets the version to -1), and, if the version differs, runs
`Apply`, saves the version, sends a second *status* heartbeat and, when that is
answered, confirms the guard. Hard: each call may be lost before or after the
Panel handled it; Apply and SaveConfig may fail at any point; the process may
restart, the host reboot. Correct when equal versions mean equal rules, and
changes arrive.

**NFTManager and the rollback** (`nft.go`). State: the kernel's tables
`ip relaycore` and `inet relaycore_guard`; policy, last reports,
`rollbackCancel` under one mutex; a goroutine per armed timer. Hard: the
goroutine restores with several commands *after* it released the mutex; Apply
may arm a timer while one is pending; any command may fail; a crash loses the
timers but not the tables. Correct when an unconfirmed guard goes away by
itself, a rollback leads back to a guard that worked, and confirmation and
rollback exclude each other.

**Rendering** (`nft.go:335-437, 528-640`): pure functions to nftables text.
**FORWARD compatibility** (`nft.go:906-998`), **probes, counters, metrics**
(`probe.go`, `metrics.go`, `nft.go:234-310`), **rescue command**
(`nft.go:118-163`).

### Web console

A single-page application (React, TanStack Query). Nothing is pushed to it: a
page shows the last answer of a GET and asks again when it opens, when the user
presses refresh, after its own changes, and when the browser is online again.

**Query cache** (`main.tsx`, `api/client.ts`, `api/hooks.ts`). State per query:
data, whether it counts as stale, the fetch under way. Hard: invalidations while
a fetch is in flight, answers from before a change. Correct when a page never
goes back in time, nor shows as fresh a list without what the user saved.

**Rules page** (`pages/RulesPage.tsx`, `RuleForm`, `RuleCard`, `ConfirmDialog`),
**node tokens page** (`pages/TokensPage.tsx`), **users page**
(`pages/UsersPage.tsx`). State: the query, forms, dialogs, drafts of rows, the
mutations under way, which outlive the page. Hard: two mutations at once,
handled in any order; closing a form that was opened for something else since;
rows deleted by hand from the cache under a running fetch; drafts that start
from something other than the row.

**Signing in and out, routes, two-step verification** (`app/AuthContext.tsx`,
`app/App.tsx`, `components/Layout.tsx`, `LoginPage`, `SecurityPage`). State: who the
console takes to be signed in (the cached answer of `/api/me`), the address.
Hard: answers, logins and further logouts that were under way at a logout;
rights that change on an open page. Correct when a user signed out stays out,
nobody sees what was fetched for another, and title and page agree.

**Nodes page, dashboard, diagnostics, events**: show what a query holds; of
`NodeManager` the settings form matters, as it sends every field of a node.

### How they interact

    console: page ── mutation ──┐   ┌── GET ── query cache ──> page
                                v   v
    other users ── HTTP ──> Panel handlers ──> Store (one mutex) ──> SQLite snapshot
                              ^                  ^
                              │ heartbeat,       │ UpdateHeartbeat, then RulesForNode;
                              │ register         │ ConsumeNodeToken, then the node
                              │ (may be lost)    │
    agent.json <── heartbeatOnce ── Apply ──> nft commands ──> kernel tables
                              │ ConfirmReachable                     ^
                              └──> rollbackCancel <── timer goroutine┘ restore

## 2. Modules

| Module | Models | Proofs |
|---|---|---|
| `FirewallPolicy` | normalisation on both sides and the settings form, as functions of the raw policy | in `RuleSync_proofs` |
| `RuleStore` | the Panel's rules and nodes: one action per handler | in `RuleSync_proofs`, part one |
| `RuleSync` (extends `RuleStore`) | the heartbeat handler in two steps, one node's Agent, lost calls, restarts | `RuleSync_proofs`, part two |
| `StrictFirewall` | guard table, Apply command by command, rollback goroutines | `StrictFirewall_proofs` |
| `Traffic` | one rule's counters from the kernel to the totals | `Traffic_proofs` |
| `Registration` | tokens and nodes, a registration in two critical sections | in `TokenConsole_proofs` |
| `Accounts` | users; requests that act on a copied user | in `UserConsole_proofs` |
| `QueryCache` | one query of the console, as operators on a record | `QueryCache_proofs` |
| `ReadYourWrites` | abstract: what a page with a copy of data promises | refined by two consoles |
| `RuleConsole` (extends `RuleStore`, `QueryCache`) | the rules page beside the whole store | in `RuleLoop_proofs`, part one |
| `RuleLoop` (extends `RuleSync`, `RuleConsole`) | page, Panel and Agent at once, from the click to the kernel | `RuleLoop_proofs`, part two |
| `TokenConsole` (extends `Registration`, `QueryCache`) | the tokens page beside registrations | `TokenConsole_proofs` |
| `UserConsole` (extends `Accounts`, `QueryCache`) | the users page beside other administrators | `UserConsole_proofs` |
| `Session` (extends `QueryCache`) | signing in and out, routes, two-step verification | `Session_proofs` |
| `MC*` | the policies TLC uses, symmetry | |

A console module takes the Panel's module whole: the page's calls are the
Panel's actions with the page's bookkeeping, and one action `Others` is any step
of the Panel's own next-state relation, which stands for every other client. `RuleLoop` puts a
page and an Agent at one Panel: a step is one of the page's own
(`ConsoleSteps`) or one of `RuleSync`'s, and the store is all they share. That
either sees the other as one more client is not assumed but proved (section 4).

### RuleStore

`data` is `Store.data` as far as rules and nodes go, `disk` the snapshot,
`issued` the identifiers handed out, `now` the clock. A map of the code is a
function to a value or `Absent`. A rule keeps node, port, protocol, enabled,
expiry, version and last apply state: what a decision reads. Counters, totals,
reports and histories of a rule are one field, `history`: the node that last
wrote any of them; they are written and deleted together.

Each handler holds the mutex throughout and is one action, its `saveLocked`
included: `Save` writes `data'` or, with `SaveMayFail`, leaves `disk` as it was.
`SaveOther` is every handler that saves but changes no rule or node, such as a
login: it matters, because it brings an earlier failed save to disk. `Restart`
is the crash at any moment. Requests are drawn from all bodies that pass
`validateRule`; those that fail change nothing. `RenameKeepsPolicy` ties in the
console's settings form: sent with an edited name only, it changes no policy.

`MaxVersion` bounds the number of changes, `MaxTime` the clock; the theorems
hold for every value of them.

### RuleSync

Extends the store with the Agent of node `Self`; the other nodes remain
`UpdateHeartbeat`s of the store. `phase` is where `heartbeatOnce` or its HTTP
call is, `request` and `response` what is on the wire, `late` a request the
Agent has given up but the Panel may still see. `kernel` holds the rules that
the loaded table was rendered from, `skipped` those left out because the target
did not resolve. `HandleFirst` and `HandleSecond` are the two critical sections
of the handler; any action of the store may come between. `TakePolicy`,
`UpToDate`, `ApplyRules` or `ApplyFails`, `SaveVersion`, `SendStatus`,
`TakeStatus` are the statements of `heartbeatOnce` in order, split wherever
a restart or a failure makes a difference. `StartVersion` is what `main`
decides from flags and `agent.json`. A `HostReboot` is a restart that also
empties the kernel.

The abstract specification is `RuleStore`'s: `PanelIsRuleStore` says that every
step, seen from the store, is one of the store's own.

### StrictFirewall

`guard` is the kernel's table: `NoTable` or the set of guards whose chains it
holds, since `nft -f` of a listed table adds to one that exists. A guard is the
number of the Apply that loaded it. Each nft command is an action. While
`Locked`, Apply holds the mutex and no timer can take it; `RestoreDelete` and
`RestoreLoad` run without it, as in the code. `timer[g]` is the goroutine of
guard `g`, `saved[g]` the snapshot it captured. Two variables only observe:
`proven` (guards that stood while the Panel answered) and `confirmed` (guards
whose timer `ConfirmReachable` cancelled). Whether a heartbeat calls for Apply
is a free choice, bounded by the guards left.

### Traffic

One rule, all its protocols. `kernel` is the counters of the loaded table,
`wire` the heartbeats not handled yet (in any order, some of them given up),
`store` and `saved` the counters and totals in memory and in the snapshot.
`Recorded` is the loop of `UpdateHeartbeat` with `counterDelta`, `Apply` loads a
table with or without the rule, and `NFTManager.rules`, which decides whether
counters are sent at all, changes apart from it. Four variables only observe:
`passed` (the true traffic), the field `at` of heartbeats and stores (what had
passed when the counters were read), `anew` and `muddled` (section 5).

### Registration and TokenConsole

`ConsumeToken` and `WriteNode` are the halves of `RegisterNode`; `admits` holds
the token record read in the first half, which the second half writes back.
`origin` only observes: by which token each node was ever made. `TokenConsole`
adds the page: the list, form, install command and dialog, and the create and
delete calls, each `sent` and then `done` at the Panel before `onSuccess`
(`Created`, `Deleted`) runs, on the page that made it or after it. `gone` only
observes: the rows the user was told are deleted.

### Accounts and UserConsole

`Authenticate` copies the user into `requests`; `Handle` acts on the copy, any
time later. `KeepsLast` is the check of `UpdateUser` and counts under the same
lock as the change. `UserConsole` adds the page of administrator `Me`: the
table, `drafts` of rows, dialogs, and one of the three mutations at a time.
`DraftSoFar` is what `setDraft` starts a draft from, `DraftOf` what a row shows.
`changes`, the version of the list, only observes, as does `own`.

The run's module `MCUserConsole` has two kinds of behaviours, each with what its
question needs: as long as the page was never opened (`PanelAlone`) the Panel
handles two requests at once, with saves that fail and restarts from older
snapshots, through five changes; beside the page (`BesidePage`) there is one
other request, two changes, saves succeed, and a dialog is opened only over rows
that were not touched.

### QueryCache, ReadYourWrites and RuleConsole

A query is a record: `data`, `stale`, the `step` of its fetch and the answer on
the way. The library's part is external. As the console configures it (no
retries, no polling, fresh for 15 seconds): an invalidation marks a query stale
and, if a page uses it, drops a fetch in flight and starts a new one, *unless*
there is no data yet, when the first fetch goes on and its answer counts as
fresh; a failed fetch keeps the data; a page that opens fetches if there is no
data or it is stale or old, and so does an open page when the browser is online
again (`Reconnect`); `setQueryData` marks fresh and cancels nothing;
`clear` drops queries and fetches. Mutations run their `onSuccess` after the page
has gone, too.

`RuleConsole` has two mutations under way at once. A toggle sends the rule as
shown with `enabled` flipped, the form a body with no expiry date, as `RuleForm`
has no field for it. `own` only observes: the version of the last change this
page reported saved. So does `asOf` of a list, the Panel's rule version at the
moment `handleRules` read the rules (`ServeFetch`). The `rule_version` in its answer
is read last, under a lock of its own, and may be newer; the page never looks at it.

`ReadYourWrites` is the abstract specification: the copy never goes back, and a
new copy has every change the user was told of. `ConsoleReadsItsWrites` and
`UsersReadTheirWrites` state that the two pages implement it
(`INSTANCE ReadYourWrites WITH latest, told, shown`). What the page sends is another
matter: it may be older than that (section 5).

### RuleLoop

`ShownRulesRun`: if no rule was changed since the list on the page was read
(`asOf`), and the Agent has the version of that moment, the kernel holds the
rules on the page, without those that have expired or whose target did not
resolve. It is a statement about four copies (cache, memory, `agent.json`,
kernel). It is not one the user can check, as the page does not know `asOf`.

### Session

`me` is the query of `/api/me`, `list` one query of the pages, whose data is
known by whom it was fetched for; `cookie` and `live` are the session at browser
and Panel. `path` is the address: the route it matches, which for the router a
slash at its end or the case of its letters does not change, and whether it is
written exactly as the sidebar has it, which is what `Layout` compares. The
console may be opened at any address. `Render` is what `App` does after each
change of `me` or of the address: it redirects, and a page that opens may fetch.

`calls` holds the logins, logouts and changes of two-step verification under
way, each sent, handled by the Panel, and answered or lost; any number may be
(`Calls` bounds it), as no button waits for another's call and the logout button
not even for its own. `LogoutEnds` is the end of `onLogout`, whatever became of its
call: `ClearSession` empties the cache and `/api/me` is asked again, with the
cookie there is. `out` and `late` only observe: that the session was ended by a
logout, and that something reached the cache too late to be the present user's.

## 3. Runs

Sizes are distinct states. Each property of a passing run has been tried
on a faulty variant of the code (`PROJECT.json`, "mutants"; the variants stand
before the definitions they vary), which TLC refutes in the same run.

| Run | Module | Checks | Shows |
|---|---|---|---|
| `RuleStore` | `MCRuleStore` | `TypeOK`, `NoPortConflict`, `RulesHaveNodes`, `VersionNamesRules`, `RenameKeepsPolicy`, `ServedChangeCountsUp` | 258 000 states: two nodes, two rules, two protocols, one expiry date, three changes, saves that fail, restarts |
| `RuleSync` | `MCRuleSync` | `SameVersionSameRules`, `PanelIsRuleStore`, `RulesArrive` | 177 000 states: lost and late calls, failed Applies, expiry, restarts of both sides |
| `RuleSyncReboot` | `MCRuleSync` | `AgentTypeOK`, `SameVersionSameRules` | 322 000 states: strict flags, a second node that rules move to, reboots |
| `StrictFirewall` | `StrictFirewall` | `PendingIsArmed`, `UnprovenIsWatched`, `UnprovenGuardEnds` | 375 000 states: three guards, commands that fail |
| `StrictFirewallCrash` | `StrictFirewall` | `RollbackIsSafe`, `ConfirmedNotRolledBack` | 376 000 states: the same with crashes |
| `Traffic` | `MCTraffic` | `TrafficTypeOK`, `CountedOnce`, `NoneMissed` | 169 000 states: two protocols, three units of traffic each, three heartbeats lost or late, tables loaded anew, restarts, failed saves, a deletion |
| `RuleConsole` | `MCRuleConsole` | `ConsoleTypeOK`, `FreshShowsOwnSaves`, `SaveIsShown`, `ConsoleReadsItsWrites` | 312 000 states: two mutations under way beside every other client |
| `TokenConsole` | `MCTokenConsole` | `TokenTypeOK`, `OneNodePerToken`, `NodesAreRecorded`, `DeletedStayGone` | 84 000 states: the page beside two registrations, saves that fail |
| `UserConsole` | `MCUserConsole` | `UserTypeOK`, `SuperAdminKept`, `UsersReadTheirWrites` | 561 000 states: the page beside another administrator's request; the Panel alone with two requests, saves that fail, restarts |
| `Session` | `MCSession` | `SessionTypeOK`, `SignedOutStaysOut`, `OwnDataOnly`, `TitleIsPage` | 1 520 000 states: two users in one tab, two calls under way, four addresses |
| `HostReboot`, `DisableUser` | `MCRuleSync`, `UserConsole` | `RulesArrive`, `DisableOnlyDisables` | the two findings (section 5) |

**Bounds.** Two rules are what a conflict is between; two nodes let a rule move
and a node be deleted beside another; one port suffices, since conflicts compare
ports for equality only, and of the protocols `tcp` and `both`, as `udp` is to
`both` what `tcp` is. Three versions allow create, change, delete, or two
rules and a change to one, each with restarts between. `MaxTime = 1` with expiry
at 0 lets a rule expire once, at any point. In `RuleSync` one rule and two
versions allow a rule to be saved while its predecessor is being applied; the
mutants show that the bad interleavings occur. Three guards let a timer be
re-armed while an older rollback still restores. Three heartbeats let one be
late by two, and three units let a counter that started anew pass the one the
Panel knows. Two calls of the rules page overlap each other and a fetch, two
versions are one change each, of the page or of somebody else. One token is
what two registrations compete for; two nodes would be the two made. Two users
are who may take the right from one another: one creates the other as a super
administrator, the other demotes him, and his request, which came in before,
demotes the other. That is three changes; five let a restart take some back.
Two calls of `Session` are a second logout, or a login or an answer of the
security page beside a logout; its addresses are a page of everybody, one of
administrators in two spellings, and the security page. At the bounds the environment
has no changes left, which is also what makes "arrives at last" checkable:
within the bound, the change that is checked to arrive is the last one.

**Deadlock** is checked in every run: none of the systems stops, as a page can
always be opened or left, a Panel restarted, a heartbeat lost.

**SaveMayFail** is FALSE in the runs of `SameVersionSameRules` and `RuleConsole`. In `RuleSync` the property does not hold with
it: between the handler's two locks an edit may happen whose save fails; its
rules are sent under the older version, the Panel restarts and forgets the edit,
and the Agent keeps rules the Panel never had under an equal version. No
document speaks of a Panel whose disk fails, so it is a hazard in
`PROJECT.json`, not a finding. In `RuleConsole` a restart after a failed save
takes back what was shown before it.

**Fairness.** `FairSyncSpec`: weak fairness of the Agent's own steps (its ticker
runs, `http.Client` has a timeout) and strong fairness of the steps that
may fail any number of times: the handler, taking the answer, a successful Apply.
It says that calls, saves and Applies do not fail for ever. Without it the
system may just be broken, and nothing can arrive. Nothing is assumed of users.
`FairSpec` of `StrictFirewall`: the loop and every goroutine are scheduled, and
the status call is answered or times out. The Panel is *not* assumed to answer
ever. `ConsoleSpec`: strong fairness of a fetch being served and delivered, as a
user who presses refresh again and again replaces the fetch each time; that it
fails for good is allowed by `SaveIsShown`, since the console does not retry.

## 4. Proofs

For every value of the constants, from the assumptions the modules name
(`StoreConstants`, `AbsentIsNoRule`, `SyncConstants`, `GuardConstants`,
`TrafficConstants`, `RegistrationConstants`, `AccountConstants` and the like:
model values differ from data, policies and protocols are of the kinds listed).

**RuleSync_proofs, part one: the store.**
- `AgentKeepsPanelPolicy`: the Agent's normalisation leaves the Panel's as it is.
  `RenamesKeepPolicy`: so does the settings form.
- `TypeCorrect`: `TypeOK` is inductive.
- `PortConflictFree`: `NoPortConflict` is inductive given types, in three parts.
  A step that adds no rules and moves none keeps it; a step that stores one
  rule keeps it by `~PortConflict`; and time only shrinks what is in force.
  `disk'` is `disk` or `data'`, `data'` after a restart is `disk`.
- `RulesKeepNodes`: likewise, over `SaveRule`'s check and `DeleteNode`'s sweep.
- `VersionsNameRules`: `VersionNamesRules` alone is not inductive. `VersionInv` adds
  that the snapshot's version is never above memory's (so that a handler that
  counts up leaves the snapshot behind even if its save fails) and that every
  node of either was issued (so that a new node is not in the snapshot).
- `ChangesCountUp`: an action property, from the same invariant.

**RuleSync_proofs, part two: the Agent.** `SyncInv` is the types of both sides and that every rule in
a report, an answer or the store had its identifier issued; with it every step
is a step of `RuleStore` or leaves the store alone (`SyncRefinesStore`), so
`SyncKeepsStoreSafe` follows from the store's theorems. `ChangesAreNews` needs
`VersionsOnDisk`: no version that the Agent holds, has saved or is being told
is above the snapshot's, because an answer leaves only after the snapshot with its
version is written. A restart takes the Panel back to the snapshot, never below.

`EqualVersionsEqualRules` proves `SameVersionSameRules`, assuming that saves do
not fail and that a host that reboots has strict flags (finding `HostReboot`).
`EqualInv` says of each version the Agent holds (`AgentIsCurrent`), has saved
(`SavedIsCurrent`) or is being told (`AnswerIsCurrent`): if it is the Panel's,
so is what came with it. Every change of the Panel counts up and makes these
vacuous, as versions on the Agent's side never exceed the Panel's; whatever else
happens leaves rules and policy as they are or lets a rule expire, which `Runs`
allows for. The second lock of the handler may select rules that are newer
than its version, but then the version is no longer the Panel's. Two more
parts see to it that an answer without rules (versions were equal) is
never applied: `RequestIsOwn` and `RulesWereAsked`. `NothingAtZero` covers the
time before the first change.

**StrictFirewall_proofs.** `Inv` strengthens `PendingIsArmed`, `RollbackIsSafe`
and `ConfirmedNotRolledBack` by the bookkeeping of guard numbers and by
`ProvenWhileApplying`: from the Panel's answer until the next guard is loaded,
the table holds proven guards only, whatever rollbacks do to it meanwhile, and
so does the snapshot Apply takes. That is why re-arming a timer is safe. It
holds with failing commands and crashes: `PendingTellsTruth`, `RollbacksAreSafe`,
`ConfirmExcludesRollback`, and `TypeCorrect` for the type invariant.
`UnprovenWatched` assumes `~MayCrash`, as it must (section 5).

**Traffic_proofs.** `NoneCountedTwice`: the idea is that of any two readings of
a counter (the one the store has, those of heartbeats under way, the kernel's
now), the later one is at most the traffic in between above the earlier, where
"above" is `counterDelta`: `Leads`. `InOrder` says so of all pairs, in the order
of their heartbeats' numbers; each step adds a pair or drops one.
`TotalsAreExact`: until a table is loaded anew, every counter *is* the traffic
(`Exact`). `TrafficTypeCorrect`: in particular no difference is negative.

**TokenConsole_proofs.** `RegistrationInv`: a token that is being used or was
used by a node is spent in memory *and* in the snapshot (`TakenAreUsedUp`), as
the first half ends with an error unless it was saved; hence at most one
registration or node has it (`TakenOnce`). `OneTokenOneNode`, `NodesKeepRecords`.
`TokenInv` adds of each row the user was told is gone that neither the list nor
an answer on its way has it (`GoneFor`), because the deletion invalidates, which
drops the fetch: `DeletionsStay`. `TokenTypeCorrect`.

**UserConsole_proofs.** `SuperAdminStays`: a demotion counts under the lock that
it is made under, so copied rights do no harm. `UsersAreRead`, a refinement:
`VersionsInOrder` says that what was told and what is shown are at most the
version now and at least one another's predecessors. `UserTypeCorrect`.

That an *enabled* one is left holds while one request is handled at a time
(`EnabledOneLeft`, section 5). It needs `SendersAreCurrent`: a sender still has
the role he was looked up with. Whoever takes an enabled super administrator
away is then another one, and stays.

**RuleLoop_proofs, part one: the rules page.** `FreshIsFresh`: `OwnIsSaved` adds
to `FreshShowsOwnSaves` that an answer on its way has every change the user was
told, and that such a change is in the snapshot, below which no restart goes; so
it holds with failing saves. `RulesAreRead`, a refinement, assumes `~SaveMayFail`
and adds `ShownInOrder`. `ListsAreNamed`, which part two needs, says of the list
on the page and of the one on its way that they have the Panel's rules if none
changed since they were read: whatever changes a rule counts up
(`VersionOrRules`, from part one of `RuleSync_proofs`), and no version comes back
while saves succeed. `ConsoleTypeCorrect`.
`QueryCache_proofs` has the types of the cache's operators and what each leaves
of data, answer and staleness.

**RuleLoop_proofs, part two: the composition.** `LoopIsBoth`: every behaviour of
the three together is one of `RuleSync` and one of `RuleConsole`. A step of
the page is one that some client of the Panel may make (`ClientRequest`), and
a step of the handler, cut in two, is one of the store's. So all that is proved
of either holds of the whole (`LoopKeepsSafe`), and `ShownIsRun` proves
`ShownRulesRun`, under the assumptions of `EqualVersionsEqualRules`.

**Session_proofs.** `SessionInv` adds to the properties what they rest on.
`CacheIsOwn`: while nothing came late, whatever the tab holds or is about to
receive is of the user the cookie names, as a logout empties the cache and a
login finds it empty. `ChangesAreOwn` says so of the security page's calls.
`NothingComesBack`: after a logout that ended the session, no answer that names a
user is on its way, as `clear` drops what was and the Panel refuses what comes
after; this needs no assumption on the number of logouts. With `ItemsAreRoutes`
(sidebar and routes agree for every role) these give `SessionTypes`, `SignedOut`,
`DataOfTheUserShown`, `TitleNamesPage`, for every set of addresses and calls, and
the action property `UserStays`: nobody takes the place of who is signed in.

**Only model-checked.** Liveness (`RulesArrive`, `UnprovenGuardEnds`,
`SaveIsShown`), which is out of the prover's reach. Every invariant and every
action property of the runs is proved.

## 5. Findings and known limits

Two runs expect TLC to refute a sentence of the repository; `PROJECT.json`
quotes each.

- `HostReboot`: after a reboot in managed mode the versions are equal, so the
  kernel stays empty until somebody changes a rule (docs/ARCHITECTURE.md:21).
- `DisableUser`: ticking "disabled" in a row of the users page starts a draft
  from the role `user`, so saving it also takes an administrator his role
  (UsersPage.tsx:116).

The following does not hold either; where a sentence of the repository can be
read to promise it, its line is given. These are consequences of design choices
rather than slips. The configurations named come with the models and show
each case (`tlc -config LateAnswer.cfg StrictFirewall`).

- `NodeHistory.cfg` (`MCRuleStore`, `NodeHistoryRemoved`): a heartbeat that still
  reports a deleted rule brings its history back, and deleting the node later
  leaves it (docs/PROGRESS.md:44).
- `LateAnswer.cfg` (`StrictFirewall`, `RollbackOnlyUnproven`): only the status
  heartbeat confirms. If it is lost, the heartbeats after it reach the Panel and
  the guard is rolled back all the same (NodeManager.tsx:159).
- `SlowRollback.cfg` (`StrictFirewall`, `ConfirmedGuardStays`): a rollback that
  has released the mutex may delete a guard loaded and confirmed since
  (docs/NFTABLES.md:88).
- `CrashWhilePending.cfg` (`StrictFirewall`, `UnprovenGuardEnds`): an Agent that
  stops while a guard is unconfirmed leaves it standing with no timer
  (NodeManager.tsx:164).
- `EnabledSuperAdminLeft` (`Accounts`; docs/PROGRESS.md:56) holds while the Panel
  handles one request at a time, which `EnabledOneLeft` proves. With two, a super
  administrator whose request came in before he was disabled may still demote the
  one who did it: the last enabled one is counted on a change of `disabled` only.
- Traffic is counted twice when `nft` does not list the table (the Agent sends
  zeros, then the whole counter again), and when a heartbeat is handled after a
  later one; `muddled` marks the two, and the properties exclude them.
- An answer to the security page that comes after a logout is applied and shows
  the user as signed in (SecurityPage.tsx:16; `late` in `Session`).
- The logout button works while a logout is under way (Layout.tsx:24-27, 61). Its
  second call may fail after another user has submitted the login form: the cache
  is emptied, `/api/me` is asked with the old cookie, and its answer may come
  after that of the login and put the old user in the new one's place. `late`
  marks a login whose answer finds a user, or an answer about one, there already.
- At "/rules/" or "/Rules" the router shows the rules page, and the header the
  title of the first item, as Layout.tsx:22 compares exactly.
- `ToggleUndoes.cfg` (`MCRuleConsole`, `TogglesKnowOwnSaves`): a toggle sends the whole
  rule as the list has it. On a list that is being fetched again it undoes what
  the user saved a moment before, on an older one what others did. One that
  arrives after the deletion of its rule stores the rule again; an edit in the
  form ends the rule's expiry date, for which it has no field.

`RuleSyncSaveFails.cfg` (`MCRuleSync`, `SavedRulesAreNews`) is a configuration
that passes: what `ChangesAreNews` proves, on an instance with failing saves. So
is `RuleLoop.cfg` (`MCRuleLoop`, `ShownRulesRun`; 2 670 000 states, five minutes)
with one change, one call of the page and no failures. Two changes are beyond
TLC there, which is why the composition is proved rather than run.

## 6. Not modelled

Within the modelled parts: metrics, counters and probes in a heartbeat; the
order of port lists in flags (an unsorted list only makes the Agent ask for its
rules more often); a registration anew after the Panel forgot the node; dry-run
mode; the text of rulesets; a power failure that loses saves SQLite has
confirmed (`synchronous=NORMAL`), and restored backups; a torn write of
`agent.json`; a clock that is set back (an expired rule would be in force again).
Identifiers from `RandomID` never repeat. Of users: passwords, the limiter, TOTP
secrets and the time of sessions. Of the console: search, filters, groups,
drawers, toasts, other tabs, and more than one mutation of the users page at a
time.

Not modelled, and not worth a model: display (diagnostics, trends, dashboard,
events, traffic samples), plain I/O (metrics, probes, SQLite, HTTP), scripts and
cryptography; they hold no state that other parts decide on. Rendering is text,
and what it must not be given is stated where it is decided (`NoPortConflict`).
FORWARD compatibility adds and removes one rule of a foreign table and changes
nothing else. The nodes page's mutations follow the pattern of the tokens page.

## 7. Plan

Done, in this order: `FirewallPolicy`, `RuleStore`, `StrictFirewall`, `RuleSync`,
as the path of a rule and the guard are what the system is for;
`Registration`, `Accounts`, `Traffic`; the console's pages on top of them; the
proofs, and `RuleLoop`, which puts page and Agent together. What would add most
next:

1. `ReplayGuard` (store.go:1213-1235): clocks, windows, pruning, lost saves. To
   prove: a request is not accepted twice if twice the window is at most the
   time a nonce is kept and saves do not fail.
2. Sessions in `Accounts` (store.go:343-420): Login and CreateSession as two
   steps beside a password reset; TOTP counters.
3. `StrictFirewall` with the rescue command as a process of its own.
4. `Render` (nft.go:335-437, 528-640): the tables as sets and maps against a
   reference meaning of rules, with `NoPortConflict` as the precondition.
