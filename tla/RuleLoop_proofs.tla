--------------------------- MODULE RuleLoop_proofs ---------------------------
(***************************************************************************)
(* Theorems about RuleConsole, and about RuleLoop, where an agent runs     *)
(* beside it, for every value of their constants.                          *)
(***************************************************************************)
EXTENDS RuleLoop, RuleSync_proofs, QueryCache_proofs

(***************************************************************************)
(* Part one: the page.                                                     *)
(***************************************************************************)

-----------------------------------------------------------------------------
(* The versions of the panel.                                              *)

SnapshotBehind == disk.ruleVersion <= data.ruleVersion

\* A handler may count up, and the snapshot is what it was or what is in memory
\* now; or the panel restarts from the snapshot.
PanelVersions ==
    \/ /\ data'.ruleVersion \in {data.ruleVersion, data.ruleVersion + 1}
       /\ disk' = data' \/ (disk' = disk /\ (SaveMayFail \/ data' = data))
    \/ data' = disk /\ disk' = disk

LEMMA VersionsGrow ==
    ASSUME TypeOK, [Next]_vars
    PROVE  PanelVersions
<1> USE DEF PanelVersions
<1>0. data \in Data /\ NextVersion = data.ruleVersion + 1
  BY DEF TypeOK, NextVersion
<1>1. ASSUME Save, data'.ruleVersion \in {data.ruleVersion, data.ruleVersion + 1}
      PROVE  PanelVersions
  BY <1>1 DEF Save
<1>2. ASSUME NEW id \in RuleIds, NEW rule, StoreRule(id, rule)
      PROVE  PanelVersions
  BY <1>0, <1>1, <1>2 DEF StoreRule, Data
<1>3. ASSUME NEW id \in RuleIds, DeleteRule(id)
      PROVE  PanelVersions
  BY <1>0, <1>1, <1>3 DEF DeleteRule, Data
<1>4. ASSUME NEW n \in NodeIds, NEW raw \in RawPolicies, RegisterNode(n, raw)
      PROVE  PanelVersions
  BY <1>0, <1>1, <1>4 DEF RegisterNode, Data
<1>5. ASSUME NEW n \in NodeIds, NEW raw \in RawPolicies, UpdateNodeSettings(n, raw)
      PROVE  PanelVersions
  BY <1>0, <1>1, <1>5, SettingsStep DEF UpdateNodeSettings
<1>6. ASSUME NEW n \in NodeIds, DeleteNode(n)
      PROVE  PanelVersions
  BY <1>0, <1>1, <1>6 DEF DeleteNode, Data
<1>7. ASSUME NEW n \in NodeIds, NEW states \in Reports, UpdateHeartbeat(n, states)
      PROVE  PanelVersions
  BY <1>0, <1>1, <1>7 DEF UpdateHeartbeat, RecordReports, Data
<1>8. CASE SaveOther
  BY <1>1, <1>8 DEF SaveOther
<1>9. CASE Restart \/ Tick \/ UNCHANGED vars
  BY <1>9 DEF Restart, Tick, vars
<1>10. ASSUME NEW id \in RuleIds, NEW body \in Body, NEW state \in ApplyStates,
              CreateRule(id, body) \/ EditRule(id, body) \/ RecreateRule(id, body, state)
       PROVE  PanelVersions
  BY <1>2, <1>10, Zenon DEF CreateRule, EditRule, RecreateRule
<1>11. "pending" \in ApplyStates
  BY DEF ApplyStates
<1> QED
  BY <1>3, <1>4, <1>5, <1>6, <1>7, <1>8, <1>9, <1>10, <1>11 DEF Next

-----------------------------------------------------------------------------
(* Types.                                                                  *)

\* What a mutation carries is fit for its kind.
Fits(c) ==
    /\ c.kind = "delete" => c.id \in RuleIds
    /\ c.kind # "delete" => c.body \in Body

CallsFit == \A k \in Calls : calls[k] # Nothing => Fits(calls[k])

LEMMA LeftCall ==
    ASSUME NEW c \in Call
    PROVE  /\ [c EXCEPT !.here = FALSE] \in Call
           /\ [c EXCEPT !.here = FALSE].kind = c.kind
           /\ [c EXCEPT !.here = FALSE].id = c.id
           /\ [c EXCEPT !.here = FALSE].body = c.body
           /\ [c EXCEPT !.here = FALSE].step = c.step
           /\ [c EXCEPT !.here = FALSE].version = c.version
  BY DEF Call

\* A mutation that is sent.
LEMMA NewCalls ==
    ASSUME ConsoleTypeOK,
           NEW kind \in {"save", "toggle", "delete"},
           NEW id \in RuleIds \cup {NewRule},
           NEW body \in Body \cup {Nothing},
           NEW state \in ApplyStates,
           Mutate(kind, id, body, state)
    PROVE  \E k \in Calls, c \in Call :
              /\ calls' = [calls EXCEPT ![k] = c]
              /\ c.kind = kind /\ c.id = id /\ c.body = body /\ c.step = "sent"
<1>1. PICK k \in Calls :
         calls' = [calls EXCEPT ![k] =
                     [kind |-> kind, id |-> id, body |-> body, state |-> state,
                      step |-> "sent", version |-> 0, here |-> TRUE]]
  BY DEF Mutate
<1> DEFINE c == [kind |-> kind, id |-> id, body |-> body, state |-> state,
                 step |-> "sent", version |-> 0, here |-> TRUE]
<1>2. c \in Call
  BY DEF Call
<1>3. c.kind = kind /\ c.id = id /\ c.body = body /\ c.step = "sent"
  OBVIOUS
<1> HIDE DEF c
<1> QED
  BY <1>1, <1>2, <1>3 DEF c

LEMMA ShownRules ==
    ASSUME ConsoleTypeOK, NEW r \in Listed
    PROVE  /\ r \in RuleIds /\ list.data.rules[r] \in Rule
           /\ BodyOf(list.data.rules[r]) \in Body
           /\ list.data.rules[r].state \in ApplyStates
<1>1. r \in RuleIds /\ list.data # Nothing /\ list.data.rules[r] # Absent
  BY DEF Listed, Has
<1>2. list.data.rules \in [RuleIds -> Rule \cup {Absent}]
  BY <1>1 DEF ConsoleTypeOK, Query, Shown
<1>3. list.data.rules[r] \in Rule
  BY <1>1, <1>2
<1> QED
  BY <1>1, <1>3 DEF BodyOf, Rule, Body

\* The three ways to send one
Sends == \/ \E body \in FormBodies : SubmitForm(body)
         \/ \E r \in RuleIds : Toggle(r)
         \/ ConfirmDelete

LEMMA SentCalls ==
    ASSUME ConsoleTypeOK, Sends
    PROVE  /\ \E k \in Calls, c \in Call :
                 calls' = [calls EXCEPT ![k] = c] /\ Fits(c) /\ c.step = "sent"
           /\ UNCHANGED <<vars, page, list, form, confirm, own>>
<1>0. "pending" \in ApplyStates
  BY DEF ApplyStates
<1>1. ASSUME NEW body \in FormBodies, SubmitForm(body)
      PROVE  \E k \in Calls, c \in Call :
                 calls' = [calls EXCEPT ![k] = c] /\ Fits(c) /\ c.step = "sent"
  <2>1. body \in Body /\ form \in RuleIds \cup {NewRule}
    BY <1>1 DEF FormBodies, SubmitForm, ConsoleTypeOK
  <2>2. Mutate("save", form, body, "pending")
    BY <1>1 DEF SubmitForm
  <2> QED
    BY <1>0, <2>1, <2>2, NewCalls DEF Fits
<1>2. ASSUME NEW r \in RuleIds, Toggle(r)
      PROVE  \E k \in Calls, c \in Call :
                 calls' = [calls EXCEPT ![k] = c] /\ Fits(c) /\ c.step = "sent"
  <2> DEFINE rule == list.data.rules[r]
             body == [BodyOf(rule) EXCEPT !.enabled = ~rule.enabled]
  <2>1. r \in Listed /\ Mutate("toggle", r, body, rule.state)
    BY <1>2 DEF Toggle
  <2>2. body \in Body /\ rule.state \in ApplyStates
    <3>1. BodyOf(rule) \in Body /\ rule.state \in ApplyStates
      BY <2>1, ShownRules
    <3> QED
      BY <3>1 DEF Body
  <2> HIDE DEF body
  <2> QED
    BY <2>1, <2>2, NewCalls DEF Fits
<1>3. ASSUME ConfirmDelete
      PROVE  \E k \in Calls, c \in Call :
                 calls' = [calls EXCEPT ![k] = c] /\ Fits(c) /\ c.step = "sent"
  <2>1. confirm \in RuleIds /\ Mutate("delete", confirm, Nothing, "pending")
    BY <1>3 DEF ConfirmDelete, Listed
  <2> QED
    BY <1>0, <2>1, NewCalls DEF Fits
<1>4. UNCHANGED <<vars, page, list, form, confirm, own>>
  BY DEF Sends, SubmitForm, Toggle, ConfirmDelete
<1> QED
  BY <1>1, <1>2, <1>3, <1>4 DEF Sends

\* What any client may have the panel do to the rules
ClientRequest ==
    \/ \E id \in RuleIds, body \in Body :
          \/ CreateRule(id, body)
          \/ EditRule(id, body)
          \/ \E state \in ApplyStates : RecreateRule(id, body, state)
    \/ \E id \in RuleIds : DeleteRule(id)

\* The panel does for the page what it does for any other client.
LEMMA PageStepsThePanel ==
    ASSUME ConsoleTypeOK, CallsFit, ConsoleSteps
    PROVE  ClientRequest \/ UNCHANGED vars
<1>1. ASSUME NEW k \in Calls, HandleCall(k)
      PROVE  ClientRequest
  <2>1. calls[k] \in Call /\ Fits(calls[k]) /\ Request(calls[k])
    BY <1>1 DEF HandleCall, ConsoleTypeOK, CallsFit
  <2> DEFINE c == calls[k]
  <2>2. c.kind \in {"save", "toggle", "delete"} /\ c.id \in RuleIds \cup {NewRule} /\ c.state \in ApplyStates
    BY <2>1 DEF Call
  <2>3. CASE c.kind = "delete"
    <3>1. DeleteRule(c.id) /\ c.id \in RuleIds
      BY <2>1, <2>3 DEF Request, Fits
    <3> QED
      BY <3>1 DEF ClientRequest
  <2>4. CASE c.kind # "delete" /\ c.id = NewRule
    <3>1. c.body \in Body /\ \E id \in RuleIds : CreateRule(id, c.body)
      BY <2>1, <2>4 DEF Request, Fits
    <3> QED
      BY <3>1 DEF ClientRequest
  <2>5. CASE c.kind # "delete" /\ c.id # NewRule
    <3>1. c.body \in Body /\ c.id \in RuleIds
      BY <2>1, <2>2, <2>5 DEF Fits
    <3>2. EditRule(c.id, c.body) \/ RecreateRule(c.id, c.body, c.state)
      BY <2>1, <2>5 DEF Request
    <3> QED
      BY <2>2, <3>1, <3>2 DEF ClientRequest
  <2> QED
    BY <2>3, <2>4, <2>5
<1>2. ASSUME \A k \in Calls : ~HandleCall(k)
      PROVE  UNCHANGED vars
  BY <1>2 DEF ConsoleSteps, OpenPage, Reconnect, LeavePage, Refresh, OpenForm, CloseForm,
              SubmitForm, Toggle,
              AskDelete, CloseConfirm, ConfirmDelete, CallFails, Settle, ServeFetch, DeliverFetch,
              FetchLost, vars
<1> QED
  BY <1>1, <1>2

LEMMA ConsoleStepsStore ==
    ASSUME ConsoleTypeOK, CallsFit, [ConsoleNext]_consoleVars
    PROVE  [Next]_vars
<1>1. CASE ConsoleSteps
  BY <1>1, PageStepsThePanel DEF ClientRequest, Next
<1>2. CASE Others
  BY <1>2 DEF Others
<1>3. CASE UNCHANGED consoleVars
  BY <1>3 DEF consoleVars
<1> QED
  BY <1>1, <1>2, <1>3 DEF ConsoleNext

LEMMA LeftCalls ==
    ASSUME calls \in [Calls -> Call \cup {Nothing}], LeavePage, NEW k \in Calls
    PROVE  \/ calls[k] = Nothing /\ calls'[k] = Nothing
           \/ /\ calls[k] \in Call \ {Nothing} /\ calls'[k] \in Call
              /\ calls'[k].kind = calls[k].kind
              /\ calls'[k].id = calls[k].id
              /\ calls'[k].body = calls[k].body
              /\ calls'[k].step = calls[k].step
              /\ calls'[k].version = calls[k].version
<1>1. CASE calls[k] = Nothing
  BY <1>1 DEF LeavePage
<1>2. CASE calls[k] \in Call /\ calls[k] # Nothing
  <2>1. calls'[k] = [calls[k] EXCEPT !.here = FALSE]
    BY <1>2 DEF LeavePage
  <2> QED
    BY <1>2, <2>1, LeftCall, Zenon
<1> QED
  BY <1>1, <1>2

\* The panel's answer to call b makes it call c.
Answers(b, c) ==
    /\ c.kind = b.kind
    /\ c.id = b.id
    /\ c.body = b.body
    /\ c.step = "answered" => disk' = data' /\ c.version = data'.ruleVersion

LEMMA HandledCalls ==
    ASSUME calls \in [Calls -> Call \cup {Nothing}], data'.ruleVersion \in Nat,
           NEW k \in Calls, HandleCall(k)
    PROVE  \E c \in Call : calls' = [calls EXCEPT ![k] = c] /\ Answers(calls[k], c)
<1> DEFINE step == IF disk' = data' THEN "answered" ELSE "refused"
           v == data'.ruleVersion
           c == [calls[k] EXCEPT !.step = step, !.version = v]
<1>1. calls[k] \in Call
  BY DEF HandleCall
<1>2. step \in {"sent", "answered", "refused"} /\ v \in Nat
  OBVIOUS
<1>3. calls' = [calls EXCEPT ![k] = c]
  BY <1>1 DEF HandleCall
<1> HIDE DEF step, v
<1>4. /\ c \in Call /\ c.kind = calls[k].kind /\ c.id = calls[k].id /\ c.body = calls[k].body
      /\ c.step = step /\ c.version = v
  BY <1>1, <1>2 DEF Call
<1>5. step = "answered" => disk' = data'
  BY DEF step
<1> HIDE DEF c
<1> QED
  BY <1>3, <1>4, <1>5 DEF v, Answers

LEMMA ConsoleTypeStep ==
    ASSUME TypeOK, TypeOK', ConsoleTypeOK, CallsFit, [ConsoleNext]_consoleVars
    PROVE  ConsoleTypeOK' /\ CallsFit'
<1> DEFINE Goal == ConsoleTypeOK' /\ CallsFit'
<1> USE DEF ConsoleTypeOK, CallsFit
<1>1. ASSUME page' \in BOOLEAN, list' \in Query(Shown),
             form' \in {form, Nothing} \cup RuleIds \cup {NewRule},
             confirm' \in {confirm, Nothing} \cup RuleIds,
             own' \in Nat, calls' = calls
      PROVE  Goal
  BY <1>1
<1>2. ASSUME NEW aged \in BOOLEAN, OpenPage(aged) \/ Reconnect(aged)
      PROVE  Goal
  BY <1>1, <1>2, QueryTypes DEF OpenPage, Reconnect
<1>3. CASE LeavePage
  <2>1. \A k \in Calls : /\ calls'[k] \in Call \cup {Nothing}
                         /\ calls'[k] # Nothing => Fits(calls'[k])
    <3>1. ASSUME NEW k \in Calls
          PROVE  calls'[k] \in Call \cup {Nothing} /\ (calls'[k] # Nothing => Fits(calls'[k]))
      <4>1. CASE calls'[k] = Nothing
        BY <4>1
      <4>2. CASE /\ calls[k] \in Call \ {Nothing} /\ calls'[k] \in Call
                 /\ calls'[k].kind = calls[k].kind
                 /\ calls'[k].id = calls[k].id
                 /\ calls'[k].body = calls[k].body
        BY <4>2 DEF Fits
      <4> QED
        BY <1>3, <4>1, <4>2, LeftCalls
    <3> QED
      BY <3>1
  <2>2. calls' = [k \in Calls |-> IF calls[k] = Nothing THEN Nothing
                                  ELSE [calls[k] EXCEPT !.here = FALSE]]
    BY <1>3 DEF LeavePage
  <2>3. calls' \in [Calls -> Call \cup {Nothing}]
    BY <2>1, <2>2
  <2> QED
    BY <1>3, <2>1, <2>3 DEF LeavePage
<1>4. CASE Refresh
  BY <1>1, <1>4, QueryTypes DEF Refresh
<1>5. ASSUME NEW id \in RuleIds \cup {NewRule}, OpenForm(id)
      PROVE  Goal
  BY <1>5 DEF OpenForm
<1>6. CASE CloseForm \/ CloseConfirm
  BY <1>6 DEF CloseForm, CloseConfirm
<1>7. ASSUME NEW r \in RuleIds, AskDelete(r)
      PROVE  Goal
  BY <1>7 DEF AskDelete
<1>8. CASE Sends
  BY <1>8, SentCalls DEF Fits
<1>9. ASSUME NEW k \in Calls, HandleCall(k)
      PROVE  Goal
  <2>1. data'.ruleVersion \in Nat /\ calls \in [Calls -> Call \cup {Nothing}]
    BY Fields DEF TypeOK
  <2>2. PICK c \in Call : calls' = [calls EXCEPT ![k] = c] /\ Answers(calls[k], c)
    BY <1>9, <2>1, HandledCalls
  <2>3. calls[k] # Nothing
    BY <1>9 DEF HandleCall
  <2> QED
    BY <1>9, <2>2, <2>3 DEF HandleCall, Fits, Answers
<1>10. ASSUME NEW k \in Calls, CallFails(k)
       PROVE  Goal
  BY <1>10 DEF CallFails, Fits
<1>11. ASSUME NEW k \in Calls, Settle(k)
       PROVE  Goal
  <2>1. calls[k] # Nothing /\ calls[k].version \in Nat
    BY <1>11 DEF Settle, Call
  <2>2. own' \in Nat
    BY <1>11, <2>1 DEF Settle, OnSuccess, Told, Later
  <2>3. list' \in Query(Shown)
    BY <1>11, QueryTypes DEF Settle, OnSuccess
  <2>4. calls' \in [Calls -> Call \cup {Nothing}] /\ CallsFit'
    BY <1>11 DEF Settle, Fits
  <2>5. form' \in {form, Nothing} /\ confirm' \in {confirm, Nothing} /\ page' = page
    BY <1>11 DEF Settle, OnSuccess
  <2> QED
    BY <2>2, <2>3, <2>4, <2>5
<1>12. CASE ServeFetch
  <2>1. [rules |-> data.rules, asOf |-> data.ruleVersion] \in Shown
    BY Fields DEF TypeOK, Shown, RuleMap
  <2> QED
    BY <1>1, <1>12, <2>1, QueryTypes DEF ServeFetch
<1>13. CASE DeliverFetch
  BY <1>1, <1>13, QueryTypes DEF DeliverFetch
<1>14. CASE FetchLost
  BY <1>1, <1>14, QueryTypes DEF FetchLost
<1>15. CASE Others \/ UNCHANGED consoleVars
  BY <1>15 DEF Others, consoleVars, pageVars
<1> QED
  BY <1>2, <1>3, <1>4, <1>5, <1>6, <1>7, <1>8, <1>9, <1>10, <1>11, <1>12, <1>13, <1>14, <1>15
  DEF ConsoleNext, ConsoleSteps, Sends

-----------------------------------------------------------------------------
(* What the user was told is in the snapshot, and in every answer that is  *)
(* on its way.                                                             *)

OwnIsSaved ==
    /\ SnapshotBehind
    /\ own <= disk.ruleVersion
    /\ ~page => own = 0
    /\ \A k \in Calls : calls[k] # Nothing /\ calls[k].step = "answered" =>
                          calls[k].version <= disk.ruleVersion
    /\ list.step = "answered" => list.answer # Nothing /\ list.answer.asOf >= own
    /\ FreshShowsOwnSaves

\* Without failing saves the versions only go up, on the page too.
ShownInOrder ==
    /\ data = disk
    /\ ShownVersion <= data.ruleVersion
    /\ list.step = "answered" => /\ list.answer.asOf >= ShownVersion
                                 /\ list.answer.asOf <= data.ruleVersion

\* A list stands for the rules of its version, on its way and on the page.
IsCurrent(l) == \A r \in RuleIds : Wire(l.rules[r]) = Wire(data.rules[r])

ListsAreNamed ==
    /\ list.data # Nothing /\ list.data.asOf = data.ruleVersion => IsCurrent(list.data)
    /\ list.step = "answered" /\ list.answer.asOf = data.ruleVersion => IsCurrent(list.answer)

ConsoleInv ==
    /\ TypeOK
    /\ ConsoleTypeOK
    /\ CallsFit
    /\ OwnIsSaved
    /\ ~SaveMayFail => ShownInOrder /\ ListsAreNamed

LEMMA ConsoleStart == ConsoleInit => ConsoleInv
<1> SUFFICES ASSUME ConsoleInit
             PROVE  ConsoleInv
  OBVIOUS
<1>1. TypeOK
  BY DEF ConsoleInit, Init, TypeOK, EmptyData, Data
<1>2. ConsoleTypeOK /\ CallsFit
  BY NewQueryType DEF ConsoleInit, ConsoleTypeOK, CallsFit
<1>3. data = disk /\ data.ruleVersion = 0
  BY DEF ConsoleInit, Init, EmptyData
<1>4. own = 0 /\ ~page /\ list.step = "idle" /\ list.data = Nothing /\ \A k \in Calls : calls[k] = Nothing
  BY DEF ConsoleInit, NewQuery
<1> QED
  BY <1>1, <1>2, <1>3, <1>4
  DEF ConsoleInv, OwnIsSaved, SnapshotBehind, ShownInOrder, FreshShowsOwnSaves, ShownVersion,
      ListsAreNamed

LEMMA PanelTypes ==
    ASSUME TypeOK, TypeOK'
    PROVE  /\ data.ruleVersion \in Nat /\ disk.ruleVersion \in Nat
           /\ data'.ruleVersion \in Nat /\ disk'.ruleVersion \in Nat
  BY Fields DEF TypeOK

LEMMA OrderStep ==
    ASSUME ConsoleInv, TypeOK', PanelVersions, [ConsoleNext]_consoleVars
    PROVE  /\ OwnIsSaved'
           /\ ~SaveMayFail => ShownInOrder' /\ [Copy!RYWNext]_(Copy!rywVars)
<1> DEFINE Goal == /\ OwnIsSaved'
                   /\ ~SaveMayFail => ShownInOrder' /\ [Copy!RYWNext]_(Copy!rywVars)
<1> USE DEF ShownVersion, FreshShowsOwnSaves, SnapshotBehind
<1>1. /\ list \in Query(Shown) /\ page \in BOOLEAN /\ own \in Nat
      /\ calls \in [Calls -> Call \cup {Nothing}]
      /\ data.ruleVersion \in Nat /\ disk.ruleVersion \in Nat
      /\ data'.ruleVersion \in Nat /\ disk'.ruleVersion \in Nat
      /\ OwnIsSaved
      /\ ~SaveMayFail => ShownInOrder
  BY PanelTypes DEF ConsoleInv, ConsoleTypeOK
<1>2. /\ ShownVersion \in Nat
      /\ list.answer # Nothing => list.answer.asOf \in Nat
      /\ \A k \in Calls : calls[k] # Nothing => calls[k].version \in Nat
  BY <1>1 DEF Query, Shown, Call
\* Memory and the snapshot move on together.
<1>3. /\ disk'.ruleVersion <= data'.ruleVersion
      /\ disk.ruleVersion <= disk'.ruleVersion
      /\ ~SaveMayFail => data' = disk' /\ data.ruleVersion <= data'.ruleVersion
  BY <1>1 DEF PanelVersions, OwnIsSaved, ShownInOrder
\* The panel works, and a call is sent, handled or fails.
<1>4. ASSUME UNCHANGED <<page, list, own>>,
             \A k \in Calls : calls'[k] # Nothing /\ calls'[k].step = "answered" =>
                \/ /\ calls[k] # Nothing /\ calls[k].step = "answered"
                   /\ calls'[k].version = calls[k].version
                \/ calls'[k].version <= disk'.ruleVersion
      PROVE  Goal
  <2>1. \A k \in Calls : calls'[k] # Nothing /\ calls'[k].step = "answered" =>
                          calls'[k].version <= disk'.ruleVersion
    BY <1>1, <1>2, <1>3, <1>4 DEF OwnIsSaved
  <2>2. OwnIsSaved'
    BY <1>1, <1>3, <1>4, <2>1 DEF OwnIsSaved
  <2>3. ASSUME ~SaveMayFail
        PROVE  ShownInOrder' /\ [Copy!RYWNext]_(Copy!rywVars)
    <3>1. ShownVersion' = ShownVersion /\ own' = own
      BY <1>4
    <3>2. ShownInOrder'
      <4>1. data' = disk' /\ data.ruleVersion <= data'.ruleVersion /\ list' = list
        BY <1>3, <1>4, <2>3
      <4>2. /\ ShownVersion <= data.ruleVersion
            /\ list.step = "answered" => /\ list.answer.asOf >= ShownVersion
                                         /\ list.answer.asOf <= data.ruleVersion
                                         /\ list.answer.asOf \in Nat
        BY <1>1, <1>2, <2>3 DEF ShownInOrder, OwnIsSaved
      <4>3. ShownVersion' <= data'.ruleVersion
        BY <1>1, <1>2, <3>1, <4>1, <4>2
      <4>4. list'.step = "answered" => /\ list'.answer.asOf >= ShownVersion'
                                      /\ list'.answer.asOf <= data'.ruleVersion
        BY <1>1, <3>1, <4>1, <4>2
      <4> QED
        BY <4>1, <4>3, <4>4 DEF ShownInOrder
    <3>3. CASE data'.ruleVersion = data.ruleVersion
      BY <3>1, <3>2, <3>3 DEF Copy!rywVars
    <3>4. CASE data'.ruleVersion > data.ruleVersion
      BY <1>1, <3>1, <3>2, <3>4 DEF Copy!RYWNext, Copy!Change
    <3> QED
      BY <1>1, <1>3, <2>3, <3>2, <3>3, <3>4
  <2> QED
    BY <2>2, <2>3
\* A fetch starts, goes on, or ends without an answer.
<1>5. ASSUME UNCHANGED <<vars, own, calls>>, list'.data = list.data,
             list'.step = "answered" => list.step = "answered" /\ list'.answer = list.answer,
             page' /\ ~list'.stale => own = 0 \/ (page /\ ~list.stale),
             page => page'
      PROVE  Goal
  BY <1>1, <1>2, <1>3, <1>5 DEF vars, OwnIsSaved, ShownInOrder, Copy!rywVars
<1>6. ASSUME NEW aged \in BOOLEAN, OpenPage(aged)
      PROVE  Goal
  <2>1. UNCHANGED <<vars, own, calls>> /\ list' = Mount(list, aged) /\ ~page
    BY <1>6 DEF OpenPage
  <2>2. own = 0
    BY <1>1, <2>1 DEF OwnIsSaved
  <2> QED
    BY <1>1, <1>5, <2>1, <2>2, QueryKeepsData
<1>7. CASE LeavePage
  <2>1. UNCHANGED <<vars, list>> /\ own' = 0 /\ ~page'
    BY <1>7 DEF LeavePage
  <2>2. \A k \in Calls : calls'[k] # Nothing /\ calls'[k].step = "answered" =>
                          calls'[k].version <= disk.ruleVersion
    <3>1. ASSUME NEW k \in Calls, calls'[k] # Nothing, calls'[k].step = "answered"
          PROVE  calls'[k].version <= disk.ruleVersion
      <4>1. /\ calls[k] # Nothing
            /\ calls'[k].step = calls[k].step /\ calls'[k].version = calls[k].version
        BY <1>1, <1>7, <3>1, LeftCalls
      <4> QED
        BY <1>1, <3>1, <4>1 DEF OwnIsSaved
    <3> QED
      BY <3>1
  <2>3. OwnIsSaved'
    BY <1>1, <1>2, <2>1, <2>2 DEF OwnIsSaved, vars
  <2> QED
    BY <1>1, <2>1, <2>3 DEF vars, ShownInOrder, Copy!rywVars, Copy!RYWNext, Copy!Forget
<1>8. CASE Refresh
  <2>1. UNCHANGED <<vars, page, own, calls>> /\ list' = Invalidate(list, page)
    BY <1>8 DEF Refresh
  <2> QED
    BY <1>1, <1>5, <2>1, QueryKeepsData
<1>9. CASE Sends
  <2>1. PICK k \in Calls, c \in Call : calls' = [calls EXCEPT ![k] = c] /\ c.step = "sent"
    BY <1>9, SentCalls DEF ConsoleInv
  <2>2. UNCHANGED <<page, list, own>>
    BY <1>9, SentCalls DEF ConsoleInv
  <2> QED
    BY <1>1, <1>4, <2>1, <2>2
<1>10. ASSUME NEW k \in Calls, HandleCall(k)
       PROVE  Goal
  <2>1. PICK c \in Call : calls' = [calls EXCEPT ![k] = c] /\ Answers(calls[k], c)
    BY <1>1, <1>10, HandledCalls
  <2>2. c.step = "answered" => c.version <= disk'.ruleVersion
    BY <1>1, <2>1 DEF Answers
  <2>3. UNCHANGED <<page, list, own>>
    BY <1>10 DEF HandleCall
  <2> QED
    BY <1>1, <1>4, <2>1, <2>2, <2>3
<1>11. ASSUME NEW k \in Calls, CallFails(k)
       PROVE  Goal
  BY <1>1, <1>4, <1>11 DEF CallFails
<1>12. ASSUME NEW k \in Calls, Settle(k)
       PROVE  Goal
  <2>1. /\ UNCHANGED <<vars, page>> /\ list' = Invalidate(list, page)
        /\ calls[k] # Nothing /\ calls[k].step = "answered"
        /\ calls' = [calls EXCEPT ![k] = Nothing]
        /\ own' = Told(calls[k].version)
    BY <1>12 DEF Settle, OnSuccess
  <2>2. /\ list'.data = list.data /\ list'.stale
        /\ page /\ list.data # Nothing => list'.step = "sent"
        /\ list'.step = "answered" => list.step = "answered" /\ list'.answer = list.answer
    BY <1>1, <2>1, QueryKeepsData
  <2>3. /\ own' \in {own, calls[k].version} /\ own <= own'
        /\ own' # own => page /\ list.data # Nothing
    BY <1>1, <1>2, <2>1 DEF Told, Later
  <2>4. own' <= disk.ruleVersion
    BY <1>1, <2>1, <2>3 DEF OwnIsSaved
  <2>5. OwnIsSaved'
    BY <1>1, <2>1, <2>2, <2>3, <2>4 DEF OwnIsSaved, vars
  <2> QED
    BY <1>1, <1>2, <2>1, <2>2, <2>3, <2>4, <2>5
    DEF vars, ShownInOrder, Copy!rywVars, Copy!RYWNext, Copy!Tell
<1>13. CASE ServeFetch
  <2> DEFINE answer == [rules |-> data.rules, asOf |-> data.ruleVersion]
  <2>1. UNCHANGED <<vars, page, own, calls>> /\ list' = Serve(list, answer)
    BY <1>13 DEF ServeFetch
  <2>2. answer \in Shown /\ answer.asOf = data.ruleVersion
    BY Fields DEF ConsoleInv, TypeOK, Shown, RuleMap
  <2> HIDE DEF answer
  <2>3. /\ list'.data = list.data /\ list'.stale = list.stale
        /\ list'.answer = answer /\ answer # Nothing
    BY <1>1, <2>1, <2>2, QueryAnswers, NothingIsNoList
  <2> QED
    BY <1>1, <1>2, <2>1, <2>2, <2>3 DEF vars, OwnIsSaved, ShownInOrder, Copy!rywVars
<1>14. CASE DeliverFetch
  <2>1. /\ UNCHANGED <<vars, page, own, calls>> /\ list' = Deliver(list)
        /\ list.step = "answered"
    BY <1>14 DEF DeliverFetch
  <2>2. list'.data = list.answer /\ list'.step = "idle"
    BY <1>1, <2>1, QueryAnswers
  <2> QED
    BY <1>1, <1>2, <2>1, <2>2
    DEF vars, OwnIsSaved, ShownInOrder, Copy!rywVars, Copy!RYWNext, Copy!Show
<1>15. CASE FetchLost
  <2>1. UNCHANGED <<vars, page, own, calls>> /\ list' = FetchFails(list)
    BY <1>15 DEF FetchLost
  <2>2. list'.data = list.data /\ list'.step = "failed" /\ list'.stale = list.stale
    BY <1>1, <2>1, QueryAnswers
  <2> QED
    BY <1>1, <1>5, <2>1, <2>2
<1>16. ASSUME UNCHANGED <<page, list, calls, own>>
       PROVE  Goal
  BY <1>4, <1>16
<1>17. ASSUME NEW aged \in BOOLEAN, Reconnect(aged)
      PROVE  Goal
  <2>1. UNCHANGED <<vars, page, own, calls>> /\ list' = Mount(list, aged)
    BY <1>17 DEF Reconnect
  <2> QED
    BY <1>1, <1>5, <2>1, QueryKeepsData
<1> QED
  BY <1>6, <1>7, <1>8, <1>9, <1>10, <1>11, <1>12, <1>13, <1>14, <1>15, <1>16, <1>17
  DEF ConsoleNext, ConsoleSteps, Sends, OpenForm, CloseForm, AskDelete, CloseConfirm, Others,
      consoleVars, pageVars

\* A list comes to the page by way of an answer, and an answer from the panel.
LEMMA ListMoves ==
    ASSUME ConsoleInv, [ConsoleNext]_consoleVars
    PROVE  /\ \/ list'.data = list.data
              \/ list.step = "answered" /\ list'.data = list.answer /\ UNCHANGED vars
           /\ list'.step = "answered" =>
                 \/ list.step = "answered" /\ list'.answer = list.answer
                 \/ /\ list'.answer = [rules |-> data.rules, asOf |-> data.ruleVersion]
                    /\ UNCHANGED vars
<1> DEFINE Goal == /\ \/ list'.data = list.data
                      \/ list.step = "answered" /\ list'.data = list.answer /\ UNCHANGED vars
                   /\ list'.step = "answered" =>
                         \/ list.step = "answered" /\ list'.answer = list.answer
                         \/ /\ list'.answer = [rules |-> data.rules, asOf |-> data.ruleVersion]
                            /\ UNCHANGED vars
<1>1. list \in Query(Shown) /\ page \in BOOLEAN
  BY DEF ConsoleInv, ConsoleTypeOK
<1>2. ASSUME list' = list
      PROVE  Goal
  BY <1>2
<1>3. ASSUME NEW aged \in BOOLEAN, OpenPage(aged) \/ Reconnect(aged)
      PROVE  Goal
  BY <1>1, <1>3, QueryKeepsData DEF OpenPage, Reconnect
<1>4. CASE Refresh \/ \E k \in Calls : Settle(k)
  BY <1>1, <1>4, QueryKeepsData DEF Refresh, Settle, OnSuccess
<1>5. CASE ServeFetch
  <2>1. [rules |-> data.rules, asOf |-> data.ruleVersion] \in Shown
    BY Fields DEF ConsoleInv, TypeOK, Shown, RuleMap
  <2> QED
    BY <1>1, <1>5, <2>1, QueryAnswers DEF ServeFetch
<1>6. CASE DeliverFetch
  BY <1>1, <1>6, QueryAnswers DEF DeliverFetch
<1>7. CASE FetchLost
  BY <1>1, <1>7, QueryAnswers DEF FetchLost
<1> QED
  BY <1>2, <1>3, <1>4, <1>5, <1>6, <1>7
  DEF ConsoleNext, ConsoleSteps, LeavePage, OpenForm, CloseForm, SubmitForm, Toggle, AskDelete,
      CloseConfirm, ConfirmDelete, HandleCall, CallFails, Others, consoleVars, pageVars

\* No change of the rules goes uncounted, so what has an older version stays
\* apart, and what has the panel's stays the same.
LEMMA NamedStep ==
    ASSUME ConsoleInv, ~SaveMayFail, [ConsoleNext]_consoleVars
    PROVE  ListsAreNamed'
<1>1. ShownInOrder /\ ListsAreNamed /\ TypeOK
  BY DEF ConsoleInv
<1>2. data.ruleVersion \in Nat /\ (list.data # Nothing => list.data.asOf \in Nat)
      /\ (list.step = "answered" => list.answer.asOf \in Nat)
  BY Fields DEF ConsoleInv, OwnIsSaved, TypeOK, ConsoleTypeOK, Query, Shown
\* Of any list that was named before
<1>3. ASSUME NEW l, l.asOf \in Nat, l.asOf <= data.ruleVersion,
             l.asOf = data.ruleVersion => IsCurrent(l),
             l.asOf = data'.ruleVersion
      PROVE  \A r \in RuleIds : Wire(l.rules[r]) = Wire(data'.rules[r])
  <2>1. [Next]_vars
    BY ConsoleStepsStore DEF ConsoleInv
  <2>2. CASE Restart
    <3>1. data' = data
      BY <1>1, <2>2 DEF Restart, ShownInOrder
    <3> QED
      BY <1>3, <3>1 DEF IsCurrent
  <2>3. CASE data'.ruleVersion = data.ruleVersion + 1
    BY <1>2, <1>3, <2>3
  <2>4. CASE /\ data'.ruleVersion = data.ruleVersion
             /\ \A r \in RuleIds : Wire(data'.rules[r]) = Wire(data.rules[r])
    BY <1>3, <2>4 DEF IsCurrent
  <2> QED
    BY <1>1, <2>1, <2>2, <2>3, <2>4, VersionOrRules
<1>4. ASSUME list'.data # Nothing, list'.data.asOf = data'.ruleVersion
      PROVE  \A r \in RuleIds : Wire(list'.data.rules[r]) = Wire(data'.rules[r])
  <2>1. CASE list'.data = list.data
    BY <1>1, <1>2, <1>3, <1>4, <2>1
    DEF ShownInOrder, ShownVersion, ListsAreNamed, IsCurrent
  <2>2. CASE list.step = "answered" /\ list'.data = list.answer /\ UNCHANGED vars
    BY <1>1, <1>4, <2>2 DEF ListsAreNamed, IsCurrent, vars
  <2> QED
    BY <2>1, <2>2, ListMoves
<1>5. ASSUME list'.step = "answered", list'.answer.asOf = data'.ruleVersion
      PROVE  \A r \in RuleIds : Wire(list'.answer.rules[r]) = Wire(data'.rules[r])
  <2>1. CASE list.step = "answered" /\ list'.answer = list.answer
    BY <1>1, <1>2, <1>3, <1>5, <2>1 DEF ShownInOrder, ListsAreNamed, IsCurrent
  <2>2. CASE /\ list'.answer = [rules |-> data.rules, asOf |-> data.ruleVersion]
             /\ UNCHANGED vars
    BY <2>2 DEF vars
  <2> QED
    BY <1>5, <2>1, <2>2, ListMoves
<1> QED
  BY <1>4, <1>5 DEF ListsAreNamed, ShownVersion, IsCurrent

LEMMA ConsoleStep ==
    ASSUME ConsoleInv, [ConsoleNext]_consoleVars
    PROVE  /\ ConsoleInv'
           /\ ~SaveMayFail => [Copy!RYWNext]_(Copy!rywVars)
<1>1. [Next]_vars
  BY ConsoleStepsStore DEF ConsoleInv
<1>2. TypeOK' /\ PanelVersions
  BY <1>1, TypeStep, VersionsGrow DEF ConsoleInv
<1>3. ConsoleTypeOK' /\ CallsFit'
  BY <1>2, ConsoleTypeStep DEF ConsoleInv
<1> QED
  BY <1>2, <1>3, OrderStep, NamedStep DEF ConsoleInv

\* The invariant needs no fairness.
THEOREM ConsoleSafe == ConsoleSafety => []ConsoleInv
<1>1. ConsoleInv /\ [ConsoleNext]_consoleVars => ConsoleInv'
  BY ConsoleStep
<1> QED
  BY ConsoleStart, <1>1, PTL DEF ConsoleSafety

\* What the page holds has the shape the code gives it.
THEOREM ConsoleTypeCorrect == ConsoleSpec => []ConsoleTypeOK
<1>1. ConsoleInv => ConsoleTypeOK
  BY DEF ConsoleInv
<1> QED
  BY <1>1, ConsoleSafe, PTL DEF ConsoleSpec

\* Overlapping calls and fetches, in any order and number, do not leave the page
\* with a list it takes for fresh and that lacks a change the user was told is
\* saved (onSuccess of RulesPage); not even if saves fail and the panel restarts.
THEOREM FreshIsFresh == ConsoleSpec => []FreshShowsOwnSaves
<1>1. ConsoleInv => FreshShowsOwnSaves
  BY DEF ConsoleInv, OwnIsSaved
<1> QED
  BY <1>1, ConsoleSafe, PTL DEF ConsoleSpec

\* As long as saves do not fail, the list of rules implements ReadYourWrites.
THEOREM RulesAreRead ==
    ASSUME ~SaveMayFail
    PROVE  ConsoleSpec => ConsoleReadsItsWrites
<1>1. ConsoleInit => Copy!RYWInit
  BY DEF ConsoleInit, Init, EmptyData, Copy!RYWInit, ShownVersion, NewQuery
<1>2. ConsoleInv /\ [ConsoleNext]_consoleVars => [Copy!RYWNext]_(Copy!rywVars)
  BY ConsoleStep
<1> QED
  BY <1>1, <1>2, ConsoleSafe, PTL
  DEF ConsoleSpec, ConsoleSafety, ConsoleReadsItsWrites, Copy!RYWSpec

(***************************************************************************)
(* Part two: the page and the agent at one panel.                          *)
(***************************************************************************)

-----------------------------------------------------------------------------
(* Each of the two is as it would be alone.                                *)

LoopInv == SyncInv /\ ConsoleInv

LEMMA LoopStep ==
    ASSUME LoopInv, [LoopNext]_loopVars
    PROVE  [SyncNext]_syncVars /\ [ConsoleNext]_consoleVars
<1>1. CASE ConsoleSteps /\ UNCHANGED agentVars
  <2>1. CASE ClientRequest
    <3>1. PanelSteps
      BY <1>1, <2>1 DEF ClientRequest, PanelSteps
    <3> QED
      BY <1>1, <3>1 DEF SyncNext, ConsoleNext
  <2>2. CASE UNCHANGED vars
    BY <1>1, <2>2 DEF syncVars, ConsoleNext
  <2> QED
    BY <1>1, <2>1, <2>2, PageStepsThePanel DEF LoopInv, ConsoleInv
<1>2. CASE SyncNext /\ UNCHANGED pageVars
  <2>1. [Next]_vars
    BY <1>2, StoreStep DEF LoopInv, SyncInv
  <2> QED
    BY <1>2, <2>1 DEF Others, ConsoleNext, consoleVars
<1>3. CASE UNCHANGED loopVars
  BY <1>3 DEF loopVars, syncVars, consoleVars
<1> QED
  BY <1>1, <1>2, <1>3 DEF LoopNext

\* The agent cannot tell the page from any other client of the panel, nor the
\* page the agent.
THEOREM LoopIsBoth == LoopSpec => AgentIsRuleSync /\ PageIsRuleConsole
<1>1. LoopInit => LoopInv /\ SyncInit /\ ConsoleInit
  BY SyncInitInv, ConsoleStart DEF LoopInit, LoopInv
<1>2. LoopInv /\ [LoopNext]_loopVars => [SyncNext]_syncVars /\ [ConsoleNext]_consoleVars
  BY LoopStep
<1>3. LoopInv /\ [LoopNext]_loopVars => LoopInv'
  BY <1>2, SyncInvStep, ConsoleStep DEF LoopInv
<1> QED
  BY <1>1, <1>2, <1>3, PTL
  DEF LoopSpec, AgentIsRuleSync, SyncSpec, PageIsRuleConsole, ConsoleSafety

\* So what holds of the store, the agent and the page holds of them together.
THEOREM LoopKeepsSafe ==
    LoopSpec => [](/\ TypeOK /\ AgentTypeOK /\ ConsoleTypeOK
                   /\ NoPortConflict /\ RulesHaveNodes /\ VersionNamesRules
                   /\ FreshShowsOwnSaves)
<1>1. ConsoleInv => TypeOK /\ ConsoleTypeOK /\ FreshShowsOwnSaves
  BY DEF ConsoleInv, OwnIsSaved
<1> QED
  BY <1>1, LoopIsBoth, AgentTypeCorrect, SyncKeepsStoreSafe, ConsoleSafe, PTL
  DEF AgentIsRuleSync, PageIsRuleConsole

-----------------------------------------------------------------------------
(* From the page to the kernel.                                            *)

\* Rules that are sent to nodes as the same rules are run as the same rules.
LEMMA SameRuns ==
    ASSUME NEW rules \in RuleMap, NEW others \in RuleMap,
           \A r \in RuleIds : Wire(others[r]) = Wire(rules[r]),
           Runs(rules)
    PROVE  Runs(others)
<1> SUFFICES ASSUME NEW r \in RuleIds
             PROVE  IF Has(others, r) /\ others[r].node = Self /\ others[r].enabled
                    THEN \/ kernel[r] = Wire(others[r])
                         \/ /\ kernel[r] = Absent
                            /\ Expired(others[r], now) \/ r \in skipped
                    ELSE kernel[r] = Absent
  BY Zenon DEF Runs
<1>1. rules[r] \in Rule \cup {Absent} /\ others[r] \in Rule \cup {Absent}
      /\ Wire(others[r]) = Wire(rules[r])
  BY DEF RuleMap
<1>2. \A x \in Rule : Wire(x) # Absent
  <2>1. \A x \in Rule : [x EXCEPT !.state = "pending"] \in Rule
    BY DEF Rule, ApplyStates
  <2> QED
    BY <2>1, AbsentIsNoRule DEF Wire
<1>3. Wire(Absent) = Absent
  BY DEF Wire
<1>4. Has(others, r) <=> Has(rules, r)
  BY <1>1, <1>2, <1>3 DEF Has
<1>5. Has(rules, r) => /\ others[r].node = rules[r].node
                      /\ others[r].enabled = rules[r].enabled
                      /\ others[r].expireAt = rules[r].expireAt
  BY <1>1, <1>4, SameWire DEF Has
<1>6. Has(rules, r) => (Expired(others[r], now) <=> Expired(rules[r], now))
  BY <1>5 DEF Expired
<1> QED
  BY <1>1, <1>4, <1>5, <1>6 DEF Runs

\* The rules on the page are the rules in the kernel once the agent has the
\* version at which they were read, if nobody has changed any since they were:
\* under what EqualVersionsEqualRules assumes, whatever calls, fetches,
\* heartbeats and saves are lost, late or under way (RulesPage, ListRules,
\* handleAgentHeartbeat, heartbeatOnce).
THEOREM ShownIsRun ==
    ASSUME ~SaveMayFail, MayReboot => Flags.mode = "strict"
    PROVE  LoopSpec => []ShownRulesRun
<1>1. ConsoleInv /\ SameVersionSameRules => ShownRulesRun
  <2> SUFFICES ASSUME ConsoleInv, SameVersionSameRules,
                      list.data # Nothing, Has(data.nodes, Self),
                      ShownVersion = data.ruleVersion, version = ShownVersion
               PROVE  Runs(list.data.rules)
    BY DEF ShownRulesRun
  <2>1. data.rules \in RuleMap /\ list.data.rules \in RuleMap
    <3>1. list.data \in Shown
      BY DEF ConsoleInv, ConsoleTypeOK, Query
    <3> QED
      BY <3>1, Fields DEF ConsoleInv, TypeOK, Shown, RuleMap
  <2>2. \A r \in RuleIds : Wire(list.data.rules[r]) = Wire(data.rules[r])
    BY DEF ConsoleInv, ListsAreNamed, IsCurrent, ShownVersion
  <2>3. Runs(data.rules)
    BY DEF SameVersionSameRules
  <2> QED
    BY <2>1, <2>2, <2>3, SameRuns
<1>2. LoopSpec => []SameVersionSameRules
  BY LoopIsBoth, EqualVersionsEqualRules, PTL DEF AgentIsRuleSync
<1> QED
  BY <1>1, <1>2, LoopIsBoth, ConsoleSafe, PTL DEF PageIsRuleConsole

=============================================================================
