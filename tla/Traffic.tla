------------------------------- MODULE Traffic -------------------------------
(***************************************************************************)
(* The traffic totals of one forwarding rule.  The kernel counts for each  *)
(* protocol; a heartbeat carries the counters as they were when it was     *)
(* made (agent/nft.go); the panel adds to its total the difference to the  *)
(* counters it was told before (panel/store.go).  The kernel's counters    *)
(* start anew whenever the agent loads its table.                          *)
(*                                                                         *)
(* Which rules the panel sends, and when, is a matter of RuleSync: here an *)
(* answer may make the agent load a table with the rule or without it.     *)
(* Packets are counted as bytes are; the samples of the last hour, which   *)
(* only display reads, are left out.                                       *)
(***************************************************************************)
EXTENDS Naturals

CONSTANTS
    Protocols, \* the protocols of the rule: ruleProtocols
    Absent,    \* "no entry" in a map
    MaxPassed, \* bound on the traffic of a protocol
    MaxSent    \* bound on the heartbeats

VARIABLES
    kernel,  \* the counters in the loaded table, 0 where there is none
    loaded,  \* the rule is in the table
    rules,   \* NFTManager.rules has the rule
    call,    \* the heartbeat the agent waits for, or 0
    sent,    \* the number of heartbeats made
    wire,    \* those the panel has not handled
    last,    \* the latest one it has
    store,   \* Data.Counters and Data.TrafficTotals in memory
    saved,   \* the snapshot last written
    passed,  \* the traffic that went through the rule
    anew,    \* counters that had counted were started anew
    muddled  \* a heartbeat held zeros for want of a listing, or was handled
             \* after a later one

agentVars == <<rules, call, sent>>
kernelVars == <<kernel, loaded, passed>>
storeVars == <<store, saved>>
trafficVars == <<agentVars, kernelVars, storeVars, wire, last, anew, muddled>>

-----------------------------------------------------------------------------

Amounts == [Protocols -> Nat]
Zero == [p \in Protocols |-> 0]

ASSUME TrafficConstants == Absent \notin Nat \cup Amounts

\* A heartbeat: the counters it holds, of which there are none if the agent
\* does not know the rule, and the traffic that had passed when they were read.
Heartbeat == [no : Nat, counts : Amounts \cup {Absent}, at : Amounts]

\* What the store keeps of the rule; at is that of the heartbeat it is from.
Store == [counters : [Protocols -> Nat \cup {Absent}], totals : Amounts, at : Amounts]

EmptyStore == [counters |-> [p \in Protocols |-> Absent], totals |-> Zero, at |-> Zero]

\* A faulty variant of CounterDelta.
SwappedDifference(first, latest) == IF latest >= first THEN first - latest ELSE latest

\* counterDelta
CounterDelta(first, latest) == IF latest >= first THEN latest - first ELSE latest

\* The counter known so far, or the 0 that an unseen one is worth.
Known(s, p) == IF s.counters[p] = Absent THEN 0 ELSE s.counters[p]

\* A faulty variant of Recorded: the difference is then to itself.
CounterWrittenFirst(s, h) ==
    [counters |-> h.counts, totals |-> s.totals, at |-> h.at]

\* The loop of UpdateHeartbeat with recordTrafficTotalLocked
Recorded(s, h) ==
    [counters |-> h.counts,
     totals   |-> [p \in Protocols |->
                     s.totals[p] + CounterDelta(Known(s, p), h.counts[p])],
     at       |-> h.at]

\* saveLocked
Save == saved' \in {store', saved}

-----------------------------------------------------------------------------
(* The node.                                                               *)

\* A packet passes.
Forward(p) ==
    /\ loaded
    /\ passed[p] < MaxPassed
    /\ passed' = [passed EXCEPT ![p] = @ + 1]
    /\ kernel' = [kernel EXCEPT ![p] = @ + 1]
    /\ UNCHANGED <<loaded, agentVars, storeVars, wire, last, anew, muddled>>

\* heartbeatRequest with what Counters returned
Send(counts) ==
    /\ call = 0
    /\ sent < MaxSent
    /\ sent' = sent + 1
    /\ call' = sent'
    /\ wire' = wire \cup {[no |-> sent', counts |-> counts, at |-> passed]}
    /\ UNCHANGED <<rules, kernelVars, storeVars, last, anew>>

\* Counters
SendCounters ==
    /\ Send(IF rules THEN kernel ELSE Absent)
    /\ UNCHANGED muddled

\* Counters when nft does not answer: zeroCounters
SendZeros ==
    /\ rules
    /\ Send(Zero)
    /\ muddled' = TRUE

\* The answer is lost, or the call: it may still arrive later.
CallFails ==
    /\ call # 0
    /\ call' = 0
    /\ UNCHANGED <<rules, sent, kernelVars, storeVars, wire, last, anew, muddled>>

CallEnds ==
    /\ call # 0
    /\ call \notin {h.no : h \in wire}
    /\ call' = 0
    /\ UNCHANGED <<sent, passed, storeVars, wire, last, muddled>>

\* heartbeatOnce finds the version it has, or Apply fails before the table.
NothingApplied ==
    /\ CallEnds
    /\ UNCHANGED <<rules, kernel, loaded, anew>>

Load(withRule) ==
    /\ kernel' = Zero
    /\ loaded' = withRule
    /\ anew' = (anew \/ passed # Zero)

\* Apply of rules with the rule or without it, which is left out of the table
\* if its target does not resolve; if the strict guard fails after the table
\* was loaded, NFTManager.rules stays as it was.
Apply(has, resolves) ==
    /\ CallEnds
    /\ Load(has /\ resolves)
    /\ rules' \in {has, rules}

\* The agent starts again and does not know what its table holds.
AgentRestarts ==
    /\ rules' = FALSE
    /\ call' = 0
    /\ UNCHANGED <<sent, kernelVars, storeVars, wire, last, anew, muddled>>

HostReboots ==
    /\ rules' = FALSE
    /\ call' = 0
    /\ Load(FALSE)
    /\ UNCHANGED <<sent, passed, storeVars, wire, last, muddled>>

-----------------------------------------------------------------------------
(* The panel.                                                              *)

\* UpdateHeartbeat
HandleHeartbeat(h) ==
    /\ h \in wire
    /\ wire' = wire \ {h}
    /\ store' = IF h.counts = Absent THEN store ELSE Recorded(store, h)
    /\ Save
    /\ last' = IF h.no > last THEN h.no ELSE last
    /\ muddled' = (muddled \/ h.no < last)
    /\ UNCHANGED <<agentVars, kernelVars, anew>>

Lost(h) ==
    /\ h \in wire
    /\ wire' = wire \ {h}
    /\ call' = IF call = h.no THEN 0 ELSE call
    /\ UNCHANGED <<rules, sent, kernelVars, storeVars, last, anew, muddled>>

\* A faulty variant of DeleteRule: the totals are forgotten.
DeleteCounters ==
    /\ store' = [store EXCEPT !.counters = EmptyStore.counters]
    /\ Save
    /\ UNCHANGED <<agentVars, kernelVars, wire, last, anew, muddled>>

\* deleteRuleLocked
DeleteRule ==
    /\ store' = EmptyStore
    /\ Save
    /\ UNCHANGED <<agentVars, kernelVars, wire, last, anew, muddled>>

\* Some other handler saves what is in memory.
SaveAgain ==
    /\ saved' = store
    /\ UNCHANGED <<store, agentVars, kernelVars, wire, last, anew, muddled>>

PanelRestarts ==
    /\ store' = saved
    /\ UNCHANGED <<saved, agentVars, kernelVars, wire, last, anew, muddled>>

TrafficInit ==
    /\ kernel = Zero
    /\ loaded = FALSE
    /\ rules = FALSE
    /\ call = 0
    /\ sent = 0
    /\ wire = {}
    /\ last = 0
    /\ store = EmptyStore
    /\ saved = EmptyStore
    /\ passed = Zero
    /\ anew = FALSE
    /\ muddled = FALSE

TrafficNext ==
    \/ \E p \in Protocols : Forward(p)
    \/ SendCounters
    \/ SendZeros
    \/ CallFails
    \/ NothingApplied
    \/ \E has, resolves \in BOOLEAN : Apply(has, resolves)
    \/ AgentRestarts
    \/ HostReboots
    \/ \E h \in wire : HandleHeartbeat(h) \/ Lost(h)
    \/ DeleteRule
    \/ SaveAgain
    \/ PanelRestarts

TrafficSpec == TrafficInit /\ [][TrafficNext]_trafficVars

-----------------------------------------------------------------------------
(* Properties.                                                             *)

\* Counters and totals are counts, never the wrap of a negative difference.
TrafficTypeOK ==
    /\ kernel \in Amounts /\ passed \in Amounts
    /\ loaded \in BOOLEAN /\ rules \in BOOLEAN
    /\ call \in 0..sent /\ sent \in Nat /\ last \in 0..sent
    /\ wire \subseteq Heartbeat
    /\ store \in Store /\ saved \in Store
    /\ anew \in BOOLEAN /\ muddled \in BOOLEAN

\* No traffic is counted twice, through tables loaded anew, lost answers,
\* restarts of agent, host and panel, failed saves, and a rule that is deleted
\* and reported again: the total is never more than what had passed when its
\* counters were read, in memory and in the snapshot.  Two things do count
\* traffic twice: counters sent as zeros because nft did not answer, and a
\* heartbeat handled after a later one (recordTrafficTotalLocked, counterDelta).
CountedOnce ==
    ~muddled => \A p \in Protocols : /\ store.totals[p] <= store.at[p]
                                     /\ saved.totals[p] <= saved.at[p]

\* None is missed until a table is loaded anew: the total is then all the
\* traffic up to the last reading the panel has, however many heartbeats were
\* lost and though a restart took the panel back (UpdateHeartbeat, load).
NoneMissed ==
    ~muddled /\ ~anew => store.totals = store.at /\ saved.totals = saved.at

=============================================================================
