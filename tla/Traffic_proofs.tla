---------------------------- MODULE Traffic_proofs ----------------------------
(***************************************************************************)
(* Theorems about Traffic, for every value of its constants.               *)
(***************************************************************************)
EXTENDS Traffic, TLAPS

-----------------------------------------------------------------------------
(* Types.                                                                  *)

\* No two heartbeats have one number, and the latest one handled is not on its
\* way any more.
Numbered ==
    /\ \A h \in wire : h.no \in 1..sent /\ h.no # last
    /\ \A g, h \in wire : g.no = h.no => g = h

LEMMA AbsentIsOutside == Absent \notin Nat /\ Absent \notin Amounts
  BY TrafficConstants

LEMMA DeltaType ==
    ASSUME NEW a \in Nat, NEW b \in Nat
    PROVE  CounterDelta(a, b) \in Nat
  BY DEF CounterDelta

LEMMA KnownType ==
    ASSUME NEW s \in Store, NEW p \in Protocols
    PROVE  Known(s, p) \in Nat
  BY DEF Store, Known

LEMMA StoreTypes ==
    ASSUME NEW s \in Store
    PROVE  /\ s.counters \in [Protocols -> Nat \cup {Absent}]
           /\ s.totals \in Amounts /\ s.at \in Amounts
  BY DEF Store

LEMMA RecordedFields ==
    ASSUME NEW s \in Store, NEW h \in Heartbeat, h.counts # Absent
    PROVE  /\ Recorded(s, h) \in Store
           /\ \A p \in Protocols :
                 /\ Recorded(s, h).totals[p] = s.totals[p] + CounterDelta(Known(s, p), h.counts[p])
                 /\ Recorded(s, h).at[p] = h.at[p]
                 /\ Known(Recorded(s, h), p) = h.counts[p]
<1>1. h.counts \in Amounts /\ h.at \in Amounts
  BY DEF Heartbeat
<1>2. ASSUME NEW p \in Protocols
      PROVE  s.totals[p] + CounterDelta(Known(s, p), h.counts[p]) \in Nat
  <2>1. h.counts[p] \in Nat /\ s.totals[p] \in Nat /\ Known(s, p) \in Nat
    BY <1>1, KnownType, StoreTypes DEF Amounts
  <2>2. CounterDelta(Known(s, p), h.counts[p]) \in Nat
    BY <2>1, DeltaType
  <2> QED
    BY <2>1, <2>2
<1>3. Recorded(s, h) \in Store
  BY <1>1, <1>2 DEF Recorded, Store, Amounts
<1>4. \A p \in Protocols : Known(Recorded(s, h), p) = h.counts[p]
  <2>1. Recorded(s, h).counters = h.counts
    BY DEF Recorded
  <2>2. \A p \in Protocols : h.counts[p] \in Nat
    BY <1>1 DEF Amounts
  <2> QED
    BY <2>1, <2>2, AbsentIsOutside DEF Known
<1> QED
  BY <1>1, <1>3, <1>4 DEF Recorded

LEMMA EmptyFields ==
    /\ EmptyStore \in Store
    /\ \A p \in Protocols : /\ Known(EmptyStore, p) = 0
                            /\ EmptyStore.totals[p] = 0
                            /\ EmptyStore.at[p] = 0
  BY DEF EmptyStore, Store, Known, Amounts, Zero

\* The type in two halves.
FlagsOK == loaded \in BOOLEAN /\ rules \in BOOLEAN /\ anew \in BOOLEAN /\ muddled \in BOOLEAN

CountsOK ==
    /\ kernel \in Amounts /\ passed \in Amounts
    /\ call \in 0..sent /\ sent \in Nat /\ last \in 0..sent
    /\ wire \subseteq Heartbeat
    /\ store \in Store /\ saved \in Store

LEMMA Halves == TrafficTypeOK <=> FlagsOK /\ CountsOK
  BY DEF TrafficTypeOK, FlagsOK, CountsOK

LEMMA TrafficTypeStart == TrafficInit => TrafficTypeOK /\ Numbered
<1> SUFFICES ASSUME TrafficInit
             PROVE  TrafficTypeOK /\ Numbered
  OBVIOUS
<1>1. Zero \in Amounts
  BY DEF Zero, Amounts
<1>2. CountsOK
  BY <1>1, EmptyFields DEF TrafficInit, CountsOK
<1>3. FlagsOK /\ Numbered
  BY DEF TrafficInit, FlagsOK, Numbered
<1> QED
  BY <1>2, <1>3, Halves

LEMMA FlagsStep ==
    ASSUME TrafficTypeOK, [TrafficNext]_trafficVars
    PROVE  FlagsOK'
<1> QED
  BY DEF TrafficTypeOK, FlagsOK, TrafficNext, Forward, SendCounters, SendZeros, Send, CallFails,
         NothingApplied, CallEnds, Apply, Load, AgentRestarts, HostReboots, HandleHeartbeat, Lost,
         DeleteRule, SaveAgain, PanelRestarts, agentVars, kernelVars, trafficVars

LEMMA NewHeartbeat ==
    ASSUME CountsOK, Numbered, NEW counts \in Amounts \cup {Absent}, Send(counts)
    PROVE  /\ [no |-> sent + 1, counts |-> counts, at |-> passed] \in Heartbeat
           /\ wire' = wire \cup {[no |-> sent + 1, counts |-> counts, at |-> passed]}
           /\ UNCHANGED <<kernel, passed, store, saved, last, anew>>
           /\ CountsOK' /\ Numbered'
<1>1. /\ sent' = sent + 1 /\ call' = sent + 1
      /\ UNCHANGED <<kernel, passed, store, saved, last, anew>>
      /\ [no |-> sent + 1, counts |-> counts, at |-> passed] \in Heartbeat
      /\ wire' = wire \cup {[no |-> sent + 1, counts |-> counts, at |-> passed]}
  BY DEF Send, CountsOK, Heartbeat, kernelVars, storeVars
<1>2. Numbered'
  BY <1>1 DEF Numbered, CountsOK
<1>3. CountsOK'
  BY <1>1 DEF CountsOK
<1> QED
  BY <1>1, <1>2, <1>3

LEMMA CountsStep ==
    ASSUME CountsOK, Numbered, [TrafficNext]_trafficVars
    PROVE  CountsOK' /\ Numbered'
<1> DEFINE Goal == CountsOK' /\ Numbered'
<1> USE DEF CountsOK
<1>0. Zero \in Amounts
  BY DEF Zero, Amounts
<1>1. ASSUME NEW p \in Protocols, Forward(p)
      PROVE  Goal
  <2>1. passed' \in Amounts /\ kernel' \in Amounts
    BY <1>1 DEF Forward, Amounts
  <2> QED
    BY <1>1, <2>1 DEF Forward, agentVars, storeVars, Numbered
<1>2. ASSUME NEW counts \in Amounts \cup {Absent}, Send(counts)
      PROVE  Goal
  BY <1>2, NewHeartbeat
<1>3. CASE SendCounters \/ SendZeros
  <2>1. CASE SendCounters /\ rules
    BY <1>2, <2>1 DEF SendCounters
  <2>2. CASE SendCounters /\ ~rules
    BY <1>2, <2>2 DEF SendCounters
  <2>3. CASE SendZeros
    BY <1>0, <1>2, <2>3 DEF SendZeros
  <2> QED
    BY <1>3, <2>1, <2>2, <2>3
<1>4. CASE CallFails
  BY <1>4 DEF CallFails, kernelVars, storeVars, Numbered
<1>5. CASE NothingApplied
  BY <1>5 DEF NothingApplied, CallEnds, storeVars, Numbered
<1>6. ASSUME NEW has \in BOOLEAN, NEW resolves \in BOOLEAN, Apply(has, resolves)
      PROVE  Goal
  BY <1>0, <1>6 DEF Apply, CallEnds, Load, storeVars, Numbered
<1>7. CASE AgentRestarts
  BY <1>7 DEF AgentRestarts, kernelVars, storeVars, Numbered
<1>8. CASE HostReboots
  BY <1>0, <1>8 DEF HostReboots, Load, storeVars, Numbered
<1>9. ASSUME NEW h \in wire, HandleHeartbeat(h)
      PROVE  Goal
  <2>1. store' \in Store
    BY <1>9, RecordedFields DEF HandleHeartbeat
  <2>2. saved' \in Store
    BY <1>9, <2>1 DEF HandleHeartbeat, Save
  <2>3. last' \in {h.no, last} /\ wire' = wire \ {h} /\ sent' = sent
    BY <1>9 DEF HandleHeartbeat, agentVars
  <2>4. h.no \in 1..sent
    BY DEF Numbered
  <2>5. Numbered'
    BY <2>3 DEF Numbered
  <2>6. wire' \subseteq Heartbeat /\ last' \in 0..sent
    BY <2>3, <2>4
  <2> QED
    BY <1>9, <2>5, <2>6, <2>1, <2>2, <2>3, <2>4 DEF HandleHeartbeat, agentVars, kernelVars
<1>10. ASSUME NEW h \in wire, Lost(h)
       PROVE  Goal
  BY <1>10 DEF Lost, kernelVars, storeVars, Numbered
<1>11. CASE DeleteRule
  BY <1>11, EmptyFields DEF DeleteRule, Save, agentVars, kernelVars, Numbered
<1>12. CASE SaveAgain
  BY <1>12 DEF SaveAgain, agentVars, kernelVars, Numbered
<1>13. CASE PanelRestarts
  BY <1>13 DEF PanelRestarts, agentVars, kernelVars, Numbered
<1>14. CASE UNCHANGED trafficVars
  BY <1>14 DEF trafficVars, agentVars, kernelVars, storeVars, Numbered
<1> QED
  BY <1>1, <1>3, <1>4, <1>5, <1>6, <1>7, <1>8, <1>9, <1>10, <1>11, <1>12, <1>13, <1>14
  DEF TrafficNext

LEMMA TrafficTypeStep ==
    ASSUME TrafficTypeOK, Numbered, [TrafficNext]_trafficVars
    PROVE  TrafficTypeOK' /\ Numbered'
<1>1. FlagsOK' /\ CountsOK' /\ Numbered'
  BY FlagsStep, CountsStep, Halves
<1> QED
  BY <1>1 DEF TrafficTypeOK, FlagsOK, CountsOK

-----------------------------------------------------------------------------
(* The order of the readings.  A reading is a counter with the traffic that  *)
(* had passed.  That no traffic is counted twice is not inductive: what the  *)
(* panel will add depends on the counters of its store, of the heartbeats on *)
(* their way and of the kernel.  The invariant says of any two of these      *)
(* readings, the earlier first, that the difference of the counters is no    *)
(* more than what passed between them.                                       *)

\* The counter was a when t had passed and b when u had.
Leads(a, t, b, u) == t + CounterDelta(a, b) <= u

Told(h) == h.counts # Absent

WireInOrder(p) ==
    /\ \A h \in wire : Told(h) => /\ Leads(0, 0, h.counts[p], h.at[p])
                                  /\ Leads(h.counts[p], h.at[p], kernel[p], passed[p])
    /\ \A g, h \in wire :
          Told(g) /\ Told(h) /\ g.no < h.no => Leads(g.counts[p], g.at[p], h.counts[p], h.at[p])

StoreInOrder(s, p) ==
    /\ s.totals[p] <= s.at[p]
    /\ Leads(Known(s, p), s.at[p], kernel[p], passed[p])
    /\ \A h \in wire :
          Told(h) /\ h.no > last => Leads(Known(s, p), s.at[p], h.counts[p], h.at[p])

InOrder(p) ==
    /\ Leads(0, 0, kernel[p], passed[p])
    /\ WireInOrder(p)
    /\ StoreInOrder(store, p)
    /\ StoreInOrder(saved, p)

LEMMA LeadsOn ==
    ASSUME NEW a \in Nat, NEW t \in Nat, NEW b \in Nat, NEW u \in Nat, Leads(a, t, b, u)
    PROVE  t <= u /\ Leads(a, t, b + 1, u + 1) /\ Leads(a, t, 0, u)
  BY DEF Leads, CounterDelta

LEMMA LeadsItself ==
    ASSUME NEW a \in Nat, NEW t \in Nat
    PROVE  Leads(a, t, a, t)
  BY DEF Leads, CounterDelta

LEMMA Readings ==
    ASSUME CountsOK, NEW p \in Protocols
    PROVE  /\ kernel[p] \in Nat /\ passed[p] \in Nat
           /\ \A h \in wire : /\ h.no \in Nat /\ h.at[p] \in Nat
                              /\ Told(h) => h.counts \in Amounts /\ h.counts[p] \in Nat
           /\ Known(store, p) \in Nat /\ store.at[p] \in Nat /\ store.totals[p] \in Nat
           /\ Known(saved, p) \in Nat /\ saved.at[p] \in Nat /\ saved.totals[p] \in Nat
<1>1. store \in Store /\ saved \in Store
  BY DEF CountsOK
<1>2. /\ Known(store, p) \in Nat /\ store.at[p] \in Nat /\ store.totals[p] \in Nat
      /\ Known(saved, p) \in Nat /\ saved.at[p] \in Nat /\ saved.totals[p] \in Nat
  BY <1>1, KnownType, StoreTypes DEF Amounts
<1>3. ASSUME NEW h \in wire
      PROVE  /\ h.no \in Nat /\ h.at[p] \in Nat
             /\ Told(h) => h.counts \in Amounts /\ h.counts[p] \in Nat
  BY DEF CountsOK, Heartbeat, Told, Amounts
<1> QED
  BY <1>2, <1>3 DEF CountsOK, Amounts

\* The kernel counts on, or starts anew.
LEMMA KernelInOrder ==
    ASSUME CountsOK, NEW p \in Protocols, InOrder(p),
           \/ kernel'[p] = kernel[p] /\ passed'[p] = passed[p]
           \/ kernel'[p] = kernel[p] + 1 /\ passed'[p] = passed[p] + 1
           \/ kernel'[p] = 0 /\ passed'[p] = passed[p],
           wire' \subseteq wire, UNCHANGED <<store, saved, last>>
    PROVE  InOrder(p)'
<1>1. ASSUME NEW a \in Nat, NEW t \in Nat, Leads(a, t, kernel[p], passed[p])
      PROVE  Leads(a, t, kernel'[p], passed'[p])
  BY <1>1, LeadsOn, Readings
<1>2. Leads(0, 0, kernel[p], passed[p])'
  BY <1>1 DEF InOrder
<1>3. WireInOrder(p)'
  BY <1>1, Readings DEF InOrder, WireInOrder
<1>4. StoreInOrder(store, p)'
  BY <1>1, Readings DEF InOrder, StoreInOrder
<1>5. StoreInOrder(saved, p)'
  BY <1>1, Readings DEF InOrder, StoreInOrder
<1> QED
  BY <1>2, <1>3, <1>4, <1>5 DEF InOrder

\* The panel keeps, takes back or forgets what it knows.
LEMMA StoresInOrder ==
    ASSUME CountsOK, NEW p \in Protocols, InOrder(p), UNCHANGED <<kernel, passed>>,
           wire' \subseteq wire, last' \in Nat, last' >= last,
           store' \in {store, saved, EmptyStore}, saved' \in {store, saved, EmptyStore}
    PROVE  InOrder(p)'
<1>1. WireInOrder(p)'
  BY DEF InOrder, WireInOrder
<1>2. \A h \in wire' : h \in wire /\ h.no \in Nat /\ last \in Nat /\ (h.no > last' => h.no > last)
  BY Readings DEF CountsOK
<1>3. EmptyStore.totals[p] = 0 /\ EmptyStore.at[p] = 0 /\ Known(EmptyStore, p) = 0
  BY EmptyFields
<1>4. ASSUME NEW s \in {store, saved, EmptyStore}
      PROVE  /\ s.totals[p] <= s.at[p]
             /\ Leads(Known(s, p), s.at[p], kernel'[p], passed'[p])
             /\ \A h \in wire' :
                   Told(h) /\ h.no > last' => Leads(Known(s, p), s.at[p], h.counts[p], h.at[p])
  <2>1. CASE s = EmptyStore
    BY <1>2, <1>3, <2>1 DEF InOrder, WireInOrder
  <2>2. CASE s = store
    BY <1>2, <2>2 DEF InOrder, StoreInOrder
  <2>3. CASE s = saved
    BY <1>2, <2>3 DEF InOrder, StoreInOrder
  <2> QED
    BY <2>1, <2>2, <2>3
<1>5. StoreInOrder(store, p)' /\ StoreInOrder(saved, p)'
  BY <1>4 DEF StoreInOrder
<1> QED
  BY <1>1, <1>5 DEF InOrder

\* A heartbeat is a reading of the kernel.
LEMMA SentInOrder ==
    ASSUME CountsOK, Numbered, NEW p \in Protocols, InOrder(p), SendCounters
    PROVE  InOrder(p)'
<1> DEFINE new == [no |-> sent + 1, counts |-> IF rules THEN kernel ELSE Absent, at |-> passed]
<1>1. wire' = wire \cup {new} /\ UNCHANGED <<kernel, passed, store, saved, last>>
  BY DEF SendCounters, Send, kernelVars, storeVars
<1>2. Told(new) => new.counts[p] = kernel[p] /\ new.at[p] = passed[p]
  BY DEF Told
<1>3. \A h \in wire : h.no < new.no
  BY DEF Numbered, CountsOK
<1>4. Leads(kernel[p], passed[p], kernel[p], passed[p])
  BY Readings, LeadsItself
<1>5. ~(new.no < new.no) /\ \A h \in wire : ~(new.no < h.no)
  BY Readings DEF Numbered, CountsOK
<1> HIDE DEF new
<1>6. WireInOrder(p)'
  BY <1>1, <1>2, <1>4, <1>5 DEF InOrder, WireInOrder
<1>7. StoreInOrder(store, p)'
  BY <1>1, <1>2 DEF InOrder, StoreInOrder
<1>8. StoreInOrder(saved, p)'
  BY <1>1, <1>2 DEF InOrder, StoreInOrder
<1> QED
  BY <1>1, <1>6, <1>7, <1>8 DEF InOrder

\* What a later heartbeat adds is no more than what passed since.
LEMMA HandledInOrder ==
    ASSUME CountsOK, Numbered, NEW p \in Protocols, InOrder(p),
           NEW h \in wire, HandleHeartbeat(h), Told(h), h.no > last
    PROVE  InOrder(p)'
<1>1. /\ store' = Recorded(store, h) /\ saved' \in {store', saved} /\ wire' = wire \ {h}
      /\ last' = h.no /\ UNCHANGED <<kernel, passed>>
  BY DEF HandleHeartbeat, Told, Save, kernelVars
<1>2. /\ store'.totals[p] = store.totals[p] + CounterDelta(Known(store, p), h.counts[p])
      /\ store'.at[p] = h.at[p] /\ Known(store', p) = h.counts[p]
  BY <1>1, RecordedFields DEF CountsOK, Told
<1>3. Leads(Known(store, p), store.at[p], h.counts[p], h.at[p]) /\ store.totals[p] <= store.at[p]
  BY DEF InOrder, StoreInOrder
<1>4. CounterDelta(Known(store, p), h.counts[p]) \in Nat
  BY Readings, DeltaType
<1>5. store'.totals[p] <= store'.at[p]
  BY <1>2, <1>3, <1>4, Readings DEF Leads
<1>6. WireInOrder(p)'
  BY <1>1 DEF InOrder, WireInOrder
<1>7. StoreInOrder(store, p)'
  BY <1>1, <1>2, <1>5 DEF InOrder, WireInOrder, StoreInOrder
<1>8. \A g \in wire : g.no > h.no => g.no > last
  BY Readings DEF CountsOK
<1>9. StoreInOrder(saved, p)'
  <2>1. CASE saved' = store'
    BY <1>7, <2>1 DEF StoreInOrder
  <2>2. CASE saved' = saved
    BY <1>1, <1>8, <2>2 DEF InOrder, StoreInOrder
  <2> QED
    BY <1>1, <2>1, <2>2
<1> QED
  BY <1>1, <1>6, <1>7, <1>9 DEF InOrder

-----------------------------------------------------------------------------
(* The steps.                                                              *)

\* No step takes a muddle back.
LEMMA MuddleStays ==
    ASSUME [TrafficNext]_trafficVars, ~muddled'
    PROVE  ~muddled
  BY DEF TrafficNext, Forward, SendCounters, SendZeros, Send, CallFails, NothingApplied, CallEnds,
         Apply, Load, AgentRestarts, HostReboots, HandleHeartbeat, Lost, DeleteRule, SaveAgain,
         PanelRestarts, trafficVars

\* Unless there is a muddle, a heartbeat is handled before any later one.
LEMMA HandledLater ==
    ASSUME CountsOK, Numbered, NEW h \in wire, HandleHeartbeat(h), ~muddled'
    PROVE  h.no > last /\ last' = h.no
<1>1. ~(h.no < last) /\ last' = IF h.no > last THEN h.no ELSE last
  <2>1. muddled' = (muddled \/ h.no < last)
    BY DEF HandleHeartbeat
  <2>2. ~(h.no < last)
    BY <2>1, Zenon
  <2> QED
    BY <2>2 DEF HandleHeartbeat
<1>2. h.no \in Nat /\ last \in Nat /\ h.no # last
  BY DEF Numbered, CountsOK, Heartbeat
<1> QED
  BY <1>1, <1>2

LEMMA InOrderStep ==
    ASSUME CountsOK, Numbered, NEW p \in Protocols, InOrder(p),
           [TrafficNext]_trafficVars, ~muddled'
    PROVE  InOrder(p)'
<1>0. last \in Nat /\ kernel \in Amounts /\ passed \in Amounts
  BY DEF CountsOK
<1>1. ASSUME NEW q \in Protocols, Forward(q)
      PROVE  InOrder(p)'
  <2>1. \/ kernel'[p] = kernel[p] /\ passed'[p] = passed[p]
        \/ kernel'[p] = kernel[p] + 1 /\ passed'[p] = passed[p] + 1
    BY <1>0, <1>1 DEF Forward, Amounts
  <2> QED
    BY <1>1, <2>1, KernelInOrder DEF Forward, storeVars
<1>2. CASE SendCounters
  BY <1>2, SentInOrder
<1>3. CASE SendZeros
  BY <1>3 DEF SendZeros
<1>4. CASE CallFails \/ NothingApplied \/ AgentRestarts \/ UNCHANGED trafficVars
  BY <1>4, KernelInOrder
  DEF CallFails, NothingApplied, CallEnds, AgentRestarts, trafficVars, kernelVars, storeVars
<1>5. ASSUME NEW withRule \in BOOLEAN, Load(withRule),
             UNCHANGED <<passed, wire, store, saved, last>>
      PROVE  InOrder(p)'
  BY <1>5, KernelInOrder DEF Load, Zero
<1>6. ASSUME NEW has \in BOOLEAN, NEW resolves \in BOOLEAN, Apply(has, resolves)
      PROVE  InOrder(p)'
  BY <1>5, <1>6 DEF Apply, CallEnds, storeVars
<1>7. CASE HostReboots
  BY <1>5, <1>7 DEF HostReboots, storeVars
<1>8. ASSUME NEW h \in wire, HandleHeartbeat(h)
      PROVE  InOrder(p)'
  <2>1. h.no > last /\ last' = h.no
    BY <1>8, HandledLater
  <2>2. CASE Told(h)
    BY <1>8, <2>1, <2>2, HandledInOrder
  <2>3. CASE ~Told(h)
    <3>1. store' = store /\ saved' \in {store, saved}
      BY <1>8, <2>3 DEF HandleHeartbeat, Told, Save
    <3> QED
      BY <1>0, <1>8, <2>1, <3>1, Readings, StoresInOrder DEF HandleHeartbeat, kernelVars
  <2> QED
    BY <2>2, <2>3
<1>9. ASSUME NEW h \in wire, Lost(h)
      PROVE  InOrder(p)'
  BY <1>9, KernelInOrder DEF Lost, kernelVars, storeVars
<1>10. CASE DeleteRule \/ SaveAgain \/ PanelRestarts
  BY <1>0, <1>10, StoresInOrder DEF DeleteRule, Save, SaveAgain, PanelRestarts, kernelVars
<1> QED
  BY <1>1, <1>2, <1>3, <1>4, <1>6, <1>7, <1>8, <1>9, <1>10 DEF TrafficNext

TrafficInv ==
    /\ TrafficTypeOK
    /\ Numbered
    /\ ~muddled => \A p \in Protocols : InOrder(p)

LEMMA InOrderStart ==
    ASSUME TrafficInit, NEW p \in Protocols
    PROVE  InOrder(p)
<1>1. kernel[p] = 0 /\ passed[p] = 0 /\ wire = {} /\ store = EmptyStore /\ saved = EmptyStore
  BY DEF TrafficInit, Zero
<1>2. Leads(0, 0, 0, 0)
  BY LeadsItself
<1> QED
  BY <1>1, <1>2, EmptyFields DEF InOrder, WireInOrder, StoreInOrder

\* Traffic's state is always well typed and its readings are in order, for any
\* traffic, any protocols and any number of heartbeats.
THEOREM TrafficSafe == TrafficSpec => []TrafficInv
<1>1. TrafficInit => TrafficInv
  BY TrafficTypeStart, InOrderStart DEF TrafficInv
<1>2. TrafficInv /\ [TrafficNext]_trafficVars => TrafficInv'
  <2> SUFFICES ASSUME TrafficInv, [TrafficNext]_trafficVars
               PROVE  TrafficInv'
    OBVIOUS
  <2>1. TrafficTypeOK' /\ Numbered'
    BY TrafficTypeStep DEF TrafficInv
  <2>2. ASSUME ~muddled', NEW p \in Protocols
        PROVE  InOrder(p)'
    BY <2>2, MuddleStays, Halves, InOrderStep DEF TrafficInv
  <2> QED
    BY <2>1, <2>2 DEF TrafficInv
<1> QED
  BY <1>1, <1>2, PTL DEF TrafficSpec

\* Counters and totals are counts, never the wrap of a negative difference
\* (counterDelta).
THEOREM TrafficTypeCorrect == TrafficSpec => []TrafficTypeOK
<1>1. TrafficInv => TrafficTypeOK
  BY DEF TrafficInv
<1> QED
  BY <1>1, TrafficSafe, PTL

\* No traffic is counted twice, in memory or in the snapshot
\* (recordTrafficTotalLocked).
THEOREM NoneCountedTwice == TrafficSpec => []CountedOnce
<1>1. TrafficInv => CountedOnce
  BY DEF TrafficInv, InOrder, StoreInOrder, CountedOnce
<1> QED
  BY <1>1, TrafficSafe, PTL

-----------------------------------------------------------------------------
(* Until a counter starts anew, every reading is of all that passed.       *)

StoreExact(s, p) == s.totals[p] = s.at[p] /\ Known(s, p) = s.at[p]

Exact(p) ==
    /\ kernel[p] = passed[p]
    /\ \A h \in wire : Told(h) => h.counts[p] = h.at[p]
    /\ StoreExact(store, p)
    /\ StoreExact(saved, p)

Complete == ~muddled /\ ~anew => \A p \in Protocols : Exact(p)

LEMMA ExactStart ==
    ASSUME TrafficInit, NEW p \in Protocols
    PROVE  Exact(p)
<1>1. kernel[p] = 0 /\ passed[p] = 0 /\ wire = {} /\ store = EmptyStore /\ saved = EmptyStore
  BY DEF TrafficInit, Zero
<1> QED
  BY <1>1, EmptyFields DEF Exact, StoreExact

LEMMA AnewStays ==
    ASSUME [TrafficNext]_trafficVars, ~anew'
    PROVE  ~anew
  BY DEF TrafficNext, Forward, SendCounters, SendZeros, Send, CallFails, NothingApplied, CallEnds,
         Apply, Load, AgentRestarts, HostReboots, HandleHeartbeat, Lost, DeleteRule, SaveAgain,
         PanelRestarts, trafficVars

\* A table that is loaded before anything passed starts nothing anew.
LEMMA LoadExact ==
    ASSUME NEW p \in Protocols, Exact(p), NEW withRule \in BOOLEAN, Load(withRule), ~anew',
           UNCHANGED <<passed, wire, store, saved>>
    PROVE  Exact(p)'
<1>1. passed = Zero /\ kernel' = Zero
  BY DEF Load
<1>2. kernel'[p] = passed'[p]
  BY <1>1
<1> QED
  BY <1>2 DEF Exact

\* What a heartbeat adds is all that passed since.
LEMMA HandledExact ==
    ASSUME CountsOK, NEW p \in Protocols, InOrder(p), Exact(p),
           NEW h \in wire, HandleHeartbeat(h), Told(h), h.no > last
    PROVE  Exact(p)'
<1>1. /\ store' = Recorded(store, h) /\ saved' \in {store', saved} /\ wire' = wire \ {h}
      /\ UNCHANGED <<kernel, passed>>
  BY DEF HandleHeartbeat, Told, Save, kernelVars
<1>2. /\ store'.totals[p] = store.totals[p] + CounterDelta(Known(store, p), h.counts[p])
      /\ store'.at[p] = h.at[p] /\ Known(store', p) = h.counts[p]
  BY <1>1, RecordedFields DEF CountsOK, Told
<1>3. Leads(Known(store, p), store.at[p], h.counts[p], h.at[p])
  BY DEF InOrder, StoreInOrder
<1>4. store.at[p] <= h.at[p]
  BY <1>3, Readings, LeadsOn
<1>5. StoreExact(store, p)'
  BY <1>2, <1>4, Readings DEF Exact, StoreExact, CounterDelta
<1>6. StoreExact(saved, p)'
  BY <1>1, <1>5 DEF Exact, StoreExact
<1> QED
  BY <1>1, <1>5, <1>6 DEF Exact

LEMMA ExactStep ==
    ASSUME CountsOK, Numbered, NEW p \in Protocols, InOrder(p), Exact(p),
           [TrafficNext]_trafficVars, ~muddled', ~anew'
    PROVE  Exact(p)'
<1>0. last \in Nat /\ kernel \in Amounts /\ passed \in Amounts
  BY DEF CountsOK
<1>1. ASSUME NEW q \in Protocols, Forward(q)
      PROVE  Exact(p)'
  <2>1. kernel'[p] = passed'[p]
    BY <1>0, <1>1 DEF Forward, Amounts, Exact
  <2> QED
    BY <1>1, <2>1 DEF Forward, storeVars, Exact, StoreExact
<1>2. CASE SendCounters
  BY <1>2 DEF SendCounters, Send, kernelVars, storeVars, Exact, StoreExact, Told
<1>3. CASE SendZeros
  BY <1>3 DEF SendZeros
<1>4. CASE CallFails \/ NothingApplied \/ AgentRestarts \/ UNCHANGED trafficVars
  BY <1>4 DEF CallFails, NothingApplied, CallEnds, AgentRestarts, trafficVars, kernelVars,
              storeVars, Exact, StoreExact
<1>5. ASSUME NEW has \in BOOLEAN, NEW resolves \in BOOLEAN, Apply(has, resolves)
      PROVE  Exact(p)'
  BY <1>5, LoadExact DEF Apply, CallEnds, storeVars
<1>6. CASE HostReboots
  BY <1>6, LoadExact DEF HostReboots, storeVars
<1>7. ASSUME NEW h \in wire, HandleHeartbeat(h)
      PROVE  Exact(p)'
  <2>1. h.no > last
    BY <1>7, HandledLater
  <2>2. CASE Told(h)
    BY <1>7, <2>1, <2>2, HandledExact
  <2>3. CASE ~Told(h)
    BY <1>7, <2>3 DEF HandleHeartbeat, Told, Save, kernelVars, Exact, StoreExact
  <2> QED
    BY <2>2, <2>3
<1>8. ASSUME NEW h \in wire, Lost(h)
      PROVE  Exact(p)'
  BY <1>8 DEF Lost, kernelVars, storeVars, Exact, StoreExact
<1>9. CASE DeleteRule
  BY <1>9, EmptyFields DEF DeleteRule, Save, kernelVars, Exact, StoreExact
<1>10. CASE SaveAgain \/ PanelRestarts
  BY <1>10 DEF SaveAgain, PanelRestarts, kernelVars, Exact, StoreExact
<1> QED
  BY <1>1, <1>2, <1>3, <1>4, <1>5, <1>6, <1>7, <1>8, <1>9, <1>10 DEF TrafficNext

LEMMA ExactTotals ==
    ASSUME TrafficInv, Complete
    PROVE  NoneMissed
<1> SUFFICES ASSUME ~muddled, ~anew
             PROVE  store.totals = store.at /\ saved.totals = saved.at
  BY DEF NoneMissed
<1>1. \A p \in Protocols : store.totals[p] = store.at[p] /\ saved.totals[p] = saved.at[p]
  BY DEF Complete, Exact, StoreExact
<1>2. /\ store.totals \in Amounts /\ store.at \in Amounts
      /\ saved.totals \in Amounts /\ saved.at \in Amounts
  BY StoreTypes DEF TrafficInv, TrafficTypeOK
<1> QED
  BY <1>1, <1>2 DEF Amounts

\* No traffic is missed until a table is loaded anew (UpdateHeartbeat).
THEOREM TotalsAreExact == TrafficSpec => []NoneMissed
<1>1. TrafficInit => Complete
  BY ExactStart DEF Complete
<1>2. TrafficInv /\ Complete /\ [TrafficNext]_trafficVars => Complete'
  <2> SUFFICES ASSUME TrafficInv, Complete, [TrafficNext]_trafficVars,
                      ~muddled', ~anew', NEW p \in Protocols
               PROVE  Exact(p)'
    BY DEF Complete
  <2>1. ~muddled /\ ~anew
    BY MuddleStays, AnewStays
  <2> QED
    BY <2>1, Halves, ExactStep DEF TrafficInv, Complete
<1>3. TrafficInv /\ Complete => NoneMissed
  BY ExactTotals
<1> QED
  BY <1>1, <1>2, <1>3, TrafficSafe, PTL DEF TrafficSpec

=============================================================================
