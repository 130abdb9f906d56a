------------------------ MODULE StrictFirewall_proofs ------------------------
(***************************************************************************)
(* Proofs about StrictFirewall, for every number of guards.                *)
(*                                                                         *)
(* Inv is inductive, also when commands fail and the agent crashes.  The   *)
(* idea is in ProvenWhileApplying: from the moment the panel answers until *)
(* the next guard is loaded, the table holds proven guards only, since all *)
(* that others can do to it meanwhile is to take guards away and to bring  *)
(* proven ones back.  So that is what Apply takes its snapshot of, and no  *)
(* timer that it or ConfirmReachable cancels was still needed.             *)
(***************************************************************************)
EXTENDS StrictFirewall, TLAPS

\* An Apply of the strict mode has a number left for its guard.
Room ==
    /\ pc \in {"ensure", "load"} => mode = "strict"
    /\ pc \in {"apply", "guard", "ensure", "load"} /\ mode = "strict"
         => loaded < MaxGuards

\* Only loaded guards have timers and confirmations, and a timer that is
\* pending is not confirmed.
Numbered ==
    /\ \A g \in Guards : g > loaded => timer[g] = "none"
    /\ \A g \in confirmed : g <= loaded
    /\ pending \notin confirmed

\* Until the next guard is loaded, the table holds proven guards only.
ProvenWhileApplying ==
    /\ pc \in {"apply", "guard", "ensure", "load", "confirm"} => Held(guard) \subseteq proven
    /\ pc \in {"ensure", "load"} => Held(snapshot) \subseteq proven

Inv ==
    /\ TypeOK
    /\ PendingIsArmed
    /\ RollbackIsSafe
    /\ ConfirmedNotRolledBack
    /\ Room
    /\ Numbered
    /\ ProvenWhileApplying

\* What the proofs need of the constants.
LEMMA MaxGuardsNat == MaxGuards \in Nat
  BY GuardConstants

LEMMA NoTimerIsNoGuard == NoTimer \notin Guards
  BY GuardConstants

\* The initial states satisfy the invariant.
LEMMA InitInv == Init => Inv
  <1> SUFFICES ASSUME Init
               PROVE  Inv
    OBVIOUS
  <1> USE DEF Init
  <1>1. TypeOK
    <2>1. timer \in [Guards -> Phases] /\ saved \in [Guards -> Tables]
      BY DEF Phases, Tables
    <2>2. loaded \in 0..MaxGuards
      BY MaxGuardsNat
    <2> QED
      BY <2>1, <2>2 DEF TypeOK, Tables, Modes, Steps
  <1>2. PendingIsArmed /\ RollbackIsSafe /\ ConfirmedNotRolledBack
    BY DEF PendingIsArmed, RollbackIsSafe, ConfirmedNotRolledBack
  <1>3. Room
    BY DEF Room
  <1>4. Numbered /\ ProvenWhileApplying
    BY DEF Numbered, ProvenWhileApplying
  <1> QED
    BY <1>1, <1>2, <1>3, <1>4 DEF Inv

\* What is in a table is a set of guards.
LEMMA HeldGuards == \A table \in Tables : Held(table) \in SUBSET Guards
  BY DEF Tables, Held

\* No step changes the shape of the state.
LEMMA TypeStep == TypeOK /\ Room /\ [Next]_vars => TypeOK'
  <1> SUFFICES ASSUME TypeOK, Room, [Next]_vars
               PROVE  TypeOK'
    OBVIOUS
  <1> USE HeldGuards DEF TypeOK, Tables, Modes, Steps, Phases
  <1>1. ASSUME NEW m \in Modes, NEW apply \in BOOLEAN, PanelAnswers(m, apply)
        PROVE  TypeOK'
    BY <1>1 DEF PanelAnswers
  <1>2. CASE ApplyNat
    BY <1>2 DEF ApplyNat, Return
  <1>3. CASE RemoveGuard
    BY <1>3 DEF RemoveGuard, Return
  <1>4. CASE SnapshotGuard
    BY <1>4 DEF SnapshotGuard, Return
  <1>5. CASE EnsureTable
    BY <1>5 DEF EnsureTable, Return
  <1>6. CASE LoadGuard
    <2>1. CASE UNCHANGED <<guard, loaded, pending, timer, saved>>
      <3>1. /\ pc' = "status" /\ applied' \in BOOLEAN
            /\ UNCHANGED <<mode, snapshot, proven, confirmed>>
        BY <1>6 DEF LoadGuard, Return
      <3> QED
        BY <2>1, <3>1
    <2>2. CASE ~UNCHANGED <<guard, loaded, pending, timer, saved>>
      <3>1. loaded + 1 \in Guards /\ loaded + 1 \in 0..MaxGuards
        BY <1>6, MaxGuardsNat DEF LoadGuard, Room, Guards
      <3>2. /\ loaded' = loaded + 1
            /\ guard' = {loaded + 1}
            /\ pending' = loaded + 1
            /\ timer' = [timer EXCEPT ![loaded + 1] = "armed"]
            /\ saved' = [saved EXCEPT ![loaded + 1] = snapshot]
            /\ pc' = "status" /\ applied' = TRUE
            /\ UNCHANGED <<mode, snapshot, proven, confirmed>>
        BY <1>6, <2>2 DEF LoadGuard, Arm, Return
      <3>3. guard' \in Tables
        BY <3>1, <3>2
      <3>4. timer' \in [Guards -> Phases] /\ saved' \in [Guards -> Tables]
        BY <3>1, <3>2
      <3> QED
        BY <3>1, <3>2, <3>3, <3>4
    <2> QED
      BY <2>1, <2>2
  <1>7. ASSUME NEW m \in Modes, StatusAnswered(m)
        PROVE  TypeOK'
    BY <1>7 DEF StatusAnswered
  <1>8. CASE StatusLost
    BY <1>8 DEF StatusLost
  <1>9. CASE ConfirmReachable
    BY <1>9 DEF ConfirmReachable
  <1>10. ASSUME NEW g \in Guards, Rollback(g)
         PROVE  TypeOK'
    BY <1>10 DEF Rollback, TimerFires, TimerStops, RestoreDelete, RestoreLoad
  <1>11. CASE Crash
    BY <1>11 DEF Crash
  <1>12. CASE UNCHANGED vars
    BY <1>12 DEF vars
  <1> QED
    BY <1>1, <1>2, <1>3, <1>4, <1>5, <1>6, <1>7, <1>8, <1>9, <1>10, <1>11, <1>12
       DEF Next, Heartbeat

\* Every step preserves the invariant.
LEMMA InvStep == Inv /\ [Next]_vars => Inv'
  <1> SUFFICES ASSUME Inv, [Next]_vars
               PROVE  Inv'
    OBVIOUS
  <1>0. TypeOK /\ TypeOK'
    BY TypeStep DEF Inv
  <1> DEFINE Rest == /\ PendingIsArmed
                     /\ RollbackIsSafe
                     /\ ConfirmedNotRolledBack
                     /\ Room
                     /\ Numbered
                     /\ ProvenWhileApplying
  <1>r. Rest
    BY DEF Inv
  <1> USE <1>0, <1>r, NoTimerIsNoGuard
  <1> USE DEF PendingIsArmed, RollbackIsSafe, ConfirmedNotRolledBack, Room, Numbered,
              ProvenWhileApplying
  <1> SUFFICES Rest'
    BY DEF Inv
  <1>1. ASSUME NEW m \in Modes, NEW apply \in BOOLEAN, PanelAnswers(m, apply)
        PROVE  Rest'
    <2>1. /\ guard' = guard /\ timer' = timer /\ saved' = saved
          /\ loaded' = loaded /\ confirmed' = confirmed
          /\ proven' = proven \cup Held(guard)
      BY <1>1 DEF PanelAnswers
    <2>2. pending' = pending \/ pending' = NoTimer
      BY <1>1 DEF PanelAnswers
    <2>3. PendingIsArmed' /\ Numbered'
      <3>1. pending' # NoTimer => timer'[pending'] = "armed"
        BY <2>1, <2>2
      <3>2. mode' = "managed" => pending' = NoTimer
        BY <1>1 DEF PanelAnswers
      <3>3. pending' \notin confirmed'
        BY <2>1, <2>2 DEF TypeOK
      <3> QED
        BY <2>1, <3>1, <3>2, <3>3
    <2>4. RollbackIsSafe' /\ ConfirmedNotRolledBack'
      BY <2>1
    <2>5. Room' /\ ProvenWhileApplying'
      BY <1>1 DEF PanelAnswers
    <2> QED
      BY <2>3, <2>4, <2>5
  <1>2. CASE ApplyNat
    BY <1>2 DEF ApplyNat, Return
  <1>3. CASE RemoveGuard
    BY <1>3 DEF RemoveGuard, Return, Held
  <1>4. CASE SnapshotGuard
    BY <1>4 DEF SnapshotGuard, Return
  <1>5. CASE EnsureTable
    BY <1>5 DEF EnsureTable, Return, Held
  <1>6. CASE LoadGuard
    <2>1. CASE UNCHANGED <<guard, loaded, pending, timer, saved>>
      <3>1. pc' = "status" /\ UNCHANGED <<mode, snapshot, proven, confirmed>>
        BY <1>6 DEF LoadGuard, Return
      <3> QED
        BY <2>1, <3>1
    <2>2. CASE ~UNCHANGED <<guard, loaded, pending, timer, saved>>
      <3> DEFINE n == loaded + 1
      <3>1. /\ loaded' = n /\ pending' = n
            /\ timer' = [timer EXCEPT ![n] = "armed"]
            /\ saved' = [saved EXCEPT ![n] = snapshot]
            /\ pc = "load" /\ pc' = "status"
            /\ UNCHANGED <<mode, proven, confirmed>>
        BY <1>6, <2>2 DEF LoadGuard, Arm, Return
      <3>2. n \in Guards /\ n > loaded
        BY <3>1, MaxGuardsNat DEF Guards, TypeOK
      <3>3. timer'[n] = "armed" /\ saved'[n] = snapshot
        BY <3>1, <3>2 DEF TypeOK
      <3>4. \A g \in Guards \ {n} : timer'[g] = timer[g] /\ saved'[g] = saved[g]
        BY <3>1 DEF TypeOK
      <3>5. Held(snapshot) \subseteq proven /\ mode = "strict"
        BY <3>1
      <3> HIDE DEF n
      <3>6. PendingIsArmed' /\ Room'
        BY <3>1, <3>3, <3>5
      <3>7. RollbackIsSafe'
        BY <3>1, <3>3, <3>4, <3>5
      <3>8. ConfirmedNotRolledBack'
        BY <3>1, <3>3, <3>4 DEF TypeOK
      <3>9. Numbered'
        <4>1. \A g \in Guards : g > n => timer'[g] = "none"
          BY <3>2, <3>4 DEF Guards, TypeOK, n
        <4>2. \A g \in confirmed : g <= n /\ g # n
          BY <3>2 DEF Guards, TypeOK, n
        <4> QED
          BY <3>1, <4>1, <4>2
      <3> QED
        BY <3>1, <3>6, <3>7, <3>8, <3>9
    <2> QED
      BY <2>1, <2>2
  <1>7. ASSUME NEW m \in Modes, StatusAnswered(m)
        PROVE  Rest'
    <2>1. /\ guard' = guard /\ timer' = timer /\ saved' = saved
          /\ loaded' = loaded /\ confirmed' = confirmed
          /\ proven' = proven \cup Held(guard)
      BY <1>7 DEF StatusAnswered
    <2>2. pending' = pending \/ pending' = NoTimer
      BY <1>7 DEF StatusAnswered
    <2>3. PendingIsArmed' /\ Numbered'
      <3>1. pending' # NoTimer => timer'[pending'] = "armed"
        BY <2>1, <2>2
      <3>2. mode' = "managed" => pending' = NoTimer
        BY <1>7 DEF StatusAnswered
      <3>3. pending' \notin confirmed'
        BY <2>1, <2>2 DEF TypeOK
      <3> QED
        BY <2>1, <3>1, <3>2, <3>3
    <2>4. RollbackIsSafe' /\ ConfirmedNotRolledBack'
      BY <2>1
    <2>5. Room' /\ ProvenWhileApplying'
      BY <1>7 DEF StatusAnswered
    <2> QED
      BY <2>3, <2>4, <2>5
  <1>8. CASE StatusLost
    BY <1>8 DEF StatusLost
  <1>9. CASE ConfirmReachable
    <2>1. /\ pending' = NoTimer /\ pc' = "idle"
          /\ confirmed' = confirmed \cup ({pending} \cap Guards)
          /\ UNCHANGED <<loaded, mode, timer, saved, proven>>
      BY <1>9 DEF ConfirmReachable
    <2>2. pending \in Guards => timer[pending] = "armed"
      OBVIOUS
    <2>3. ConfirmedNotRolledBack'
      BY <2>1, <2>2
    <2>4. Numbered'
      <3>1. pending \in Guards => pending <= loaded
        BY <2>2, MaxGuardsNat DEF Guards, TypeOK
      <3> QED
        BY <2>1, <3>1 DEF TypeOK
    <2> QED
      BY <2>1, <2>3, <2>4
  <1>10. ASSUME NEW g \in Guards, TimerFires(g)
         PROVE  Rest'
    BY <1>10 DEF TimerFires, TypeOK, Locked
  <1>11. ASSUME NEW g \in Guards, TimerStops(g)
         PROVE  Rest'
    BY <1>11 DEF TimerStops, TypeOK, Locked
  <1>12. ASSUME NEW g \in Guards, RestoreDelete(g)
         PROVE  Rest'
    BY <1>12 DEF RestoreDelete, TypeOK, Held
  <1>13. ASSUME NEW g \in Guards, RestoreLoad(g)
         PROVE  Rest'
    BY <1>13 DEF RestoreLoad, TypeOK, Held
  <1>14. CASE Crash
    BY <1>14 DEF Crash, TypeOK
  <1>15. CASE UNCHANGED vars
    BY <1>15 DEF vars
  <1> QED
    BY <1>1, <1>2, <1>3, <1>4, <1>5, <1>6, <1>7, <1>8, <1>9, <1>10, <1>11, <1>12, <1>13, <1>14, <1>15
       DEF Next, Heartbeat, Rollback

\* The invariant holds in every reachable state.
THEOREM Invariance == Spec => []Inv
  <1>1. Init => Inv
    BY InitInv
  <1>2. Inv /\ [Next]_vars => Inv'
    BY InvStep
  <1> QED
    BY <1>1, <1>2, PTL DEF Spec

\* The variables keep the shape TypeOK gives them, and no more guards are
\* loaded than Apply may load.
THEOREM TypeCorrect == Spec => []TypeOK
  BY Invariance, PTL DEF Inv

\* What rollbackCancel would cancel still waits, and nothing waits in managed
\* mode.
THEOREM PendingTellsTruth == Spec => []PendingIsArmed
  BY Invariance, PTL DEF Inv

\* Every rollback leads back to a guard under which the panel answered, also
\* across crashes, failed commands and timers armed over one another.
THEOREM RollbacksAreSafe == Spec => []RollbackIsSafe
  BY Invariance, PTL DEF Inv

\* ConfirmReachable and rollbackFirewall never both win.
THEOREM ConfirmExcludesRollback == Spec => []ConfirmedNotRolledBack
  BY Invariance, PTL DEF Inv

-----------------------------------------------------------------------------
(* An agent that does not crash watches its unproven guard.                *)

\* No step but a crash leaves an unproven guard without its rollback.
LEMMA WatchedStep ==
    ASSUME ~MayCrash
    PROVE  Inv /\ UnprovenIsWatched /\ [Next]_vars => UnprovenIsWatched'
  <1> SUFFICES ASSUME Inv, UnprovenIsWatched, [Next]_vars
               PROVE  UnprovenIsWatched'
    OBVIOUS
  <1>0. TypeOK /\ PendingIsArmed /\ RollbackIsSafe /\ ProvenWhileApplying
    BY DEF Inv
  <1> USE <1>0, NoTimerIsNoGuard DEF UnprovenIsWatched
  <1>1. ASSUME NEW m \in Modes, NEW apply \in BOOLEAN, PanelAnswers(m, apply)
        PROVE  UnprovenIsWatched'
    BY <1>1 DEF PanelAnswers
  <1>2. CASE ApplyNat
    BY <1>2 DEF ApplyNat
  <1>3. CASE RemoveGuard
    BY <1>3 DEF RemoveGuard, Held, ProvenWhileApplying
  <1>4. CASE SnapshotGuard
    BY <1>4 DEF SnapshotGuard
  <1>5. CASE EnsureTable
    BY <1>5 DEF EnsureTable, Held
  <1>6. CASE LoadGuard
    BY <1>6 DEF LoadGuard, Arm, Held
  <1>7. ASSUME NEW m \in Modes, StatusAnswered(m)
        PROVE  UnprovenIsWatched'
    BY <1>7 DEF StatusAnswered
  <1>8. CASE StatusLost
    BY <1>8 DEF StatusLost
  <1>9. CASE ConfirmReachable
    BY <1>9 DEF ConfirmReachable, ProvenWhileApplying
  <1>10. ASSUME NEW g \in Guards, TimerFires(g)
         PROVE  UnprovenIsWatched'
    BY <1>10, HeldGuards DEF TimerFires, TypeOK
  <1>11. ASSUME NEW g \in Guards, TimerStops(g)
         PROVE  UnprovenIsWatched'
    BY <1>11, HeldGuards DEF TimerStops, TypeOK
  <1>12. ASSUME NEW g \in Guards, RestoreDelete(g)
         PROVE  UnprovenIsWatched'
    BY <1>12, HeldGuards DEF RestoreDelete, TypeOK, Held
  <1>13. ASSUME NEW g \in Guards, RestoreLoad(g)
         PROVE  UnprovenIsWatched'
    BY <1>13, HeldGuards DEF RestoreLoad, TypeOK, PendingIsArmed, RollbackIsSafe, Held
  <1>14. CASE Crash
    BY <1>14 DEF Crash
  <1>15. CASE UNCHANGED vars
    BY <1>15 DEF vars
  <1> QED
    BY <1>1, <1>2, <1>3, <1>4, <1>5, <1>6, <1>7, <1>8, <1>9, <1>10, <1>11, <1>12,
       <1>13, <1>14, <1>15 DEF Next, Heartbeat, Rollback

\* Without a crash, a guard under which the panel never answered is watched by
\* its rollback until it is gone.
THEOREM UnprovenWatched ==
    ASSUME ~MayCrash
    PROVE  Spec => []UnprovenIsWatched
  <1>1. Init => UnprovenIsWatched
    BY DEF Init, UnprovenIsWatched, Held
  <1>2. Inv /\ UnprovenIsWatched /\ [Next]_vars => UnprovenIsWatched'
    BY WatchedStep
  <1> QED
    BY <1>1, <1>2, Invariance, PTL DEF Spec

=============================================================================
