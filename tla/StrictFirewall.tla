--------------------------- MODULE StrictFirewall ---------------------------
(***************************************************************************)
(* The guard table of one node (table inet relaycore_guard), the rollback  *)
(* timers of internal/agent/nft.go and the heartbeat loop of               *)
(* internal/agent/agent.go that applies and confirms a strict firewall.    *)
(*                                                                         *)
(* Three kinds of process act: the heartbeat loop, one goroutine for every *)
(* rollback timer ever armed, and the environment (the network, the crash  *)
(* of the agent).  NFTManager.mu is held from the end of the NAT part of   *)
(* Apply to the end of Apply; each nft command is a step of its own, and a *)
(* rollback runs its commands after it has released the mutex.             *)
(*                                                                         *)
(* What is abstracted: a guard is known by the number of the Apply that    *)
(* loaded it, the rules and ports it was rendered from are left out; a     *)
(* table holds the chains of a set of guards, because nft -f of a listed   *)
(* table adds to a table that exists.  Whether the panel's rule version    *)
(* differs from the agent's is a choice of the environment.  A rollback    *)
(* delay may end at any moment.  Dry-run mode, which runs no command, and  *)
(* the rescue command are left out.                                        *)
(***************************************************************************)
EXTENDS Integers

CONSTANTS
    MaxGuards,       \* bound on the guards ever loaded
    NoTable,         \* the table does not exist
    NoTimer,         \* rollbackCancel = nil
    CommandsMayFail, \* whether an nft command may fail
    MayCrash         \* whether the agent may crash and be restarted

Guards == 1..MaxGuards

ASSUME GuardConstants ==
    /\ MaxGuards \in Nat
    /\ \A S \in SUBSET Guards : NoTable # S
    /\ NoTimer \notin Guards
    /\ CommandsMayFail \in BOOLEAN
    /\ MayCrash \in BOOLEAN

VARIABLES
    guard,    \* the kernel's table: NoTable or the guards it holds
    loaded,   \* how many guards were loaded so far
    mode,     \* NFTManager.firewall.Mode
    pc,       \* where the heartbeat loop is
    applied,  \* applyErr = nil
    snapshot, \* the local variable of applyFirewallPolicy
    pending,  \* NFTManager.rollbackCancel: the guard whose timer it cancels
    timer,    \* of every guard: the state of its rollback goroutine
    saved,    \* of every guard: the snapshot its rollback restores
    proven,   \* guards the table held while the panel answered
    confirmed \* guards whose rollback ConfirmReachable cancelled

vars == <<guard, loaded, mode, pc, applied, snapshot, pending, timer, saved,
          proven, confirmed>>

Modes == {"managed", "strict"}
Tables == {NoTable} \cup SUBSET Guards

\* Between heartbeats; about to call Apply; in Apply; waiting for the answer
\* to the status heartbeat; about to call ConfirmReachable.
Steps == {"idle", "apply", "guard", "ensure", "load", "status", "confirm"}

\* Not armed; waiting for the delay or for cancel; about to restore; between
\* the delete and the load of the restore; ended; ended with an error.
Phases == {"none", "armed", "fired", "deleted", "done", "failed"}

Held(table) == IF table = NoTable THEN {} ELSE table

\* NFTManager.mu is held by Apply.
Locked == pc \in {"guard", "ensure", "load"}

-----------------------------------------------------------------------------
(* The heartbeat loop.  Definitions that begin with no comment of their own *)
(* are faulty variants of the one after them, used to test that the        *)
(* properties notice.                                                      *)

ModeOnly(m, apply) ==
    /\ pc = "idle"
    /\ apply /\ m = "strict" => loaded < MaxGuards
    /\ mode' = m
    /\ proven' = proven \cup Held(guard)
    /\ pc' = IF apply THEN "apply" ELSE "idle"
    /\ UNCHANGED <<guard, loaded, applied, snapshot, pending, timer, saved, confirmed>>

\* The answer to a heartbeat, with the panel's mode m for this node:
\* applyPanelFirewallPolicy and SetFirewallOptions.  A policy that changed
\* makes the rule version -1 and so calls for Apply, unless the configuration
\* cannot be saved; the same mode with other rules, ports or delay may.
PanelAnswers(m, apply) ==
    /\ pc = "idle"
    /\ apply /\ m = "strict" => loaded < MaxGuards
    /\ mode' = m
    /\ pending' = IF m = "strict" THEN pending ELSE NoTimer
    /\ proven' = proven \cup Held(guard)
    /\ pc' = IF apply THEN "apply" ELSE "idle"
    /\ UNCHANGED <<guard, loaded, applied, snapshot, timer, saved, confirmed>>

\* Apply returns: heartbeatOnce sends the status heartbeat.
Return(ok) ==
    /\ pc' = "status"
    /\ applied' = ok

\* Apply up to applyFirewallPolicy: the NAT table and its rules.
ApplyNat ==
    /\ pc = "apply"
    /\ \/ pc' = "guard" /\ UNCHANGED applied
       \/ CommandsMayFail /\ Return(FALSE)
    /\ UNCHANGED <<guard, loaded, mode, snapshot, pending, timer, saved,
                   proven, confirmed>>

\* applyFirewallPolicy in managed mode
RemoveGuard ==
    /\ pc = "guard"
    /\ mode = "managed"
    /\ pending' = NoTimer
    /\ \/ guard' = NoTable /\ Return(TRUE)
       \/ CommandsMayFail /\ UNCHANGED guard /\ Return(FALSE)
    /\ UNCHANGED <<loaded, mode, snapshot, timer, saved, proven, confirmed>>

\* snapshotNFTTable
SnapshotGuard ==
    /\ pc = "guard"
    /\ mode = "strict"
    /\ \/ snapshot' = guard /\ pc' = "ensure" /\ UNCHANGED applied
       \/ CommandsMayFail /\ UNCHANGED snapshot /\ Return(FALSE)
    /\ UNCHANGED <<guard, loaded, mode, pending, timer, saved, proven, confirmed>>

\* ensureNFTTable
EnsureTable ==
    /\ pc = "ensure"
    /\ \/ guard' = Held(guard) /\ pc' = "load" /\ UNCHANGED applied
       \/ CommandsMayFail /\ UNCHANGED guard /\ Return(FALSE)
    /\ UNCHANGED <<loaded, mode, snapshot, pending, timer, saved, proven, confirmed>>

\* armFirewallRollbackLocked for guard g: the timer before it is cancelled.
Arm(g, table) ==
    /\ pending' = g
    /\ timer' = [timer EXCEPT ![g] = "armed"]
    /\ saved' = [saved EXCEPT ![g] = table]

LoadGuardThenSnapshot ==
    /\ pc = "load"
    /\ \/ /\ guard # NoTable
          /\ loaded' = loaded + 1
          /\ guard' = {loaded'}
          /\ Arm(loaded', guard')
          /\ Return(TRUE)
       \/ /\ guard = NoTable \/ CommandsMayFail
          /\ UNCHANGED <<guard, loaded, pending, timer, saved>>
          /\ Return(FALSE)
    /\ UNCHANGED <<mode, snapshot, proven, confirmed>>

\* The check and the load of the rendered guard, which begins by deleting the
\* table (and fails if a rollback deleted it first), and the timer.
LoadGuard ==
    /\ pc = "load"
    /\ \/ /\ guard # NoTable
          /\ loaded' = loaded + 1
          /\ guard' = {loaded'}
          /\ Arm(loaded', snapshot)
          /\ Return(TRUE)
       \/ /\ guard = NoTable \/ CommandsMayFail
          /\ UNCHANGED <<guard, loaded, pending, timer, saved>>
          /\ Return(FALSE)
    /\ UNCHANGED <<mode, snapshot, proven, confirmed>>

\* The panel answers the status heartbeat: applyPanelFirewallPolicy, whose
\* result is dropped.
StatusAnswered(m) ==
    /\ pc = "status"
    /\ proven' = proven \cup Held(guard)
    /\ IF applied
       THEN /\ mode' = m
            /\ pending' = IF m = "strict" THEN pending ELSE NoTimer
            /\ pc' = "confirm"
       ELSE /\ pc' = "idle"
            /\ UNCHANGED <<mode, pending>>
    /\ UNCHANGED <<guard, loaded, applied, snapshot, timer, saved, confirmed>>

ConfirmAnyway ==
    /\ pc = "status"
    /\ pc' = "confirm"
    /\ UNCHANGED <<guard, loaded, mode, applied, snapshot, pending, timer, saved,
                   proven, confirmed>>

\* The status heartbeat is lost or times out, or is never sent because the
\* configuration cannot be saved.
StatusLost ==
    /\ pc = "status"
    /\ pc' = "idle"
    /\ UNCHANGED <<guard, loaded, mode, applied, snapshot, pending, timer, saved,
                   proven, confirmed>>

ConfirmReachable ==
    /\ pc = "confirm"
    /\ pc' = "idle"
    /\ pending' = NoTimer
    /\ confirmed' = confirmed \cup ({pending} \cap Guards)
    /\ UNCHANGED <<guard, loaded, mode, applied, snapshot, timer, saved, proven>>

-----------------------------------------------------------------------------
(* The goroutine of guard g's timer.                                       *)

FireUnchecked(g) ==
    /\ timer[g] = "armed"
    /\ ~Locked
    /\ pending' = NoTimer
    /\ timer' = [timer EXCEPT ![g] = "fired"]
    /\ UNCHANGED <<guard, loaded, mode, pc, applied, snapshot, saved, proven, confirmed>>

\* rollbackFirewall, under the mutex
TimerFires(g) ==
    /\ timer[g] = "armed"
    /\ pending = g
    /\ ~Locked
    /\ pending' = NoTimer
    /\ timer' = [timer EXCEPT ![g] = "fired"]
    /\ UNCHANGED <<guard, loaded, mode, pc, applied, snapshot, saved, proven, confirmed>>

\* The timer was cancelled, and the goroutine ends, be it by the cancel
\* channel or by the comparison at the start of rollbackFirewall.
TimerStops(g) ==
    /\ timer[g] = "armed"
    /\ pending # g
    /\ timer' = [timer EXCEPT ![g] = "done"]
    /\ UNCHANGED <<guard, loaded, mode, pc, applied, snapshot, pending, saved,
                   proven, confirmed>>

RestoreWithoutDelete(g) ==
    /\ timer[g] = "fired"
    /\ timer' = [timer EXCEPT ![g] = IF saved[g] = NoTable THEN "done" ELSE "deleted"]
    /\ UNCHANGED <<guard, loaded, mode, pc, applied, snapshot, pending, saved,
                   proven, confirmed>>

\* restoreFirewallSnapshot: delete the table
RestoreDelete(g) ==
    /\ timer[g] = "fired"
    /\ \/ /\ guard' = NoTable
          /\ timer' = [timer EXCEPT ![g] = IF saved[g] = NoTable THEN "done" ELSE "deleted"]
       \/ /\ CommandsMayFail
          /\ timer' = [timer EXCEPT ![g] = "failed"]
          /\ UNCHANGED guard
    /\ UNCHANGED <<loaded, mode, pc, applied, snapshot, pending, saved, proven, confirmed>>

\* restoreFirewallSnapshot: load what was listed, on top of whatever is there
RestoreLoad(g) ==
    /\ timer[g] = "deleted"
    /\ \/ /\ guard' = Held(guard) \cup Held(saved[g])
          /\ timer' = [timer EXCEPT ![g] = "done"]
       \/ /\ CommandsMayFail
          /\ timer' = [timer EXCEPT ![g] = "failed"]
          /\ UNCHANGED guard
    /\ UNCHANGED <<loaded, mode, pc, applied, snapshot, pending, saved, proven, confirmed>>

-----------------------------------------------------------------------------
\* The agent dies and systemd starts it again, with the mode of its flags:
\* the goroutines are gone, the kernel's table stays.
Crash ==
    /\ MayCrash
    /\ mode' \in Modes
    /\ pc' = "idle"
    /\ pending' = NoTimer
    /\ timer' = [g \in Guards |-> IF timer[g] = "none" THEN "none" ELSE "done"]
    /\ UNCHANGED <<guard, loaded, applied, snapshot, saved, proven, confirmed>>

Init ==
    /\ guard = NoTable
    /\ loaded = 0
    /\ mode \in Modes
    /\ pc = "idle"
    /\ applied = FALSE
    /\ snapshot = NoTable
    /\ pending = NoTimer
    /\ timer = [g \in Guards |-> "none"]
    /\ saved = [g \in Guards |-> NoTable]
    /\ proven = {}
    /\ confirmed = {}

Heartbeat ==
    \/ ApplyNat
    \/ RemoveGuard
    \/ SnapshotGuard
    \/ EnsureTable
    \/ LoadGuard
    \/ \E m \in Modes : StatusAnswered(m)
    \/ StatusLost
    \/ ConfirmReachable

Rollback(g) ==
    \/ TimerFires(g)
    \/ TimerStops(g)
    \/ RestoreDelete(g)
    \/ RestoreLoad(g)

\* A heartbeat that is not answered changes nothing and is no step.
Next ==
    \/ \E m \in Modes, apply \in BOOLEAN : PanelAnswers(m, apply)
    \/ Heartbeat
    \/ \E g \in Guards : Rollback(g)
    \/ Crash

Spec == Init /\ [][Next]_vars

\* The loop and the goroutines are scheduled, a delay ends and the status
\* heartbeat is answered, fails or times out (http.Client.Timeout).  Nothing
\* obliges the panel to answer, and it need never be asked to Apply.
FairSpec ==
    /\ Spec
    /\ WF_vars(Heartbeat)
    /\ \A g \in Guards : WF_vars(Rollback(g))

-----------------------------------------------------------------------------
(* Properties.                                                             *)

\* The shape of the state.
TypeOK ==
    /\ guard \in Tables
    /\ loaded \in 0..MaxGuards
    /\ mode \in Modes
    /\ pc \in Steps
    /\ applied \in BOOLEAN
    /\ snapshot \in Tables
    /\ pending \in Guards \cup {NoTimer}
    /\ timer \in [Guards -> Phases]
    /\ saved \in [Guards -> Tables]
    /\ proven \subseteq Guards
    /\ confirmed \subseteq Guards

\* rollbackCancel tells the truth about the goroutines: what it would cancel
\* still waits, and in managed mode, where FirewallMode does not look at it,
\* nothing does (SetFirewallOptions, ConfirmReachable, rollbackFirewall).
PendingIsArmed ==
    /\ pending # NoTimer => timer[pending] = "armed"
    /\ mode = "managed" => pending = NoTimer

\* A guard under which the panel never answered does not stand alone: its
\* rollback waits, is about to remove it, or has reported that it failed
\* (applyFirewallPolicy, SetFirewallOptions, rollbackFirewall).
UnprovenIsWatched ==
    \A g \in Held(guard) \ proven :
        pending = g \/ timer[g] \in {"fired", "failed"}

\* A rollback leads back to a guard the panel was reached under, never to one
\* that is itself unproven, however often Apply arms the timer again before
\* the one before it was confirmed (applyFirewallPolicy takes the snapshot,
\* armFirewallRollbackLocked replaces the timer).
RollbackIsSafe ==
    \A g \in Guards :
        timer[g] \in {"armed", "fired", "deleted"} => Held(saved[g]) \subseteq proven

\* Confirmation and rollback exclude each other: whichever takes the mutex
\* first wins, also when the delay ends while the answer is being read
\* (ConfirmReachable, rollbackFirewall).
ConfirmedNotRolledBack ==
    \A g \in confirmed : timer[g] \notin {"fired", "deleted", "failed"}

\* A strict guard under which the panel cannot be reached goes away by
\* itself, or its rollback reports a command that failed (the promise of the
\* strict mode, NodeManager.tsx:164 and docs/NFTABLES.md:89).
UnprovenGuardEnds ==
    \A g \in Guards :
        g \in Held(guard) ~> g \notin Held(guard) \/ g \in proven \/ timer[g] = "failed"

\* frontend/src/components/NodeManager.tsx:159: the rollback comes when the
\* panel gets no heartbeat under the strict guard.  So once a heartbeat sent
\* under a guard was answered and handled, the guard's timer does not fire
\* (heartbeatOnce, rollbackFirewall).
RollbackOnlyUnproven ==
    [][\A g \in Guards : TimerFires(g) /\ pc = "idle" => g \notin proven]_vars

\* docs/NFTABLES.md:88: the panel's answer is what cancels the rollback of a
\* guard.  So no rollback removes a guard the panel has confirmed
\* (rollbackFirewall restores after it released the mutex).
ConfirmedGuardStays ==
    [][\A g \in Guards : RestoreDelete(g) => (Held(guard) \cap confirmed) \subseteq Held(guard')]_vars

=============================================================================
