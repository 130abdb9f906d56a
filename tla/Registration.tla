---------------------------- MODULE Registration ----------------------------
(***************************************************************************)
(* One-time tokens and the registration of nodes (internal/panel/store.go).*)
(*                                                                         *)
(* A registration holds the store's lock twice: once to use the token up   *)
(* and once to write the node.  In between the token may be deleted, the   *)
(* panel may stop, and in both a save may fail, so that the change is in   *)
(* memory only.  Agents repeat a registration whose answer they miss.      *)
(*                                                                         *)
(* Abstracted: names, secrets, metrics, and the node's rules and policy    *)
(* (RuleStore).  A token whose time is over is refused, which changes      *)
(* nothing; a refused request is not an action.                            *)
(***************************************************************************)
EXTENDS Naturals

CONSTANTS
    TokenIds,   \* identifiers RandomID("ntk") may return
    NodeIds,    \* identifiers RandomID("nod") may return
    Registrars, \* at most this many registrations are being handled
    Absent,     \* "no entry" in a map; no node, no token
    SaveMayFail \* whether writing the snapshot may fail

ASSUME RegistrationConstants == Absent \notin NodeIds \cup TokenIds

VARIABLES
    store,  \* Data.NodeTokens and Data.Nodes in memory
    saved,  \* the snapshot last written
    used,   \* identifiers handed out so far
    admits, \* the token each registration being handled has used up
    origin  \* the token by which each node was ever registered

registrationVars == <<store, saved, used, admits, origin>>

-----------------------------------------------------------------------------

\* common.NodeToken: usedCount of its one use, and usedByNode
Token == [spent : BOOLEAN, node : NodeIds \cup {Absent}]

ASSUME AbsentIsNoToken == Absent \notin Token

Store == [tokens : [TokenIds -> Token \cup {Absent}], nodes : SUBSET NodeIds]

EmptyStore == [tokens |-> [t \in TokenIds |-> Absent], nodes |-> {}]

Kept(t) == store.tokens[t] # Absent

\* saveLocked
SaveStore == saved' = store' \/ (SaveMayFail /\ saved' = saved)

SaveFailed == saved' # store'

\* CreateNodeToken
CreateToken(t) ==
    /\ t \notin used
    /\ used' = used \cup {t}
    /\ store' = [store EXCEPT !.tokens[t] = [spent |-> FALSE, node |-> Absent]]
    /\ SaveStore
    /\ UNCHANGED <<admits, origin>>

DeleteAnyToken(t) ==
    /\ Kept(t)
    /\ store' = [store EXCEPT !.tokens[t] = Absent]
    /\ SaveStore
    /\ UNCHANGED <<used, admits, origin>>

\* DeleteNodeToken: not of a token that is bound to a node
DeleteToken(t) ==
    /\ Kept(t)
    /\ store.tokens[t].node = Absent
    /\ store' = [store EXCEPT !.tokens[t] = Absent]
    /\ SaveStore
    /\ UNCHANGED <<used, admits, origin>>

ConsumeUnsaved(g, t) ==
    /\ admits[g] = Absent
    /\ Kept(t)
    /\ ~store.tokens[t].spent
    /\ store' = [store EXCEPT !.tokens[t].spent = TRUE]
    /\ admits' = [admits EXCEPT ![g] = t]
    /\ UNCHANGED <<saved, used, origin>>

\* ConsumeNodeToken.  If the save fails the registration ends with an error,
\* and the token is spent in memory all the same.
ConsumeToken(g, t) ==
    /\ admits[g] = Absent
    /\ Kept(t)
    /\ ~store.tokens[t].spent
    /\ store' = [store EXCEPT !.tokens[t].spent = TRUE]
    /\ SaveStore
    /\ admits' = IF SaveFailed THEN admits ELSE [admits EXCEPT ![g] = t]
    /\ UNCHANGED <<used, origin>>

\* A faulty variant: the record is updated if it is still there.
WriteNodeIfTokenKept(g, n) ==
    /\ admits[g] # Absent
    /\ n \notin used
    /\ used' = used \cup {n}
    /\ store' = [store EXCEPT !.nodes = @ \cup {n},
                              !.tokens[admits[g]] =
                                 IF @ = Absent THEN Absent ELSE [spent |-> TRUE, node |-> n]]
    /\ SaveStore
    /\ origin' = [origin EXCEPT ![n] = admits[g]]
    /\ admits' = [admits EXCEPT ![g] = Absent]

\* The second half of RegisterNode: the node, and the token's record as it was
\* read in the first half, which brings back a record deleted in between.
WriteNode(g, n) ==
    /\ admits[g] # Absent
    /\ n \notin used
    /\ used' = used \cup {n}
    /\ store' = [store EXCEPT !.nodes = @ \cup {n},
                              !.tokens[admits[g]] = [spent |-> TRUE, node |-> n]]
    /\ SaveStore
    /\ origin' = [origin EXCEPT ![n] = admits[g]]
    /\ admits' = [admits EXCEPT ![g] = Absent]

\* DeleteNode
RemoveNode(n) ==
    /\ n \in store.nodes
    /\ store' = [nodes  |-> store.nodes \ {n},
                 tokens |-> [t \in TokenIds |->
                               IF Kept(t) /\ store.tokens[t].node = n
                               THEN [store.tokens[t] EXCEPT !.node = Absent]
                               ELSE store.tokens[t]]]
    /\ SaveStore
    /\ UNCHANGED <<used, admits, origin>>

\* Some other handler saves what is in memory.
SaveAgain ==
    /\ saved' = store
    /\ UNCHANGED <<store, used, admits, origin>>

\* The panel stops and starts: the registrations being handled end.
PanelRestarts ==
    /\ store' = saved
    /\ admits' = [g \in Registrars |-> Absent]
    /\ UNCHANGED <<saved, used, origin>>

RegistrationInit ==
    /\ store = EmptyStore
    /\ saved = EmptyStore
    /\ used = {}
    /\ admits = [g \in Registrars |-> Absent]
    /\ origin = [n \in NodeIds |-> Absent]

RegistrationNext ==
    \/ \E t \in TokenIds : CreateToken(t) \/ DeleteToken(t)
    \/ \E g \in Registrars, t \in TokenIds : ConsumeToken(g, t)
    \/ \E g \in Registrars, n \in NodeIds : WriteNode(g, n)
    \/ \E n \in NodeIds : RemoveNode(n)
    \/ SaveAgain
    \/ PanelRestarts

RegistrationSpec == RegistrationInit /\ [][RegistrationNext]_registrationVars

-----------------------------------------------------------------------------
(* Properties.                                                             *)

RegistrationTypeOK ==
    /\ store \in Store
    /\ saved \in Store
    /\ used \subseteq TokenIds \cup NodeIds
    /\ admits \in [Registrars -> TokenIds \cup {Absent}]
    /\ origin \in [NodeIds -> TokenIds \cup {Absent}]

\* A token is good for one node (docs/ARCHITECTURE.md:16): no two nodes are
\* ever registered by it, through repeated and overlapping registrations,
\* failed saves, restarts, and a record that is deleted while it is in use
\* (ConsumeNodeToken, RegisterNode).
OneNodePerToken ==
    \A m, n \in NodeIds :
        origin[m] # Absent /\ origin[m] = origin[n] => m = n

Recorded(s) == \A n \in s.nodes : /\ origin[n] # Absent
                                  /\ s.tokens[origin[n]] # Absent
                                  /\ s.tokens[origin[n]].node = n

\* Every node keeps the record of the token it came by, which the tokens page
\* calls its audit trail (TokensPage.tsx:117): also if the record was deleted
\* in the middle of the registration (DeleteNodeToken, RegisterNode, load).
NodesAreRecorded == Recorded(store) /\ Recorded(saved)

=============================================================================
