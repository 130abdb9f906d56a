------------------------- MODULE TokenConsole_proofs -------------------------
(***************************************************************************)
(* Theorems about Registration, and about TokenConsole, which takes its    *)
(* steps, for every value of their constants.                              *)
(***************************************************************************)
EXTENDS TokenConsole, QueryCache_proofs

-----------------------------------------------------------------------------
(* The panel.                                                              *)

LEMMA AbsentIsOutside ==
    /\ Absent \notin NodeIds
    /\ Absent \notin TokenIds
    /\ \A t \in Token : t # Absent
  BY RegistrationConstants, AbsentIsNoToken

\* What the two changes of a record leave of it.
LEMMA TokenChanges ==
    ASSUME NEW t \in Token
    PROVE  /\ [t EXCEPT !.spent = TRUE] \in Token
           /\ [t EXCEPT !.spent = TRUE].spent
           /\ [t EXCEPT !.spent = TRUE].node = t.node
           /\ [t EXCEPT !.node = Absent] \in Token
           /\ [t EXCEPT !.node = Absent].spent = t.spent
  BY DEF Token

LEMMA NewTokens ==
    /\ [spent |-> FALSE, node |-> Absent] \in Token
    /\ \A n \in NodeIds : [spent |-> TRUE, node |-> n] \in Token
  BY DEF Token

LEMMA StoreTypes ==
    ASSUME NEW s \in Store
    PROVE  /\ s.tokens \in [TokenIds -> Token \cup {Absent}]
           /\ s.nodes \subseteq NodeIds
           /\ s = [tokens |-> s.tokens, nodes |-> s.nodes]
  BY DEF Store

LEMMA RegistrationTypeStart ==
    RegistrationInit => RegistrationTypeOK
  BY DEF RegistrationInit, RegistrationTypeOK, Store, EmptyStore

LEMMA RegistrationTypeStep ==
    ASSUME RegistrationTypeOK, [RegistrationNext]_registrationVars
    PROVE  RegistrationTypeOK'
<1> USE DEF RegistrationTypeOK, SaveStore
<1>1. CASE UNCHANGED registrationVars
  BY <1>1 DEF registrationVars
<1>2. ASSUME NEW t \in TokenIds, CreateToken(t)
      PROVE  RegistrationTypeOK'
  <2>1. store' \in Store
    BY <1>2, NewTokens DEF CreateToken, Store
  <2> QED
    BY <1>2, <2>1 DEF CreateToken
<1>3. ASSUME NEW t \in TokenIds, DeleteToken(t)
      PROVE  RegistrationTypeOK'
  <2>1. store' \in Store
    BY <1>3 DEF DeleteToken, Store
  <2> QED
    BY <1>3, <2>1 DEF DeleteToken
<1>4. ASSUME NEW g \in Registrars, NEW t \in TokenIds, ConsumeToken(g, t)
      PROVE  RegistrationTypeOK'
  <2>1. store.tokens[t] \in Token
    BY <1>4 DEF ConsumeToken, Kept, Store
  <2>2. store' \in Store
    BY <1>4, <2>1, TokenChanges DEF ConsumeToken, Store
  <2> QED
    BY <1>4, <2>2 DEF ConsumeToken
<1>5. ASSUME NEW g \in Registrars, NEW n \in NodeIds, WriteNode(g, n)
      PROVE  RegistrationTypeOK'
  <2>1. admits[g] \in TokenIds
    BY <1>5 DEF WriteNode
  <2>2. store' \in Store
    BY <1>5, <2>1, NewTokens DEF WriteNode, Store
  <2> QED
    BY <1>5, <2>1, <2>2 DEF WriteNode
<1>6. ASSUME NEW n \in NodeIds, RemoveNode(n)
      PROVE  RegistrationTypeOK'
  <2>1. \A t \in TokenIds :
           (IF Kept(t) /\ store.tokens[t].node = n
            THEN [store.tokens[t] EXCEPT !.node = Absent]
            ELSE store.tokens[t]) \in Token \cup {Absent}
    BY TokenChanges DEF Kept, Store
  <2>2. store' \in Store
    BY <1>6, <2>1 DEF RemoveNode, Store
  <2> QED
    BY <1>6, <2>2 DEF RemoveNode
<1>7. CASE SaveAgain
  BY <1>7 DEF SaveAgain
<1>8. CASE PanelRestarts
  BY <1>8 DEF PanelRestarts
<1> QED
  BY <1>1, <1>2, <1>3, <1>4, <1>5, <1>6, <1>7, <1>8 DEF RegistrationNext

\* A token that a registration or a node came by.
Taken(t) == (\E g \in Registrars : admits[g] = t) \/ (\E n \in NodeIds : origin[n] = t)

\* It is not used again from memory or from the snapshot.
UsedUp(s, t) == s.tokens[t] = Absent \/ s.tokens[t].spent

TakenAreUsedUp ==
    \A t \in TokenIds : Taken(t) => t \in used /\ UsedUp(store, t) /\ UsedUp(saved, t)

TakenOnce ==
    /\ \A g, h \in Registrars : admits[g] # Absent /\ admits[g] = admits[h] => g = h
    /\ \A g \in Registrars, n \in NodeIds : admits[g] # Absent => admits[g] # origin[n]

\* Whatever is in memory or in the snapshot has an identifier of its own.
NamesAreUsed ==
    /\ store.nodes \cup saved.nodes \subseteq used
    /\ \A t \in TokenIds : store.tokens[t] # Absent \/ saved.tokens[t] # Absent => t \in used

RegistrationInv ==
    /\ RegistrationTypeOK
    /\ TakenAreUsedUp
    /\ TakenOnce
    /\ OneNodePerToken
    /\ NamesAreUsed
    /\ NodesAreRecorded

LEMMA RegistrationStart == RegistrationInit => RegistrationInv
<1> SUFFICES ASSUME RegistrationInit
             PROVE  RegistrationInv
  OBVIOUS
<1>1. RegistrationTypeOK
  BY RegistrationTypeStart
<1>2. /\ \A g \in Registrars : admits[g] = Absent
      /\ \A n \in NodeIds : origin[n] = Absent
      /\ store.nodes = {} /\ saved.nodes = {}
      /\ \A t \in TokenIds : store.tokens[t] = Absent /\ saved.tokens[t] = Absent
  BY DEF RegistrationInit, EmptyStore
<1> QED
  BY <1>1, <1>2, AbsentIsOutside
  DEF RegistrationInv, TakenAreUsedUp, Taken, TakenOnce, OneNodePerToken, NamesAreUsed,
      NodesAreRecorded, Recorded

LEMMA TakenStep ==
    ASSUME RegistrationInv, RegistrationNext
    PROVE  TakenAreUsedUp' /\ TakenOnce' /\ OneNodePerToken'
<1> USE DEF RegistrationInv, RegistrationTypeOK, Store
<1>1. ASSUME UNCHANGED <<admits, origin>>, used \subseteq used',
             \A t \in TokenIds : Taken(t) => UsedUp(store', t) /\ UsedUp(saved', t)
      PROVE  TakenAreUsedUp' /\ TakenOnce' /\ OneNodePerToken'
  BY <1>1 DEF TakenAreUsedUp, Taken, UsedUp, TakenOnce, OneNodePerToken
<1>2. ASSUME NEW t \in TokenIds, CreateToken(t)
      PROVE  TakenAreUsedUp' /\ TakenOnce' /\ OneNodePerToken'
  <2>1. ~Taken(t)
    BY <1>2 DEF CreateToken, TakenAreUsedUp
  <2>2. \A u \in TokenIds : Taken(u) => UsedUp(store', u) /\ UsedUp(saved', u)
    BY <1>2, <2>1 DEF CreateToken, SaveStore, TakenAreUsedUp, UsedUp
  <2> QED
    BY <1>1, <1>2, <2>2 DEF CreateToken
<1>3. ASSUME NEW t \in TokenIds, DeleteToken(t)
      PROVE  TakenAreUsedUp' /\ TakenOnce' /\ OneNodePerToken'
  <2>1. \A u \in TokenIds : Taken(u) => UsedUp(store', u) /\ UsedUp(saved', u)
    BY <1>3 DEF DeleteToken, SaveStore, TakenAreUsedUp, UsedUp
  <2> QED
    BY <1>1, <1>3, <2>1 DEF DeleteToken
<1>4. ASSUME NEW g \in Registrars, NEW t \in TokenIds, ConsumeToken(g, t)
      PROVE  TakenAreUsedUp' /\ TakenOnce' /\ OneNodePerToken'
  <2>1. ~Taken(t)
    BY <1>4 DEF ConsumeToken, Kept, TakenAreUsedUp, UsedUp
  <2>2. \A u \in TokenIds : u # t => store'.tokens[u] = store.tokens[u]
    BY <1>4 DEF ConsumeToken
  <2>3. t \in used /\ store'.tokens[t].spent
    <3>1. store'.tokens[t] = [store.tokens[t] EXCEPT !.spent = TRUE]
      BY <1>4 DEF ConsumeToken
    <3>2. store.tokens[t] \in Token /\ t \in used
      BY <1>4 DEF ConsumeToken, Kept, NamesAreUsed
    <3> QED
      BY <3>1, <3>2, TokenChanges
  <2>4. CASE saved' = saved /\ UNCHANGED admits
    BY <1>4, <2>1, <2>2, <2>4, <1>1 DEF ConsumeToken, TakenAreUsedUp, UsedUp
  <2>5. CASE saved' = store' /\ admits' = [admits EXCEPT ![g] = t]
    <3>1. UNCHANGED <<used, origin>> /\ admits[g] = Absent
      BY <1>4 DEF ConsumeToken
    <3>2. \A u \in TokenIds : Taken(u)' => u = t \/ Taken(u)
      BY <2>5, <3>1 DEF Taken
    <3>3. TakenAreUsedUp'
      BY <2>2, <2>3, <2>5, <3>1, <3>2 DEF TakenAreUsedUp, UsedUp
    <3>4. TakenOnce'
      BY <2>1, <2>5, <3>1 DEF TakenOnce, Taken
    <3> QED
      BY <3>1, <3>3, <3>4 DEF OneNodePerToken
  <2> QED
    BY <1>4, <2>4, <2>5 DEF ConsumeToken, SaveStore, SaveFailed
<1>5. ASSUME NEW g \in Registrars, NEW n \in NodeIds, WriteNode(g, n)
      PROVE  TakenAreUsedUp' /\ TakenOnce' /\ OneNodePerToken'
  <2> DEFINE t == admits[g]
  <2>1. t \in TokenIds /\ Taken(t)
    BY <1>5 DEF WriteNode, Taken
  <2>2. /\ \A u \in TokenIds : u # t => store'.tokens[u] = store.tokens[u]
        /\ store'.tokens[t].spent
    BY <1>5, <2>1 DEF WriteNode
  <2>3. /\ admits' = [admits EXCEPT ![g] = Absent]
        /\ origin' = [origin EXCEPT ![n] = t]
        /\ used \subseteq used'
        /\ saved' = store' \/ saved' = saved
    BY <1>5 DEF WriteNode, SaveStore
  <2>4. \A u \in TokenIds : Taken(u)' => Taken(u)
    BY <2>1, <2>3, AbsentIsOutside DEF Taken
  <2>5. TakenAreUsedUp'
    BY <2>1, <2>2, <2>3, <2>4 DEF TakenAreUsedUp, UsedUp
  <2>6. TakenOnce'
    BY <2>1, <2>3 DEF TakenOnce
  <2>7. OneNodePerToken'
    BY <2>1, <2>3, AbsentIsOutside DEF TakenOnce, OneNodePerToken
  <2> QED
    BY <2>5, <2>6, <2>7
<1>6. ASSUME NEW n \in NodeIds, RemoveNode(n)
      PROVE  TakenAreUsedUp' /\ TakenOnce' /\ OneNodePerToken'
  <2>1. ASSUME NEW u \in TokenIds, UsedUp(store, u)
        PROVE  UsedUp(store', u)
    <3>1. store'.tokens[u] = IF Kept(u) /\ store.tokens[u].node = n
                             THEN [store.tokens[u] EXCEPT !.node = Absent]
                             ELSE store.tokens[u]
      BY <1>6 DEF RemoveNode
    <3>2. Kept(u) => store.tokens[u] \in Token
      BY DEF Kept
    <3> QED
      BY <2>1, <3>1, <3>2, TokenChanges DEF UsedUp, Kept
  <2>2. \A u \in TokenIds : Taken(u) => UsedUp(store', u) /\ UsedUp(saved', u)
    BY <1>6, <2>1 DEF RemoveNode, SaveStore, TakenAreUsedUp
  <2> QED
    BY <1>1, <1>6, <2>2 DEF RemoveNode
<1>7. CASE SaveAgain
  BY <1>1, <1>7 DEF SaveAgain, TakenAreUsedUp
<1>8. CASE PanelRestarts
  <2>1. /\ store' = saved /\ UNCHANGED <<saved, used, origin>>
        /\ \A g \in Registrars : admits'[g] = Absent
    BY <1>8 DEF PanelRestarts
  <2>2. \A u \in TokenIds : Taken(u)' => Taken(u)
    BY <2>1, AbsentIsOutside DEF Taken
  <2>3. TakenAreUsedUp'
    BY <2>1, <2>2 DEF TakenAreUsedUp, UsedUp
  <2> QED
    BY <2>1, <2>3 DEF TakenOnce, OneNodePerToken
<1> QED
  BY <1>2, <1>3, <1>4, <1>5, <1>6, <1>7, <1>8 DEF RegistrationNext

LEMMA RecordedStep ==
    ASSUME RegistrationInv, RegistrationNext
    PROVE  NamesAreUsed' /\ NodesAreRecorded'
<1> USE DEF RegistrationInv, RegistrationTypeOK, Store
<1>1. \A n \in store.nodes \cup saved.nodes : n \in NodeIds
  OBVIOUS
<1>2. ASSUME NEW t \in TokenIds, CreateToken(t)
      PROVE  NamesAreUsed' /\ NodesAreRecorded'
  <2>1. \A n \in NodeIds : origin[n] # t
    BY <1>2 DEF CreateToken, TakenAreUsedUp, Taken
  <2>2. /\ store'.nodes = store.nodes
        /\ \A u \in TokenIds : u # t => store'.tokens[u] = store.tokens[u]
        /\ used \subseteq used' /\ origin' = origin
        /\ saved' = store' \/ saved' = saved
    BY <1>2 DEF CreateToken, SaveStore
  <2>3. Recorded(store)' /\ Recorded(saved)'
    BY <2>1, <2>2 DEF NodesAreRecorded, Recorded
  <2>4. t \in used'
    BY <1>2 DEF CreateToken
  <2>5. NamesAreUsed'
    BY <2>2, <2>4 DEF NamesAreUsed
  <2> QED
    BY <2>3, <2>5 DEF NodesAreRecorded
<1>3. ASSUME NEW t \in TokenIds, DeleteToken(t)
      PROVE  NamesAreUsed' /\ NodesAreRecorded'
  <2>1. /\ store'.nodes = store.nodes
        /\ \A u \in TokenIds : u # t => store'.tokens[u] = store.tokens[u]
        /\ store.tokens[t].node = Absent
        /\ store'.tokens[t] = Absent
        /\ used' = used /\ origin' = origin
        /\ saved' = store' \/ saved' = saved
    BY <1>3 DEF DeleteToken, SaveStore
  <2>2. Recorded(store)' /\ Recorded(saved)'
    BY <1>1, <2>1, AbsentIsOutside DEF NodesAreRecorded, Recorded
  <2>3. NamesAreUsed'
    BY <2>1 DEF NamesAreUsed
  <2> QED
    BY <2>2, <2>3 DEF NodesAreRecorded
<1>4. ASSUME NEW g \in Registrars, NEW t \in TokenIds, ConsumeToken(g, t)
      PROVE  NamesAreUsed' /\ NodesAreRecorded'
  <2>1. /\ store'.nodes = store.nodes
        /\ \A u \in TokenIds : u # t => store'.tokens[u] = store.tokens[u]
        /\ store'.tokens[t] = [store.tokens[t] EXCEPT !.spent = TRUE]
        /\ used' = used /\ origin' = origin
        /\ saved' = store' \/ saved' = saved
        /\ store.tokens[t] # Absent
    BY <1>4 DEF ConsumeToken, SaveStore, Kept
  <2>2. store'.tokens[t] # Absent /\ store'.tokens[t].node = store.tokens[t].node
    BY <2>1, TokenChanges, AbsentIsOutside
  <2>3. Recorded(store)' /\ Recorded(saved)'
    <3>1. ASSUME NEW n \in store.nodes
          PROVE  /\ origin[n] # Absent
                 /\ store'.tokens[origin[n]] # Absent
                 /\ store'.tokens[origin[n]].node = n
      <4>1. n \in NodeIds /\ origin[n] # Absent /\ origin[n] \in TokenIds
        BY <1>1 DEF NodesAreRecorded, Recorded
      <4>2. store.tokens[origin[n]] # Absent /\ store.tokens[origin[n]].node = n
        BY DEF NodesAreRecorded, Recorded
      <4> QED
        BY <2>1, <2>2, <4>1, <4>2
    <3> QED
      BY <2>1, <3>1 DEF NodesAreRecorded, Recorded
  <2>4. NamesAreUsed'
    BY <2>1 DEF NamesAreUsed
  <2> QED
    BY <2>3, <2>4 DEF NodesAreRecorded
<1>5. ASSUME NEW g \in Registrars, NEW n \in NodeIds, WriteNode(g, n)
      PROVE  NamesAreUsed' /\ NodesAreRecorded'
  <2> DEFINE t == admits[g]
  <2>1. t \in TokenIds /\ n \notin used
    BY <1>5 DEF WriteNode
  <2>2. /\ store'.nodes = store.nodes \cup {n}
        /\ \A u \in TokenIds : u # t => store'.tokens[u] = store.tokens[u]
        /\ store'.tokens[t] = [spent |-> TRUE, node |-> n]
        /\ used' = used \cup {n}
        /\ origin' = [origin EXCEPT ![n] = t]
        /\ saved' = store' \/ saved' = saved
    BY <1>5, <2>1 DEF WriteNode, SaveStore
  <2>3. ASSUME NEW m \in store.nodes, m # n
        PROVE  /\ origin'[m] # Absent
               /\ store'.tokens[origin'[m]] # Absent
               /\ store'.tokens[origin'[m]].node = m
    <3>1. m \in NodeIds /\ origin[m] # Absent /\ origin[m] \in TokenIds
      BY <1>1 DEF NodesAreRecorded, Recorded
    <3>2. origin'[m] = origin[m] /\ origin[m] # t
      BY <2>1, <2>2, <2>3, <3>1 DEF TakenOnce
    <3> QED
      BY <2>2, <3>1, <3>2 DEF NodesAreRecorded, Recorded
  <2>4. /\ origin'[n] # Absent
        /\ store'.tokens[origin'[n]] # Absent
        /\ store'.tokens[origin'[n]].node = n
    BY <2>1, <2>2, NewTokens, AbsentIsOutside
  <2>5. Recorded(store)'
    BY <2>2, <2>3, <2>4 DEF Recorded
  <2>6. \A m \in saved.nodes : m \in NodeIds /\ m # n
    BY <1>1, <2>1 DEF NamesAreUsed
  <2>7. saved' = saved => Recorded(saved)'
    BY <2>2, <2>6 DEF NodesAreRecorded, Recorded
  <2>8. t \in used
    BY <2>1 DEF TakenAreUsedUp, Taken
  <2>9. NamesAreUsed'
    BY <2>2, <2>8 DEF NamesAreUsed
  <2>10. saved' = store' => Recorded(saved)'
    BY <2>5 DEF Recorded
  <2> QED
    BY <2>2, <2>5, <2>7, <2>9, <2>10 DEF NodesAreRecorded
<1>6. ASSUME NEW n \in NodeIds, RemoveNode(n)
      PROVE  NamesAreUsed' /\ NodesAreRecorded'
  <2>1. /\ store'.nodes = store.nodes \ {n}
        /\ used' = used /\ origin' = origin
        /\ saved' = store' \/ saved' = saved
    BY <1>6 DEF RemoveNode, SaveStore
  <2>2. \A u \in TokenIds :
           store'.tokens[u] = IF Kept(u) /\ store.tokens[u].node = n
                              THEN [store.tokens[u] EXCEPT !.node = Absent]
                              ELSE store.tokens[u]
    BY <1>6 DEF RemoveNode
  <2>3. \A u \in TokenIds : store.tokens[u] = Absent => store'.tokens[u] = Absent
    BY <2>2 DEF Kept
  <2>4. NamesAreUsed'
    BY <2>1, <2>3 DEF NamesAreUsed
  <2>5. ASSUME NEW m \in store.nodes, m # n
        PROVE  /\ origin[m] # Absent
               /\ store'.tokens[origin[m]] # Absent
               /\ store'.tokens[origin[m]].node = m
    <3>1. m \in NodeIds /\ origin[m] # Absent /\ origin[m] \in TokenIds
      BY <1>1 DEF NodesAreRecorded, Recorded
    <3>2. store.tokens[origin[m]] # Absent /\ store.tokens[origin[m]].node = m
      BY DEF NodesAreRecorded, Recorded
    <3> QED
      BY <2>2, <2>5, <3>1, <3>2
  <2>6. Recorded(store)' /\ Recorded(saved)'
    BY <2>1, <2>5 DEF NodesAreRecorded, Recorded
  <2> QED
    BY <2>4, <2>6 DEF NodesAreRecorded
<1>7. CASE SaveAgain
  BY <1>7 DEF SaveAgain, NamesAreUsed, NodesAreRecorded, Recorded
<1>8. CASE PanelRestarts
  BY <1>8 DEF PanelRestarts, NamesAreUsed, NodesAreRecorded, Recorded
<1> QED
  BY <1>2, <1>3, <1>4, <1>5, <1>6, <1>7, <1>8 DEF RegistrationNext

LEMMA RegistrationStep ==
    ASSUME RegistrationInv, [RegistrationNext]_registrationVars
    PROVE  RegistrationInv'
<1>1. CASE RegistrationNext
  BY <1>1, RegistrationTypeStep, TakenStep, RecordedStep DEF RegistrationInv
<1>2. CASE UNCHANGED registrationVars
  BY <1>2 DEF registrationVars, RegistrationInv, RegistrationTypeOK, TakenAreUsedUp, Taken,
              UsedUp, TakenOnce, OneNodePerToken, NamesAreUsed, NodesAreRecorded, Recorded
<1> QED
  BY <1>1, <1>2

THEOREM RegistrationSafe == RegistrationSpec => []RegistrationInv
<1>1. RegistrationInv /\ [RegistrationNext]_registrationVars => RegistrationInv'
  BY RegistrationStep
<1> QED
  BY <1>1, RegistrationStart, PTL DEF RegistrationSpec

-----------------------------------------------------------------------------
(* The page.                                                               *)

\* Whatever is done on the page, the panel takes one of its own steps or none.
LEMMA PageStepsThePanel ==
    ASSUME TokenTypeOK, [TokenNext]_tokenVars
    PROVE  [RegistrationNext]_registrationVars
<1>1. CASE UNCHANGED tokenVars
  BY <1>1 DEF tokenVars, registrationVars
<1>2. ASSUME NEW t \in TokenIds, HandleCreate(t)
      PROVE  RegistrationNext
  BY <1>2 DEF HandleCreate, RegistrationNext
<1>3. CASE HandleDelete
  <2>1. deletion.token \in TokenIds
    BY <1>3 DEF HandleDelete, TokenTypeOK, Deletion
  <2> QED
    BY <1>3, <2>1 DEF HandleDelete, RegistrationNext
<1>4. CASE Others
  BY <1>4 DEF Others
<1>5. ASSUME TokenNext, ~HandleDelete, ~Others, \A t \in TokenIds : ~HandleCreate(t)
      PROVE  UNCHANGED registrationVars
  BY <1>5 DEF TokenNext, OpenPage, LeavePage, Refresh, Reconnect, ToggleForm, SubmitForm,
              AskDelete, CloseConfirm, ConfirmDelete, CreateFails, DeleteFails, Created, Deleted,
              ServeFetch, DeliverFetch, FetchLost, panelVars, registrationVars
<1> QED
  BY <1>1, <1>2, <1>3, <1>4, <1>5

\* The part of the page's type that the answers of the panel go into.
ListTypeOK == page \in BOOLEAN /\ list \in Query(Records) /\ gone \subseteq TokenIds

LEMMA TokenTypeStep ==
    ASSUME TokenTypeOK, [TokenNext]_tokenVars
    PROVE  TokenTypeOK'
<1>1. RegistrationTypeOK'
  BY PageStepsThePanel, RegistrationTypeStep DEF TokenTypeOK
<1>2. Listed \subseteq TokenIds
  BY DEF Listed
<1>3. store.tokens \in Records
  BY StoreTypes DEF TokenTypeOK, RegistrationTypeOK, Records
<1>4. /\ \A c \in Creation, t \in TokenIds :
           /\ [token |-> t, done |-> TRUE, here |-> c.here] \in Creation
           /\ [c EXCEPT !.here = FALSE] \in Creation
           /\ c.token \in TokenIds \cup {Nothing}
      /\ \A d \in Deletion :
           /\ [d EXCEPT !.done = TRUE] \in Deletion
           /\ [d EXCEPT !.here = FALSE] \in Deletion
           /\ d.token \in TokenIds
      /\ [token |-> Nothing, done |-> FALSE, here |-> TRUE] \in Creation
      /\ \A t \in TokenIds : [token |-> t, done |-> FALSE, here |-> TRUE] \in Deletion
  BY DEF Creation, Deletion
<1>5. ListTypeOK'
  <2> USE DEF ListTypeOK, TokenTypeOK
  <2>1. ASSUME NEW aged \in BOOLEAN, OpenPage(aged) \/ Reconnect(aged)
        PROVE  ListTypeOK'
    BY <2>1, QueryTypes DEF OpenPage, Reconnect
  <2>2. CASE LeavePage
    BY <2>2 DEF LeavePage
  <2>3. CASE Refresh
    BY <2>3, QueryTypes DEF Refresh
  <2>4. CASE Created
    BY <2>4, QueryTypes DEF Created
  <2>5. CASE Deleted
    <3>1. deletion \in Deletion
      BY <2>5 DEF Deleted
    <3>2. deletion.token \in TokenIds
      BY <1>4, <3>1
    <3>3. list.data # Nothing => [list.data EXCEPT ![deletion.token] = Absent] \in Records
      BY DEF Query, Records
    <3>4. Without(deletion.token) \in Query(Records)
      BY <3>3, QueryTypes DEF Without
    <3>5. list' \in Query(Records)
      BY <2>5, <3>4, QueryTypes DEF Deleted, ListAfterDelete
    <3> QED
      BY <2>5, <3>2, <3>5 DEF Deleted
  <2>6. CASE ServeFetch
    BY <2>6, <1>3, QueryTypes DEF ServeFetch
  <2>7. CASE DeliverFetch
    BY <2>7, QueryTypes DEF DeliverFetch
  <2>8. CASE FetchLost
    BY <2>8, QueryTypes DEF FetchLost
  <2>9. CASE Others
    BY <2>9 DEF Others
  <2> QED
    BY <2>1, <2>2, <2>3, <2>4, <2>5, <2>6, <2>7, <2>8, <2>9
    DEF TokenNext, ToggleForm, SubmitForm, AskDelete, CloseConfirm, ConfirmDelete,
        HandleCreate, HandleDelete, CreateFails, DeleteFails, tokenVars
<1>6. CASE LeavePage
  <2>1. \A c \in Creation \cup {Nothing} : Elsewhere(c) \in Creation \cup {Nothing}
    BY DEF Elsewhere, Creation
  <2>2. \A d \in Deletion \cup {Nothing} : Elsewhere(d) \in Deletion \cup {Nothing}
    BY DEF Elsewhere, Deletion
  <2> QED
    BY <1>1, <1>5, <1>6, <2>1, <2>2 DEF LeavePage, TokenTypeOK, ListTypeOK
<1>7. ASSUME NEW t \in TokenIds, HandleCreate(t)
      PROVE  TokenTypeOK'
  BY <1>1, <1>4, <1>5, <1>7 DEF HandleCreate, dialogVars, TokenTypeOK, ListTypeOK
<1>8. CASE HandleDelete
  BY <1>1, <1>4, <1>5, <1>8 DEF HandleDelete, dialogVars, TokenTypeOK, ListTypeOK
<1>9. CASE Created
  <2>0. creation \in Creation
    BY <1>9 DEF Created, TokenTypeOK
  <2>1. creation.token \in TokenIds \cup {Nothing}
    BY <2>0 DEF Creation
  <2>2. command' \in TokenIds \cup {Nothing} /\ form' \in BOOLEAN
    BY <1>9, <2>1 DEF Created, TokenTypeOK
  <2> QED
    BY <1>1, <1>5, <1>9, <2>2 DEF Created, TokenTypeOK, ListTypeOK
<1>10. CASE Deleted
  BY <1>1, <1>5, <1>10 DEF Deleted, TokenTypeOK, ListTypeOK
<1>11. CASE ConfirmDelete
  BY <1>1, <1>2, <1>4, <1>5, <1>11 DEF ConfirmDelete, dialogVars, TokenTypeOK, ListTypeOK
<1>12. ASSUME [TokenNext]_tokenVars, ~LeavePage, ~HandleDelete, ~Created, ~Deleted,
              ~ConfirmDelete, \A t \in TokenIds : ~HandleCreate(t)
       PROVE  TokenTypeOK'
  BY <1>1, <1>4, <1>5, <1>12
  DEF TokenTypeOK, ListTypeOK, TokenNext, OpenPage, Refresh, Reconnect, ToggleForm, SubmitForm,
      AskDelete, CloseConfirm, CreateFails, DeleteFails, ServeFetch, DeliverFetch, FetchLost, Others,
      callVars, dialogVars, tokenVars
<1> QED
  BY <1>6, <1>7, <1>8, <1>9, <1>10, <1>11, <1>12

LEMMA TokenTypeStart == TokenInit => TokenTypeOK
  BY RegistrationTypeStart, NewQueryType DEF TokenInit, TokenTypeOK

\* What the user is told rests on the identifiers never being handed out again,
\* and on no older answer being on its way once a row was taken out.
Named(records) == \A t \in TokenIds : records[t] # Absent => t \in used

ListIsNamed ==
    /\ deletion # Nothing => list.data # Nothing /\ deletion.token \in used
    /\ list.data # Nothing => Named(list.data)
    /\ list.step = "answered" => list.answer # Nothing /\ Named(list.answer)

GoneFor(t) ==
    /\ t \in used
    /\ store.tokens[t] = Absent
    /\ page
    /\ list.data # Nothing
    /\ list.data[t] = Absent
    /\ list.step = "answered" => list.answer[t] = Absent

TokenInv ==
    /\ TokenTypeOK
    /\ RegistrationInv
    /\ ListIsNamed
    /\ \A t \in gone : GoneFor(t)

LEMMA TokenStart == TokenInit => TokenInv
<1> SUFFICES ASSUME TokenInit
             PROVE  TokenInv
  OBVIOUS
<1>1. TokenTypeOK /\ RegistrationInv
  BY TokenTypeStart, RegistrationStart DEF TokenInit
<1>2. gone = {} /\ deletion = Nothing /\ list.data = Nothing /\ list.step = "idle"
  BY DEF TokenInit, NewQuery
<1> QED
  BY <1>1, <1>2 DEF TokenInv, ListIsNamed

LEMMA UsedGrows ==
    ASSUME [RegistrationNext]_registrationVars
    PROVE  used \subseteq used'
  BY DEF RegistrationNext, CreateToken, DeleteToken, ConsumeToken, WriteNode, RemoveNode,
         SaveAgain, PanelRestarts, registrationVars

LEMMA ListIsNamedStep ==
    ASSUME TokenInv, [TokenNext]_tokenVars
    PROVE  ListIsNamed'
<1>1. used \subseteq used'
  BY PageStepsThePanel, UsedGrows DEF TokenInv
<1>2. list \in Query(Records) /\ ListIsNamed
  BY DEF TokenInv, TokenTypeOK
<1>3. CASE UNCHANGED <<list, deletion>>
  BY <1>1, <1>2, <1>3 DEF ListIsNamed, Named
<1>4. CASE UNCHANGED list /\ deletion' = Nothing
  BY <1>1, <1>2, <1>4 DEF ListIsNamed, Named
<1>5. ASSUME NEW aged \in BOOLEAN, OpenPage(aged) \/ Reconnect(aged)
      PROVE  ListIsNamed'
  BY <1>1, <1>2, <1>5, QueryKeepsData DEF OpenPage, Reconnect, callVars, ListIsNamed, Named
<1>6. CASE LeavePage
  <2>1. UNCHANGED list /\ deletion' = Elsewhere(deletion)
    BY <1>6 DEF LeavePage
  <2>2. deletion' # Nothing => deletion # Nothing /\ deletion'.token = deletion.token
    <3>1. CASE deletion = Nothing
      BY <2>1, <3>1 DEF Elsewhere
    <3>2. CASE deletion \in Deletion
      BY <2>1, <3>2 DEF Elsewhere, Deletion
    <3> QED
      BY <3>1, <3>2 DEF TokenInv, TokenTypeOK
  <2> QED
    BY <1>1, <1>2, <2>1, <2>2 DEF ListIsNamed, Named
<1>7. CASE Refresh
  BY <1>1, <1>2, <1>7, QueryKeepsData DEF Refresh, callVars, ListIsNamed, Named, TokenInv, TokenTypeOK
<1>8. CASE ConfirmDelete
  <2>1. /\ list' = list /\ deletion'.token = confirm
        /\ confirm \in TokenIds /\ list.data # Nothing /\ list.data[confirm] # Absent
    BY <1>8 DEF ConfirmDelete, Listed
  <2> QED
    BY <1>1, <1>2, <2>1 DEF ListIsNamed, Named
<1>9. CASE HandleDelete
  <2>1. list' = list /\ deletion # Nothing
    BY <1>9 DEF HandleDelete
  <2>2. deletion' # Nothing => deletion'.token = deletion.token
    BY <1>9, <2>1 DEF HandleDelete, TokenInv, TokenTypeOK, Deletion
  <2> QED
    BY <1>1, <1>2, <2>1, <2>2 DEF ListIsNamed, Named
<1>10. CASE Created
  BY <1>1, <1>2, <1>10, QueryKeepsData DEF Created, ListIsNamed, Named, TokenInv, TokenTypeOK
<1>11. CASE Deleted
  <2> DEFINE t == deletion.token
             q == SetData(list, [list.data EXCEPT ![t] = Absent])
  <2>1. deletion' = Nothing /\ list.data # Nothing /\ t \in TokenIds
    BY <1>2, <1>11 DEF Deleted, ListIsNamed, TokenInv, TokenTypeOK, Deletion
  <2>2. [list.data EXCEPT ![t] = Absent] \in Records
    BY <1>2, <2>1 DEF Query, Records
  <2>3. list' = Invalidate(q, page) /\ q \in Query(Records)
    BY <1>2, <1>11, <2>1, <2>2, QueryTypes DEF Deleted, ListAfterDelete, Without
  <2>4. q.data = [list.data EXCEPT ![t] = Absent] /\ q.step = list.step /\ q.answer = list.answer
    BY <1>2, <2>2, QueryAnswers
  <2>5. /\ list'.data = q.data
        /\ list'.step = "answered" => q.step = "answered" /\ list'.answer = q.answer
    BY <2>3, QueryKeepsData DEF TokenInv, TokenTypeOK
  <2>6. \A u \in TokenIds : q.data[u] # Absent => list.data[u] # Absent
    BY <1>2, <2>1, <2>4 DEF Query, Records
  <2> HIDE DEF q
  <2> QED
    BY <1>1, <1>2, <2>1, <2>4, <2>5, <2>6 DEF ListIsNamed, Named
<1>12. CASE ServeFetch
  <2>1. store.tokens \in Records /\ Named(store.tokens)
    BY StoreTypes DEF TokenInv, TokenTypeOK, RegistrationTypeOK, Records, RegistrationInv,
                      NamesAreUsed, Named
  <2>2. list' = Serve(list, store.tokens) /\ deletion' = deletion
    BY <1>12 DEF ServeFetch, callVars
  <2>3. list'.data = list.data /\ list'.answer = store.tokens
    BY <1>2, <2>1, <2>2, QueryAnswers
  <2> QED
    BY <1>1, <1>2, <2>1, <2>2, <2>3, NothingIsNoAnswer DEF ListIsNamed, Named
<1>13. CASE DeliverFetch
  <2>1. list.step = "answered" /\ list' = Deliver(list) /\ deletion' = deletion
    BY <1>13 DEF DeliverFetch, callVars
  <2>2. list'.data = list.answer /\ list'.step = "idle"
    BY <1>2, <2>1, QueryAnswers
  <2> QED
    BY <1>1, <1>2, <2>1, <2>2 DEF ListIsNamed, Named
<1>14. CASE FetchLost
  <2>1. list' = FetchFails(list) /\ deletion' = deletion
    BY <1>14 DEF FetchLost, callVars
  <2>2. list'.data = list.data /\ list'.step = "failed"
    BY <1>2, <2>1, QueryAnswers
  <2> QED
    BY <1>1, <1>2, <2>1, <2>2 DEF ListIsNamed, Named
<1> QED
  BY <1>3, <1>4, <1>5, <1>6, <1>7, <1>8, <1>9, <1>10, <1>11, <1>12, <1>13, <1>14
  DEF TokenNext, ToggleForm, SubmitForm, AskDelete, CloseConfirm, HandleCreate, CreateFails,
      DeleteFails, Others, callVars, tokenVars

LEMMA GoneStep ==
    ASSUME TokenInv, [TokenNext]_tokenVars
    PROVE  \A t \in gone' : GoneFor(t)'
<1>1. used \subseteq used'
  BY PageStepsThePanel, UsedGrows DEF TokenInv
<1>2. list \in Query(Records) /\ page \in BOOLEAN /\ ListIsNamed /\ \A t \in gone : t \in TokenIds /\ GoneFor(t)
  BY DEF TokenInv, TokenTypeOK
<1>3. ASSUME UNCHANGED <<page, list, gone>>, \A t \in gone : store'.tokens[t] = Absent
      PROVE  \A t \in gone' : GoneFor(t)'
  BY <1>1, <1>2, <1>3 DEF GoneFor
<1>4. ASSUME NEW aged \in BOOLEAN, OpenPage(aged)
      PROVE  gone' = {}
  BY <1>2, <1>4 DEF OpenPage, GoneFor
<1>5. CASE LeavePage
  BY <1>5 DEF LeavePage
<1>6. CASE Refresh \/ Created
  <2>1. /\ list' = Invalidate(list, page)
        /\ UNCHANGED <<page, store, gone>>
    BY <1>6 DEF Refresh, Created, panelVars
  <2>2. ASSUME NEW t \in gone
        PROVE  GoneFor(t)'
    <3>1. page /\ list.data # Nothing
      BY <1>2 DEF GoneFor
    <3>2. list'.data = list.data /\ list'.step = "sent"
      BY <1>2, <2>1, <3>1, QueryKeepsData
    <3> QED
      BY <1>1, <1>2, <2>1, <3>2 DEF GoneFor
  <2> QED
    BY <2>1, <2>2
<1>7. ASSUME NEW t \in TokenIds, HandleCreate(t)
      PROVE  \A u \in gone : store'.tokens[u] = Absent
  BY <1>2, <1>7 DEF HandleCreate, CreateToken, GoneFor, TokenInv, TokenTypeOK,
                    RegistrationTypeOK, Store
<1>8. CASE HandleDelete
  <2>1. deletion.token \in TokenIds
    BY <1>8 DEF HandleDelete, TokenInv, TokenTypeOK, Deletion
  <2> QED
    BY <1>2, <1>3, <1>8, <2>1
    DEF HandleDelete, DeleteToken, GoneFor, TokenInv, TokenTypeOK, RegistrationTypeOK, Store
<1>9. CASE Deleted
  <2> DEFINE t == deletion.token
             q == SetData(list, [list.data EXCEPT ![t] = Absent])
  <2>1. list.data # Nothing /\ t \in TokenIds /\ t \in used
    BY <1>2, <1>9 DEF Deleted, ListIsNamed, TokenInv, TokenTypeOK, Deletion
  <2>2. [list.data EXCEPT ![t] = Absent] \in Records
    BY <1>2, <2>1 DEF Query, Records
  <2>3. list' = Invalidate(q, page) /\ q \in Query(Records)
    BY <1>2, <1>9, <2>1, <2>2, QueryTypes DEF Deleted, ListAfterDelete, Without
  <2>4. q.data = [list.data EXCEPT ![t] = Absent] /\ q.data # Nothing
    BY <1>2, <2>2, QueryAnswers, NothingIsNoAnswer
  <2> HIDE DEF q
  <2>5. page => list'.data = q.data /\ list'.step = "sent"
    BY <1>2, <2>3, <2>4, QueryKeepsData
  <2>6. /\ q.data[t] = Absent
        /\ \A u \in TokenIds : list.data[u] = Absent => q.data[u] = Absent
    BY <1>2, <2>1, <2>4 DEF Query, Records
  <2>7. /\ UNCHANGED <<store, used, page>>
        /\ \A u \in gone' : u \in gone \/ (u = t /\ page /\ store.tokens[u] = Absent)
    BY <1>9 DEF Deleted, panelVars, Kept
  <2> QED
    BY <1>2, <2>1, <2>4, <2>5, <2>6, <2>7 DEF GoneFor
<1>10. CASE ServeFetch
  <2>1. store.tokens \in Records
    BY StoreTypes DEF TokenInv, TokenTypeOK, RegistrationTypeOK, Records
  <2>2. list' = Serve(list, store.tokens) /\ UNCHANGED <<page, store, gone>>
    BY <1>10 DEF ServeFetch, panelVars
  <2>3. list'.data = list.data /\ list'.answer = store.tokens
    BY <1>2, <2>1, <2>2, QueryAnswers
  <2> QED
    BY <1>1, <1>2, <2>2, <2>3 DEF GoneFor
<1>11. CASE DeliverFetch
  <2>1. list.step = "answered" /\ list' = Deliver(list) /\ UNCHANGED <<page, store, gone>>
    BY <1>11 DEF DeliverFetch, panelVars
  <2>2. list'.data = list.answer /\ list'.step = "idle" /\ list.answer # Nothing
    BY <1>2, <2>1, QueryAnswers DEF ListIsNamed
  <2> QED
    BY <1>1, <1>2, <2>1, <2>2 DEF GoneFor
<1>12. CASE FetchLost
  <2>1. list' = FetchFails(list) /\ UNCHANGED <<page, store, gone>>
    BY <1>12 DEF FetchLost, panelVars
  <2>2. list'.data = list.data /\ list'.step = "failed"
    BY <1>2, <2>1, QueryAnswers
  <2> QED
    BY <1>1, <1>2, <2>1, <2>2 DEF GoneFor
<1>13. CASE Others
  <2>1. UNCHANGED <<page, list>> /\ \A t \in gone' : t \in gone /\ store'.tokens[t] = Absent
    BY <1>13 DEF Others
  <2> QED
    BY <1>1, <1>2, <2>1 DEF GoneFor
<1>14. ASSUME NEW t \in TokenIds, HandleCreate(t)
       PROVE  \A u \in gone' : GoneFor(u)'
  BY <1>3, <1>7, <1>14 DEF HandleCreate
<1>15. CASE UNCHANGED <<store, page, list, gone>>
  BY <1>2, <1>3, <1>15 DEF GoneFor
<1>16. ASSUME NEW aged \in BOOLEAN, Reconnect(aged)
       PROVE  \A t \in gone' : GoneFor(t)'
  <2>1. list' = Mount(list, aged) /\ UNCHANGED <<page, store, gone>>
    BY <1>16 DEF Reconnect, panelVars
  <2>2. list'.data = list.data /\ (list' = list \/ list'.step = "sent")
    BY <1>2, <2>1, QueryKeepsData
  <2> QED
    BY <1>1, <1>2, <2>1, <2>2 DEF GoneFor
<1> QED
  BY <1>4, <1>5, <1>6, <1>8, <1>9, <1>10, <1>11, <1>12, <1>13, <1>14, <1>15, <1>16
  DEF TokenNext, ToggleForm, SubmitForm, AskDelete, CloseConfirm, ConfirmDelete, CreateFails,
      DeleteFails, panelVars, tokenVars

THEOREM TokenSafe == TokenSpec => []TokenInv
<1>1. TokenInv /\ [TokenNext]_tokenVars => TokenInv'
  BY TokenTypeStep, PageStepsThePanel, RegistrationStep, ListIsNamedStep, GoneStep DEF TokenInv
<1> QED
  BY <1>1, TokenStart, PTL DEF TokenSpec

\* What the page holds has the shape the code gives it.
THEOREM TokenTypeCorrect == TokenSpec => []TokenTypeOK
<1>1. TokenInv => TokenTypeOK
  BY DEF TokenInv
<1> QED
  BY <1>1, TokenSafe, PTL

\* However many registrations overlap, fail or are repeated, a token is good
\* for one node (ConsumeNodeToken, RegisterNode).
THEOREM OneTokenOneNode == TokenSpec => []OneNodePerToken
<1>1. TokenInv => OneNodePerToken
  BY DEF TokenInv, RegistrationInv
<1> QED
  BY <1>1, TokenSafe, PTL

\* Every node keeps the record of its token, in memory and in the snapshot
\* (RegisterNode, DeleteNodeToken).
THEOREM NodesKeepRecords == TokenSpec => []NodesAreRecorded
<1>1. TokenInv => NodesAreRecorded
  BY DEF TokenInv, RegistrationInv
<1> QED
  BY <1>1, TokenSafe, PTL

\* The row of a record that was deleted does not come back by an older answer
\* (onSuccess of deleteMutation).
THEOREM DeletionsStay == TokenSpec => []DeletedStayGone
<1>1. TokenInv => DeletedStayGone
  BY DEF TokenInv, GoneFor, DeletedStayGone, Listed
<1> QED
  BY <1>1, TokenSafe, PTL

=============================================================================
