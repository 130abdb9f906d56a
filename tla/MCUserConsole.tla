---------------------------- MODULE MCUserConsole ----------------------------
(* An instance of UserConsole for TLC: two kinds of behaviours in one run.  *)
EXTENDS UserConsole

CONSTANTS
    MaxShownChanges, \* bound on the changes to users once the page was opened
    Beside           \* the only other request there is then

\* The page was never opened: the panel has all the freedom of the constants,
\* with several requests at once, failed saves and restarts from older snapshots.
PanelAlone == ~page /\ list = NewQuery

\* The page may be in use: one request beside it, no failed saves, and a dialog
\* over rows that were not touched, whose drafts have no part in it.
BesidePage ==
    /\ changes <= MaxShownChanges
    /\ \A q \in Requests \ {Beside} : requests[q] = Absent
    /\ savedUsers = users
    /\ dialog # "none" => \A u \in UserIds : drafts[u] = Nothing

MCNext == UserNext /\ (PanelAlone \/ BesidePage)'

MCSpec == UserInit /\ [][MCNext]_userVars

=============================================================================
