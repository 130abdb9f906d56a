--------------------------- MODULE ReadYourWrites ---------------------------
(***************************************************************************)
(* What a page that shows a copy of the panel's data promises its user.    *)
(* The data is known by its version.  The copy never goes back, and from   *)
(* when the user has been told that a change was saved, every new copy     *)
(* has that change in it.                                                  *)
(***************************************************************************)
EXTENDS Naturals

VARIABLES
    latest, \* the version of the data at its source
    told,   \* the version of the last change the user was told is saved
    shown   \* the version of the copy, 0 before there is one

rywVars == <<latest, told, shown>>

RYWInit == latest = 0 /\ told = 0 /\ shown = 0

\* Anybody changes the data.
Change == /\ latest' \in Nat
          /\ latest' > latest
          /\ UNCHANGED <<told, shown>>

\* The user learns that a change of his is saved.
Tell == /\ told' \in told..latest
        /\ UNCHANGED <<latest, shown>>

\* A new copy is shown.
Show == /\ shown' \in shown..latest
        /\ told <= shown'
        /\ UNCHANGED <<latest, told>>

\* The user turns to something else.
Forget == told' = 0 /\ UNCHANGED <<latest, shown>>

RYWNext == Change \/ Tell \/ Show \/ Forget

RYWSpec == RYWInit /\ [][RYWNext]_rywVars

=============================================================================
