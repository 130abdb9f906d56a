----------------------------- MODULE QueryCache -----------------------------
(***************************************************************************)
(* One query of the console's cache: the last answer of a GET, and the     *)
(* fetch that is to replace it.  The cache is TanStack Query, a library,   *)
(* configured in frontend/src/main.tsx (no retries, answers count as fresh *)
(* for 15 seconds) and used through frontend/src/api/hooks.ts.  No query   *)
(* is polled: an answer is replaced only when something asks for it, the   *)
(* page opening, a mutation, the refresh button, or the browser's network  *)
(* coming back.  That a fetch waits while there is no network is left out: *)
(* it fails, or it takes longer.                                           *)
(***************************************************************************)

CONSTANT Nothing \* no data, no answer

\* data is what the page shows; stale is the library's isInvalidated; a fetch
\* is sent, then answered by the panel, then delivered to the page.
Query(Answers) ==
    [data   : Answers \cup {Nothing},
     stale  : BOOLEAN,
     step   : {"idle", "sent", "answered", "failed"},
     answer : Answers \cup {Nothing}]

NewQuery == [data |-> Nothing, stale |-> FALSE, step |-> "idle", answer |-> Nothing]

InFlight(q) == q.step \in {"sent", "answered"}

\* isLoading
Loading(q) == InFlight(q) /\ q.data = Nothing

Fetch(q) == [q EXCEPT !.step = "sent", !.answer = Nothing]

Serve(q, value) == [q EXCEPT !.step = "answered", !.answer = value]

Deliver(q) == [q EXCEPT !.data = q.answer, !.stale = FALSE, !.step = "idle", !.answer = Nothing]

\* A faulty variant of FetchFails: what came instead of an answer is shown.
ErrorTakenAsData(q) == [q EXCEPT !.data = Nothing, !.step = "failed", !.answer = Nothing]

\* A fetch fails for good (retry: false): api throws, and what was shown stays.
FetchFails(q) == [q EXCEPT !.step = "failed", !.answer = Nothing]

\* invalidateQueries.  If a page uses the query it is fetched again, and a
\* fetch in flight is dropped for the new one, but not while there is nothing
\* to show: then the first fetch goes on, and its answer counts as fresh.
Invalidate(q, active) ==
    LET marked == [q EXCEPT !.stale = TRUE]
    IN  IF active /\ ~Loading(q) THEN Fetch(marked) ELSE marked

\* setQueryData
SetData(q, value) == [q EXCEPT !.data = value, !.stale = FALSE]

\* A page that uses the query opens, or its browser is online again (onOnline);
\* aged: the answer is 15 seconds old.
Mount(q, aged) ==
    IF ~InFlight(q) /\ (q.data = Nothing \/ q.stale \/ aged) THEN Fetch(q) ELSE q

=============================================================================
