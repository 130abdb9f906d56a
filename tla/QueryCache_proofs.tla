-------------------------- MODULE QueryCache_proofs --------------------------
(***************************************************************************)
(* What the operations on a cached query leave of it, for the proofs about *)
(* the pages that use one.                                                 *)
(***************************************************************************)
EXTENDS QueryCache, TLAPS

LEMMA NewQueryType ==
    ASSUME NEW Answers
    PROVE  NewQuery \in Query(Answers)
  BY DEF NewQuery, Query

LEMMA QueryTypes ==
    ASSUME NEW Answers,
           NEW q \in Query(Answers),
           NEW value \in Answers \cup {Nothing},
           NEW flag \in BOOLEAN
    PROVE  /\ Fetch(q) \in Query(Answers)
           /\ Serve(q, value) \in Query(Answers)
           /\ Deliver(q) \in Query(Answers)
           /\ FetchFails(q) \in Query(Answers)
           /\ Invalidate(q, flag) \in Query(Answers)
           /\ SetData(q, value) \in Query(Answers)
           /\ Mount(q, flag) \in Query(Answers)
<1> USE DEF Query
<1>1. \A p \in Query(Answers) : Fetch(p) \in Query(Answers)
  BY DEF Fetch
<1>2. Serve(q, value) \in Query(Answers)
  BY DEF Serve
<1>3. Deliver(q) \in Query(Answers)
  BY DEF Deliver
<1>4. FetchFails(q) \in Query(Answers)
  BY DEF FetchFails
<1>5. [q EXCEPT !.stale = TRUE] \in Query(Answers)
  OBVIOUS
<1>6. Invalidate(q, flag) \in Query(Answers)
  BY <1>1, <1>5 DEF Invalidate
<1>7. SetData(q, value) \in Query(Answers)
  BY DEF SetData
<1>8. Mount(q, flag) \in Query(Answers)
  BY <1>1 DEF Mount
<1> QED
  BY <1>1, <1>2, <1>3, <1>4, <1>6, <1>7, <1>8

\* An answer is taken from the panel when the fetch is served, and becomes what
\* is shown when it is delivered.
LEMMA QueryAnswers ==
    ASSUME NEW Answers,
           NEW q \in Query(Answers),
           NEW value \in Answers \cup {Nothing}
    PROVE  /\ Serve(q, value).data = q.data
           /\ Serve(q, value).stale = q.stale
           /\ Serve(q, value).step = "answered"
           /\ Serve(q, value).answer = value
           /\ Deliver(q).data = q.answer
           /\ ~Deliver(q).stale
           /\ Deliver(q).step = "idle"
           /\ FetchFails(q).data = q.data
           /\ FetchFails(q).stale = q.stale
           /\ FetchFails(q).step = "failed"
           /\ SetData(q, value).data = value
           /\ ~SetData(q, value).stale
           /\ SetData(q, value).step = q.step
           /\ SetData(q, value).answer = q.answer
  BY DEF Query, Serve, Deliver, FetchFails, SetData

\* What is shown stays while it is asked for again.  On a page that shows
\* something, invalidating drops the answer that is on its way.
LEMMA QueryKeepsData ==
    ASSUME NEW Answers,
           NEW q \in Query(Answers),
           NEW flag \in BOOLEAN
    PROVE  /\ Invalidate(q, flag).data = q.data
           /\ Invalidate(q, flag).stale
           /\ flag /\ q.data # Nothing => Invalidate(q, flag).step = "sent"
           /\ \/ Invalidate(q, flag).step = "sent"
              \/ /\ Invalidate(q, flag).step = q.step
                 /\ Invalidate(q, flag).answer = q.answer
                 /\ ~flag \/ q.data = Nothing
           /\ Mount(q, flag).data = q.data
           /\ Mount(q, flag).stale = q.stale
           /\ \/ Mount(q, flag) = q
              \/ Mount(q, flag).step = "sent"
  BY DEF Query, Invalidate, Loading, InFlight, Fetch, Mount

=============================================================================
