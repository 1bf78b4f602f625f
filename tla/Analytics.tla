------------------------------ MODULE Analytics ------------------------------
(***************************************************************************)
(* frontend/src/analytics.ts: events are queued, the queue is written to   *)
(* localStorage at every change, and batches are posted if an endpoint is  *)
(* configured.  Every tab of the browser has its own queue and all of them *)
(* write the same key.  setItem and getItem may throw, a post may be       *)
(* answered with an error status, and a page may close under it.           *)
(***************************************************************************)
EXTENDS Integers, Sequences, SequencesExt

CONSTANTS
  Tabs,        \* browser tabs
  FirstTab,    \* the tab open at the start
  BATCH_SIZE,
  MaxEvents,   \* bound on the events tracked
  MaxPosts,    \* bound on the batches in flight of one tab
  MaxUpsets    \* bound on the page loads, failed posts and storage errors

Closed == "closed page"
ASSUME AnalyticsAssumption == FirstTab \in Tabs /\ Closed \notin Tabs

VARIABLES
  endpoint,    \* whether ENDPOINT is configured
  aTabs,       \* the open tabs
  queue,       \* queue[t]
  posts,       \* posts in flight, [page, batch]; keepalive lets them outlive the page
  stored,      \* localStorage
  tracked,     \* events tracked so far
  received,    \* what the endpoint has accepted, in order
  upsets,      \* page loads, failed posts and storage errors so far
  \* History, read by properties only.
  gone,        \* events given up: see the actions that add to it
  unsaved,     \* events of the queue that a failed setItem left out of the key
  shared,      \* two tabs were open together
  doubled,     \* a post failed after it arrived, two tabs loaded one queue, or a
               \* failed setItem left an old queue in the key
  crossing     \* two posts were in flight together

history == <<gone, unsaved, shared, doubled, crossing>>
analytics_vars == <<endpoint, aTabs, queue, posts, stored, tracked, received, upsets, history>>

AnalyticsInit ==
  /\ endpoint \in BOOLEAN
  /\ aTabs = {FirstTab}
  /\ queue = [t \in Tabs |-> <<>>] /\ posts = {}
  /\ stored = <<>> /\ tracked = 0 /\ received = <<>> /\ upsets = 0
  /\ gone = {} /\ unsaved = {}
  /\ shared = FALSE /\ doubled = FALSE /\ crossing = FALSE

Upsets(n) == upsets + n <= MaxUpsets /\ upsets' = upsets + n
Failures(ok) == IF ok THEN 0 ELSE 1

\* A page load takes over the queue that is stored, or, when the key cannot be
\* read, none: the next setItem overwrites what it held.
LoadPage(t, readable) ==
  /\ t \notin aTabs /\ Upsets(1 + Failures(readable))
  /\ aTabs' = aTabs \cup {t}
  /\ queue' = [queue EXCEPT ![t] = IF readable THEN stored ELSE <<>>]
  /\ gone' = IF readable THEN gone ELSE gone \cup ToSet(stored)
  /\ shared' = (shared \/ aTabs # {})
  /\ doubled' = (doubled \/ (aTabs # {} /\ stored # <<>>))
  /\ UNCHANGED <<endpoint, posts, stored, tracked, received, unsaved, crossing>>

\* The page goes away with what is in memory only; its posts go on without it.
ClosePage(t) ==
  /\ t \in aTabs
  /\ aTabs' = aTabs \ {t}
  /\ queue' = [queue EXCEPT ![t] = <<>>]
  /\ posts' = {IF p.page = t THEN [page |-> Closed, batch |-> p.batch] ELSE p : p \in posts}
  /\ gone' = gone \cup unsaved /\ unsaved' = {}
  /\ UNCHANGED <<endpoint, stored, tracked, received, upsets, shared, doubled, crossing>>

Persisted_NotAfterSplice(q, had, ok) == IF ok /\ q # <<>> THEN q ELSE had
\* persist: setItem writes the queue, or throws and the key keeps what it had.
Persisted(q, had, ok) == IF ok THEN q ELSE had

\* The key keeps a queue that is not the present one, for a later page to load.
Stale(q, had, ok) == ~ok /\ had \notin {<<>>, q}

\* The queue becomes q and is persisted.
Saved(t, q, ok) ==
  /\ queue' = [queue EXCEPT ![t] = q]
  /\ stored' = Persisted(q, stored, ok)
  /\ unsaved' = IF ok THEN {} ELSE ToSet(q) \ ToSet(stored)

\* flush takes the whole queue as a batch and persists the empty rest; without
\* an endpoint the batch goes no further.
Spliced(t, q, had, ok) ==
  /\ queue' = [queue EXCEPT ![t] = <<>>]
  /\ stored' = Persisted(<<>>, had, ok)
  /\ unsaved' = {}
  /\ doubled' = (doubled \/ Stale(<<>>, had, ok))
  /\ IF endpoint
     THEN /\ Cardinality({p \in posts : p.page = t}) < MaxPosts
          /\ posts' = posts \cup {[page |-> t, batch |-> q]}
          /\ crossing' = (crossing \/ posts # {})
          /\ UNCHANGED gone
     ELSE gone' = gone \cup ToSet(q) /\ UNCHANGED <<posts, crossing>>

flush(t, ok) ==
  /\ t \in aTabs /\ queue[t] # <<>> /\ Upsets(Failures(ok))
  /\ Spliced(t, queue[t], stored, ok)
  /\ UNCHANGED <<endpoint, aTabs, tracked, received, shared>>

\* The queue is persisted with the event and, if it is full, flushed at once,
\* which persists it again.
trackEvent(t, ok, again) ==
  /\ t \in aTabs /\ tracked < MaxEvents
  /\ tracked' = tracked + 1
  /\ Upsets(Failures(ok) + Failures(again))
  /\ LET q == Append(queue[t], tracked + 1)
     IN  IF Len(q) >= BATCH_SIZE THEN Spliced(t, q, Persisted(q, stored, ok), again)
         ELSE /\ again
              /\ Saved(t, q, ok)
              /\ doubled' = (doubled \/ Stale(q, stored, ok))
              /\ UNCHANGED <<posts, crossing, gone>>
  /\ UNCHANGED <<endpoint, aTabs, received, shared>>

\* fetch resolves, whatever the status: a batch that was refused is gone.  Of
\* a closed page nothing is left that could put the batch back, so a post of
\* it that fails is answered like a refused one.
PostAnswered(p, accepted) ==
  /\ posts' = posts \ {p}
  /\ received' = IF accepted THEN received \o p.batch ELSE received
  /\ gone' = IF accepted THEN gone ELSE gone \cup ToSet(p.batch)
  /\ UNCHANGED <<endpoint, aTabs, queue, stored, tracked, upsets, unsaved, shared, doubled, crossing>>

Requeued_Dropped(t, b) == queue[t]
Requeued_AtTheEnd(t, b) == queue[t] \o b
Requeued(t, b) == b \o queue[t]

\* fetch rejects, before or after the endpoint received the batch.
PostFails(p, arrived, ok) ==
  /\ p.page \in aTabs /\ Upsets(1 + Failures(ok))
  /\ posts' = posts \ {p}
  /\ received' = IF arrived THEN received \o p.batch ELSE received
  /\ LET q == Requeued(p.page, p.batch)
     IN  /\ Saved(p.page, q, ok)
         /\ doubled' = (doubled \/ arrived \/ Stale(q, stored, ok))
  /\ UNCHANGED <<endpoint, aTabs, tracked, gone, shared, crossing>>

AnalyticsNext ==
  \/ \E t \in Tabs : \E ok \in BOOLEAN :
       \/ LoadPage(t, ok) \/ ClosePage(t) \/ flush(t, ok)
       \/ \E again \in BOOLEAN : trackEvent(t, ok, again)
  \/ \E p \in posts : \E ok \in BOOLEAN :
       PostAnswered(p, ok) \/ \E arrived \in BOOLEAN : PostFails(p, arrived, ok)
AnalyticsSpec == AnalyticsInit /\ [][AnalyticsNext]_analytics_vars
-----------------------------------------------------------------------------
InPost(e) == \E p \in posts : Contains(p.batch, e)

(* Nothing is lost on the way: each event tracked was accepted, is being   *)
(* posted or is in localStorage, across page loads and failed posts, or it *)
(* is one that was given up, for want of an endpoint, by an answer that    *)
(* refused it, by a key that could not be read or with a page that closed; *)
(* and one that a failed setItem left out is still in an open page's queue.*)
(* Two tabs together may overwrite each other's queue (analytics.ts flush, *)
(* persist and the queue's initialiser).                                   *)
NoEventLost ==
  ~shared =>
     /\ \A e \in (1..tracked) \ (gone \cup unsaved) :
          Contains(received, e) \/ InPost(e) \/ Contains(stored, e)
     /\ \A e \in unsaved : \E t \in aTabs : Contains(queue[t], e)

(* No event is received twice, unless a post failed after it had arrived,  *)
(* two tabs loaded the same queue or a failed setItem left an old one in   *)
(* the key (flush empties the stored queue before it posts).               *)
ReceivedOnce == ~doubled => IsInjective(received)

(* Events are received in the order they were tracked in, as long as no    *)
(* two batches are in flight together (flush puts a failed batch in front).*)
ReceivedInOrder ==
  (~crossing /\ ~doubled /\ ~shared) =>
    \A i, j \in DOMAIN received : i < j => received[i] < received[j]

(* The queue is intact: tracked events are received or still kept, once    *)
(* and in order, through failed posts, page loads and tabs, outside the    *)
(* accidents that each part names (analytics.ts).                          *)
QueueIntact == NoEventLost /\ ReceivedOnce /\ ReceivedInOrder
=============================================================================
