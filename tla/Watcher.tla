------------------------------ MODULE Watcher ------------------------------
(***************************************************************************)
(* The notification service (notification-service/src): a watcher process  *)
(* that polls the governance contract's events and notifies subscribers,   *)
(* and a command line that edits the subscriptions.  Both are processes of *)
(* their own that share one JSON file holding the subscribers and the      *)
(* cursor.  Every change of the file is load, change, save, and            *)
(* save's writeFileSync truncates the file before it writes it.            *)
(***************************************************************************)
EXTENDS Integers, Sequences, FiniteSets

CONSTANTS
  Events,       \* records [type, pid] the contract may emit
  Subs,         \* subscribers (an id is a fresh UUID)
  Wants,        \* Wants[s]: the set of event types s.events
  Only,         \* Only[s]: s.proposalId, or NoProposal when absent
  Own,          \* Own[s]: the channels s gave an address for
  EnvChannels,  \* channels with a global address in the environment
  NoProposal,
  PageSize,     \* the limit of one fetch (50 in the code)
  MaxLog,       \* bound on emitted events
  MaxCrashes    \* bound on process crashes

TrackedTopics == {"created", "voted", "final", "exec", "cancel"}

ASSUME WatcherAssumption ==
  /\ PageSize \in Nat \ {0} /\ MaxLog \in Nat /\ MaxCrashes \in Nat
  \* addSubscriber refuses a subscriber without a channel
  /\ \A s \in Subs : Own[s] # {}
  /\ EnvChannels \subseteq {"slack", "discord"}

VARIABLES
  log,      \* the contract's events, in ledger order (Horizon)
  file,     \* the subscriptions file: [ok, subs, cursor]; ok = parseable
  update,   \* update[p]: process p's load-change-save in progress
  pc,       \* the watcher: "sleep", "fetch", "ready", "sending", "down"
  page,     \* [queue, next]: positions still to deliver, and the page's end
  pending,  \* sends in flight for the earliest event of the queue
  crashes,
  \* History, read by properties only.
  ids,      \* subscribers ever added
  wanted,   \* subscribers the completed commands leave
  saved,    \* the cursor of the last completed saveCursor
  settled,  \* indices of events all of whose sends have settled
  sent,     \* sends ever started
  again,    \* sends started more than once
  faults    \* which of "torn", "stale", "crash", "save" have happened

history == <<ids, wanted, saved, settled, sent, again, faults>>
watcher_vars == <<log, file, update, pc, page, pending, crashes, history>>

Processes == {"watcher", "cli"}
EmptyStore == [subs |-> {}, cursor |-> 0]      \* cursor 0 is 'now'
NoPage == [queue |-> {}, next |-> 0]
Idle == [stage |-> "none", base |-> EmptyStore, new |-> EmptyStore]
Content == [subs |-> file.subs, cursor |-> file.cursor]

\* load: a missing or unparseable file is an empty store.
load == IF file.ok THEN Content ELSE EmptyStore
TornRead == IF file.ok THEN {} ELSE {"torn"}

parseEvent(i) == log[i].type \in TrackedTopics

Init ==
  /\ log = <<>> /\ crashes = 0
  /\ file = [ok |-> TRUE, subs |-> {}, cursor |-> 0]
  /\ update = [p \in Processes |-> Idle]
  /\ pc = "sleep" /\ page = NoPage /\ pending = {}
  /\ ids = {} /\ wanted = {} /\ saved = 0
  /\ settled = {} /\ sent = {} /\ again = {} /\ faults = {}
-----------------------------------------------------------------------------
(* Channels: a subscriber's own address, and for Slack and Discord the     *)
(* environment's when the subscriber has none.                             *)

EmailChannel(s) == {"email"} \cap Own[s]
WebhookChannel(s) == {"webhook"} \cap Own[s]
SlackChannel(s) == {"slack"} \cap (Own[s] \cup EnvChannels)
DiscordChannel(s) == {"discord"} \cap (Own[s] \cup EnvChannels)
CHANNELS(s) ==
  EmailChannel(s) \cup WebhookChannel(s) \cup SlackChannel(s) \cup DiscordChannel(s)

matchingSubscribers(e) ==
  {s \in load.subs : e.type \in Wants[s] /\ Only[s] \in {NoProposal, e.pid}}

\* notify, for every matching subscriber of event i: all channels at once.
notify(i) ==
  UNION {{<<i, s, c>> : c \in CHANNELS(s)} : s \in matchingSubscribers(log[i])}
-----------------------------------------------------------------------------
(* The file.  Between any two of these steps the other process may act.    *)

BeginUpdate(p, new) ==
  /\ update[p].stage = "none"
  /\ update' = [update EXCEPT ![p] = [stage |-> "loaded", base |-> load, new |-> new]]

\* writeFileSync opens the file with truncation...
Truncate(p) ==
  /\ update[p].stage = "loaded"
  /\ file' = [file EXCEPT !.ok = FALSE]
  /\ update' = [update EXCEPT ![p].stage = "torn"]
  /\ faults' = IF file.ok /\ Content = update[p].base THEN faults
               ELSE faults \cup {"stale"}
  /\ UNCHANGED <<log, pc, page, pending, crashes, ids, wanted, saved, settled, sent, again>>

\* ...and then writes the JSON text.
save(p) ==
  /\ update[p].stage = "torn"
  /\ file' = [ok |-> TRUE, subs |-> update[p].new.subs, cursor |-> update[p].new.cursor]
  /\ update' = [update EXCEPT ![p] = Idle]
  /\ faults' = IF file.ok THEN faults \cup {"stale"} ELSE faults
  /\ IF p = "watcher"
     THEN /\ saved' = update[p].new.cursor
          /\ pc' = "sleep" /\ page' = NoPage
          /\ UNCHANGED wanted
     ELSE /\ wanted' = (wanted \cup (update[p].new.subs \ update[p].base.subs))
                       \ (update[p].base.subs \ update[p].new.subs)
          /\ UNCHANGED <<saved, pc, page>>
  /\ UNCHANGED <<log, pending, crashes, ids, settled, sent, again>>
-----------------------------------------------------------------------------
(* The command line.                                                       *)

addSubscriber(s) ==
  /\ s \notin ids
  /\ ids' = ids \cup {s}
  /\ BeginUpdate("cli", [load EXCEPT !.subs = @ \cup {s}])
  /\ faults' = faults \cup TornRead
  /\ UNCHANGED <<log, file, pc, page, pending, crashes, wanted, saved, settled, sent, again>>

\* An id that is not in the file is reported and nothing is saved.
removeSubscriber(s) ==
  /\ s \in load.subs
  /\ BeginUpdate("cli", [load EXCEPT !.subs = @ \ {s}])
  /\ UNCHANGED <<log, file, pc, page, pending, crashes, history>>
-----------------------------------------------------------------------------
(* The watcher.  poll reads the cursor, fetches a page after it, delivers  *)
(* the tracked events of the page and then saves the cursor.               *)

Poll ==
  /\ pc = "sleep"
  /\ pc' = "fetch"
  /\ page' = [queue |-> {}, next |-> load.cursor]
  /\ faults' = faults \cup TornRead
  /\ UNCHANGED <<log, file, update, pending, crashes, ids, wanted, saved, settled, sent, again>>

\* The records of one page after cursor c, and the events parsed from them.
PageEnd(c) == IF c + PageSize < Len(log) THEN c + PageSize ELSE Len(log)
PageEvents(c) == {i \in (c + 1)..PageEnd(c) : parseEvent(i)}
NextCursor_FirstRecord(c) == IF c < PageEnd(c) THEN c + 1 ELSE c
NextCursor(c) == PageEnd(c)

\* Only a page with a tracked event is delivered and moves the cursor.
fetchNewEvents ==
  /\ pc = "fetch"
  /\ LET c == page.next IN
       IF PageEvents(c) # {}
       THEN /\ page' = [queue |-> PageEvents(c), next |-> NextCursor(c)]
            /\ pc' = "ready"
       ELSE pc' = "sleep" /\ page' = NoPage
  /\ UNCHANGED <<log, file, update, pending, crashes, history>>

FetchFails ==
  /\ pc = "fetch"
  /\ pc' = "sleep" /\ page' = NoPage
  /\ UNCHANGED <<log, file, update, pending, crashes, history>>

\* processEvents goes through the page in ledger order.
Earliest(Q) == CHOOSE i \in Q : \A j \in Q : i <= j

\* The subscribers are read from the file for every event.
processEvent ==
  /\ pc = "ready" /\ page.queue # {}
  /\ LET sends == notify(Earliest(page.queue)) IN
       /\ pending' = sends
       /\ sent' = sent \cup sends
       /\ again' = again \cup (sent \cap sends)
  /\ pc' = "sending"
  /\ faults' = faults \cup TornRead
  /\ UNCHANGED <<log, file, update, page, crashes, ids, wanted, saved, settled>>

\* One channel's send ends; notify catches a failure, so both outcomes
\* leave the other channels and the rest of the page alone.
SendSettles(x) ==
  /\ pc = "sending" /\ x \in pending
  /\ pending' = pending \ {x}
  /\ UNCHANGED <<log, file, update, pc, page, crashes, history>>

EventDone ==
  /\ pc = "sending" /\ pending = {}
  /\ settled' = settled \cup {Earliest(page.queue)}
  /\ page' = [page EXCEPT !.queue = @ \ {Earliest(@)}]
  /\ pc' = "ready"
  /\ UNCHANGED <<log, file, update, pending, crashes, ids, wanted, saved, sent, again, faults>>

PageDelivered_Early == Cardinality(page.queue) <= 1
PageDelivered == page.queue = {}

CursorUpdate_Forgets == [subs |-> {}, cursor |-> page.next]
CursorUpdate == [load EXCEPT !.cursor = page.next]

saveCursor ==
  /\ pc = "ready" /\ PageDelivered
  /\ BeginUpdate("watcher", CursorUpdate)
  /\ faults' = faults \cup TornRead
  /\ UNCHANGED <<log, file, pc, page, pending, crashes, ids, wanted, saved, settled, sent, again>>

\* save throws before it touched the file; poll's catch logs and sleeps.
SaveFails ==
  /\ update["watcher"].stage = "loaded"
  /\ update' = [update EXCEPT !["watcher"] = Idle]
  /\ pc' = "sleep" /\ page' = NoPage
  /\ faults' = faults \cup {"save"}
  /\ UNCHANGED <<log, file, pending, crashes, ids, wanted, saved, settled, sent, again>>

\* The watcher or a command is killed; only the file survives, perhaps torn.
Crash(p) ==
  /\ crashes < MaxCrashes
  /\ IF p = "watcher" THEN pc # "down" ELSE update[p].stage # "none"
  /\ crashes' = crashes + 1
  /\ update' = [update EXCEPT ![p] = Idle]
  /\ faults' = faults \cup {"crash"}
  /\ IF p = "watcher"
     THEN pc' = "down" /\ page' = NoPage /\ pending' = {}
     ELSE UNCHANGED <<pc, page, pending>>
  /\ UNCHANGED <<log, file, ids, wanted, saved, settled, sent, again>>

startWatcher_ParseThrows ==
  /\ pc = "down" /\ file.ok
  /\ pc' = "sleep"
  /\ UNCHANGED <<log, file, update, page, pending, crashes, history>>
startWatcher ==
  /\ pc = "down"
  /\ pc' = "sleep"
  /\ UNCHANGED <<log, file, update, page, pending, crashes, history>>

\* The contract emits an event (the governance contract, through Horizon).
Emit(e) ==
  /\ Len(log) < MaxLog
  /\ log' = Append(log, e)
  /\ UNCHANGED <<file, update, pc, page, pending, crashes, history>>

WatcherStep ==
  \/ Poll \/ fetchNewEvents \/ processEvent \/ EventDone \/ saveCursor
  \/ (\E x \in pending : SendSettles(x))
  \/ Truncate("watcher") \/ save("watcher")

Faults == FetchFails \/ SaveFails \/ \E p \in Processes : Crash(p)

Commands ==
  \/ \E s \in Subs : addSubscriber(s) \/ removeSubscriber(s)
  \/ Truncate("cli") \/ save("cli")

Next == WatcherStep \/ Faults \/ Commands \/ startWatcher \/ \E e \in Events : Emit(e)

Spec == Init /\ [][Next]_watcher_vars

(* The event loop runs every ready callback and a send settles by its      *)
(* timeout; a supervisor restarts the watcher; Horizon and the disk do not *)
(* fail for ever.  Commands, events and crashes are never obliged.         *)
LiveSpec ==
  /\ Spec
  /\ WF_watcher_vars(WatcherStep) /\ WF_watcher_vars(startWatcher)
  /\ SF_watcher_vars(fetchNewEvents) /\ SF_watcher_vars(Truncate("watcher"))
-----------------------------------------------------------------------------
(* At least once: the cursor in the file never passes a tracked event      *)
(* whose notifications have not all been attempted and settled.  It holds  *)
(* under crashes, failed fetches and saves, torn reads and lost updates    *)
(* (watcher.ts delivers a page before it saves the cursor).                *)
CursorBehindDelivery ==
  \A i \in 1..file.cursor : parseEvent(i) => i \in settled

(* The file holds what the completed commands and polls left in it unless  *)
(* two processes' load-change-save overlapped or one of them read the file *)
(* half written (subscriptions.ts).                                        *)
StoreExact ==
  (file.ok /\ faults \cap {"torn", "stale"} = {}) =>
     file.subs = wanted /\ file.cursor = saved

(* At most once without faults: unless a process crashed, a save failed or *)
(* two updates of the file raced, no channel of any subscriber is sent the *)
(* same event twice, whatever fetches fail (watcher.ts poll).              *)
NoDuplicateWithoutFault == faults = {} => again = {}

(* A full page without a single tracked event: the cursor stays in front   *)
(* of it for ever.                                                         *)
DeadPage ==
  \E c \in 0..(Len(log) - PageSize) :
    \A k \in 1..PageSize : ~parseEvent(c + k)

(* Every tracked event is eventually delivered, through crashes, restarts  *)
(* and failing fetches, provided that no page fills with untracked events  *)
(* (watcher.ts moves the cursor only over pages with tracked events).      *)
EventuallyDelivered ==
  [](~DeadPage) =>
     \A i \in 1..MaxLog :
        (i <= Len(log) /\ parseEvent(i)) ~> (i \in settled)

(* docs/notification-service.md:12: "The last-seen Horizon paging cursor   *)
(* is persisted so the service resumes without replaying events on         *)
(* restart."  When crashes are the only faults nothing is sent twice.      *)
NoReplayOnRestart == faults \subseteq {"crash"} => again = {}
=============================================================================
