------------------------------ MODULE Backend ------------------------------
(***************************************************************************)
(* backend/src: class NotificationService, which polls the contract's      *)
(* events and posts each to a webhook, and the process that starts it and  *)
(* stops it on a signal.  start() begins a chain of ticks; this.timer      *)
(* remembers one timer only, and a tick that is awaiting its poll sets a   *)
(* new timer even when stop() was called meanwhile.                        *)
(***************************************************************************)
EXTENDS Integers, FiniteSets

CONSTANTS
  Chains,        \* slots for chains of ticks: bounds the calls of start()
  MaxEvents      \* bound on the contract's events

\* From this count on every failure raises the alert: larger counts are one.
MAX_POLL_FAILURES == 3

VARIABLES
  running, timer,        \* this.running; the chain this.timer belongs to
  chain,                 \* chain[k]: "free", "poll", "deliver" or "timer"
  todo,                  \* todo[k]: [next, last] events still to post
  consecutiveFailures,
  emitted,               \* number of events of the contract
  process,               \* "up", "flushing" (a signal came) or "exited"
  posted,                \* history: events posted at least once
  midStop,               \* history: chains a stop() found in flight, not ended yet
  overStarted            \* history: start() came while running or before those ended

backend_vars == <<running, timer, chain, todo, consecutiveFailures, emitted,
                  process, posted, midStop, overStarted>>

NoChain == "none"
ASSUME BackendAssumption == NoChain \notin Chains

Nothing == [next |-> 1, last |-> 0]
Live == {k \in Chains : chain[k] # "free"}
InFlight == {k \in Chains : chain[k] \in {"poll", "deliver"}}

BackendInit ==
  /\ running = FALSE /\ timer = NoChain
  /\ chain = [k \in Chains |-> "free"] /\ todo = [k \in Chains |-> Nothing]
  /\ consecutiveFailures = 0 /\ emitted = 0 /\ process = "up"
  /\ posted = {} /\ midStop = {} /\ overStarted = FALSE

\* start: the first tick runs at once and awaits its poll.
start(k) ==
  /\ process = "up" /\ chain[k] = "free"
  /\ running' = TRUE
  /\ chain' = [chain EXCEPT ![k] = "poll"]
  /\ overStarted' = (overStarted \/ running \/ midStop # {})
  /\ UNCHANGED <<midStop, timer, todo, consecutiveFailures, emitted, process, posted>>

\* pollEvents: there is no cursor, the answer holds the events from the first.
pollEvents(k) ==
  /\ chain[k] = "poll"
  /\ consecutiveFailures' = 0
  /\ todo' = [todo EXCEPT ![k] = [next |-> 1, last |-> emitted]]
  /\ chain' = [chain EXCEPT ![k] = "deliver"]
  /\ UNCHANGED <<midStop, running, timer, emitted, process, posted, overStarted>>

PollFailure_Throws(k) ==
  /\ chain[k] = "poll"
  /\ chain' = [chain EXCEPT ![k] = "free"]
  /\ UNCHANGED <<midStop, running, timer, todo, consecutiveFailures, emitted, process, posted, overStarted>>
PollFailure(k) ==
  /\ chain[k] = "poll"
  /\ consecutiveFailures' = IF consecutiveFailures < MAX_POLL_FAILURES
                            THEN consecutiveFailures + 1 ELSE MAX_POLL_FAILURES
  /\ todo' = [todo EXCEPT ![k] = Nothing]
  /\ chain' = [chain EXCEPT ![k] = "deliver"]
  /\ UNCHANGED <<midStop, running, timer, emitted, process, posted, overStarted>>

\* deliverWebhook: a failed post is reported and counts as done.
deliverWebhook(k) ==
  /\ chain[k] = "deliver" /\ todo[k].next <= todo[k].last
  /\ posted' = posted \cup {todo[k].next}
  /\ todo' = [todo EXCEPT ![k].next = @ + 1]
  /\ UNCHANGED <<midStop, running, timer, chain, consecutiveFailures, emitted, process, overStarted>>

\* runOnce has returned: the next tick is scheduled whether running or not.
Reschedule(k) ==
  /\ chain[k] = "deliver" /\ todo[k].next > todo[k].last
  /\ chain' = [chain EXCEPT ![k] = "timer"]
  /\ todo' = [todo EXCEPT ![k] = Nothing]
  /\ timer' = k
  /\ UNCHANGED <<midStop, running, consecutiveFailures, emitted, process, posted, overStarted>>

AfterTimer_Unchecked == "poll"
AfterTimer == IF running THEN "poll" ELSE "free"

tick(k) ==
  /\ chain[k] = "timer"
  /\ chain' = [chain EXCEPT ![k] = AfterTimer]
  /\ midStop' = midStop \ (IF AfterTimer = "free" THEN {k} ELSE {})
  /\ UNCHANGED <<running, timer, todo, consecutiveFailures, emitted, process, posted, overStarted>>

ClearTimer_Missing == chain
ClearTimer ==
  IF timer # NoChain /\ chain[timer] = "timer"
  THEN [chain EXCEPT ![timer] = "free"] ELSE chain

Cleared == {k \in Chains : ClearTimer[k] = "free"}

stop ==
  /\ process = "up"
  /\ running' = FALSE
  /\ chain' = ClearTimer
  /\ midStop' = (midStop \cup InFlight) \ Cleared
  /\ UNCHANGED <<timer, todo, consecutiveFailures, emitted, process, posted, overStarted>>

\* shutdown, on a signal: stop, then await the error tracker's flush, while
\* a poll in flight goes on; a second signal runs it again.
shutdown ==
  /\ process # "exited"
  /\ process' = "flushing"
  /\ running' = FALSE
  /\ chain' = ClearTimer
  /\ midStop' = (midStop \cup InFlight) \ Cleared
  /\ UNCHANGED <<timer, todo, consecutiveFailures, emitted, posted, overStarted>>

\* The flush is over: process.exit ends every chain.
Exit ==
  /\ process = "flushing"
  /\ process' = "exited"
  /\ chain' = [k \in Chains |-> "free"] /\ todo' = [k \in Chains |-> Nothing]
  /\ midStop' = {}
  /\ UNCHANGED <<running, timer, consecutiveFailures, emitted, posted, overStarted>>

\* The contract emits an event (external).
BackendEmit ==
  /\ emitted < MaxEvents
  /\ emitted' = emitted + 1
  /\ UNCHANGED <<midStop, running, timer, chain, todo, consecutiveFailures, process, posted, overStarted>>

LoopStep(k) == pollEvents(k) \/ deliverWebhook(k) \/ Reschedule(k) \/ tick(k)

BackendNext ==
  \/ \E k \in Chains : start(k) \/ LoopStep(k) \/ PollFailure(k)
  \/ stop \/ shutdown \/ Exit \/ BackendEmit

BackendSpec == BackendInit /\ [][BackendNext]_backend_vars
-----------------------------------------------------------------------------
(* There is never more than one chain of ticks, so that no poll is made    *)
(* twice per interval, as long as start() is not called on a running       *)
(* service or before a poll that stop() found in flight has ended its      *)
(* chain (notificationService.ts start and stop).                          *)
SingleLoop == ~overStarted => Cardinality(Live) <= 1

(* A service that stays stopped comes to rest: every chain of ticks ends,  *)
(* also the ones whose poll was in flight at stop() and set a timer        *)
(* afterwards (notificationService.ts tick).                               *)
StopQuiesces == <>[](~running) => <>[](Live = {})

(* Every event is eventually posted or the service is stopped, however     *)
(* many polls fail in between (notificationService.ts runOnce).            *)
EventuallyPosted ==
  \A i \in 1..MaxEvents :
     (running /\ i <= emitted) ~> (i \in posted \/ ~running)
=============================================================================
