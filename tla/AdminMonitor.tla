---------------------------- MODULE AdminMonitor ----------------------------
(***************************************************************************)
(* scripts/admin_monitor.js: every interval a callback asks Horizon for    *)
(* the governance events after the cursor and sends a Slack alert for each *)
(* admin event.  setInterval does not wait for the callback, so requests   *)
(* overlap when an answer takes longer than the interval, and all of them  *)
(* share one cursor.                                                       *)
(***************************************************************************)
EXTENDS Integers, Sequences

CONSTANTS
  AdminTopics,     \* subtypes the contract may emit in the instance
  AdminPageSize,   \* limit of one request (50 in the code)
  MaxAdminLog,     \* bound on emitted events
  Requests         \* slots for requests in flight: bounds the overlap

ASSUME AdminAssumption == AdminPageSize \in Nat \ {0} /\ MaxAdminLog \in Nat

VARIABLES
  adminLog,        \* subtypes of the contract's events, in ledger order
  adminCursor,     \* the cursor of the closure; 0 is 'now'
  ask,             \* ask[k]: a request in flight
  alerted, alertedAgain,   \* events alerted, and alerted more than once
  overlapped       \* history: a callback ran while a request was out

admin_vars == <<adminLog, adminCursor, ask, alerted, alertedAgain, overlapped>>

NoAsk == [stage |-> "none", from |-> 0, upto |-> 0]
ADMIN_EVENTS == {"exec", "cancel", "paused", "unpaused", "admin_trans", "quorum"}
IsAdminEvent(i) == adminLog[i] \in ADMIN_EVENTS

startMonitor ==
  /\ adminLog = <<>> /\ adminCursor = 0
  /\ ask = [k \in Requests |-> NoAsk]
  /\ alerted = {} /\ alertedAgain = {} /\ overlapped = FALSE

\* The interval fires: contractEvents is called with the present cursor.
Tick(k) ==
  /\ ask[k] = NoAsk
  /\ ask' = [ask EXCEPT ![k] = [stage |-> "sent", from |-> adminCursor, upto |-> 0]]
  /\ overlapped' = (overlapped \/ \E j \in Requests : ask[j] # NoAsk)
  /\ UNCHANGED <<adminLog, adminCursor, alerted, alertedAgain>>

\* Horizon reads its database and answers (external).
Answer(k) ==
  /\ ask[k].stage = "sent"
  /\ LET end == ask[k].from + AdminPageSize IN
       ask' = [ask EXCEPT
         ![k].stage = "answered",
         ![k].upto = IF end < Len(adminLog) THEN end ELSE Len(adminLog)]
  /\ UNCHANGED <<adminLog, adminCursor, alerted, alertedAgain, overlapped>>

\* The loop over the records: the cursor follows each record, whichever
\* request it came from.
LastRecord_Requested(r, now) == r.from
LastRecord_Skips(r, now) == IF r.upto > r.from THEN r.upto + 1 ELSE now
LastRecord(r, now) == IF r.upto > r.from THEN r.upto ELSE now

Arrive(k) ==
  /\ ask[k].stage = "answered"
  /\ LET found == {i \in (ask[k].from + 1)..ask[k].upto : IsAdminEvent(i)} IN
       /\ alerted' = alerted \cup found
       /\ alertedAgain' = alertedAgain \cup (alerted \cap found)
  /\ adminCursor' = LastRecord(ask[k], adminCursor)
  /\ ask' = [ask EXCEPT ![k] = NoAsk]
  /\ UNCHANGED <<adminLog, overlapped>>

\* The request is refused or lost: the catch logs it.
AskFails(k) ==
  /\ ask[k].stage # "none"
  /\ ask' = [ask EXCEPT ![k] = NoAsk]
  /\ UNCHANGED <<adminLog, adminCursor, alerted, alertedAgain, overlapped>>

\* The contract emits an event (external).
AdminEmit(t) ==
  /\ Len(adminLog) < MaxAdminLog
  /\ adminLog' = Append(adminLog, t)
  /\ UNCHANGED <<adminCursor, ask, alerted, alertedAgain, overlapped>>

AdminNext ==
  \/ \E k \in Requests : Tick(k) \/ Answer(k) \/ Arrive(k) \/ AskFails(k)
  \/ \E t \in AdminTopics : AdminEmit(t)

AdminSpec == startMonitor /\ [][AdminNext]_admin_vars
-----------------------------------------------------------------------------
(* No admin event is passed over: every watched event behind the cursor    *)
(* has been alerted, although overlapping callbacks move the one cursor    *)
(* forwards and backwards (admin_monitor.js:63-93).                        *)
NoAlertPassedOver ==
  /\ adminCursor \in 0..Len(adminLog)
  /\ \A i \in 1..adminCursor : IsAdminEvent(i) => i \in alerted

(* An event is alerted twice only after two callbacks overlapped: without  *)
(* overlap the cursor of a request is behind every earlier answer          *)
(* (admin_monitor.js:63).                                                  *)
AlertedOnceWithoutOverlap == ~overlapped => alertedAgain = {}

(* Every watched event behind the cursor was alerted, and once unless two  *)
(* callbacks overlapped (admin_monitor.js:63-93).                          *)
AdminAlertsRight == NoAlertPassedOver /\ AlertedOnceWithoutOverlap
=============================================================================
