------------------------------- MODULE Polling -------------------------------
(***************************************************************************)
(* frontend/src/hooks/usePolling.ts: a hook that calls a function now and  *)
(* then every interval, with an exponential backoff after failures.  The   *)
(* cleanup of its effect clears the timer but cannot recall a call in      *)
(* flight, which schedules the next one when it returns.                   *)
(***************************************************************************)
EXTENDS Integers, FiniteSets

CONSTANTS Loops     \* slots for polling loops: bounds the restarts

VARIABLES
  enabled,
  loop,        \* loop[l]: "free", "first" or "call" (in flight), "timer"
  timerRef,    \* the loop whose timer was set last, or "none"
  backoff,     \* backoffRef: the factor on the interval
  failures,    \* history: failed calls since the last success or restart
  cleanedInFlight   \* history: a cleanup came while a call was in flight

polling_vars == <<enabled, loop, timerRef, backoff, failures, cleanedInFlight>>

Running == {l \in Loops : loop[l] # "free"}
Calling == {l \in Loops : loop[l] \in {"first", "call"}}

PollingInit ==
  /\ enabled = FALSE /\ loop = [l \in Loops |-> "free"] /\ timerRef = "none"
  /\ backoff = 1 /\ failures = 0 /\ cleanedInFlight = FALSE

\* The effect: reset the backoff and call at once.
EffectStarts(l) ==
  /\ ~enabled /\ loop[l] = "free"
  /\ enabled' = TRUE
  /\ loop' = [loop EXCEPT ![l] = "first"]
  /\ backoff' = 1 /\ failures' = 0
  /\ UNCHANGED <<timerRef, cleanedInFlight>>

ClearTimeout_Missing == loop
ClearTimeout ==
  IF timerRef \in Loops /\ loop[timerRef] = "timer"
  THEN [loop EXCEPT ![timerRef] = "free"] ELSE loop

\* The cleanup, on unmount or when enabled turns false.
EffectEnds ==
  /\ enabled
  /\ enabled' = FALSE
  /\ loop' = ClearTimeout
  /\ cleanedInFlight' = (cleanedInFlight \/ Calling # {})
  /\ UNCHANGED <<timerRef, backoff, failures>>

\* A call returns; schedule sets the next timer.
CallSucceeds(l) ==
  /\ l \in Calling
  /\ backoff' = IF loop[l] = "first" THEN backoff ELSE 1
  /\ failures' = 0
  /\ loop' = [loop EXCEPT ![l] = "timer"] /\ timerRef' = l
  /\ UNCHANGED <<enabled, cleanedInFlight>>

NextBackoff_Uncapped(l) == IF loop[l] = "first" THEN 2 ELSE backoff * 2
NextBackoff(l) ==
  IF loop[l] = "first" THEN 2 ELSE IF backoff * 2 < 4 THEN backoff * 2 ELSE 4

CallFails(l) ==
  /\ l \in Calling
  /\ backoff' = NextBackoff(l)
  /\ failures' = IF failures < 3 THEN failures + 1 ELSE 3
  /\ loop' = [loop EXCEPT ![l] = "timer"] /\ timerRef' = l
  /\ UNCHANGED <<enabled, cleanedInFlight>>

TimerFires(l) ==
  /\ loop[l] = "timer"
  /\ loop' = [loop EXCEPT ![l] = "call"]
  /\ UNCHANGED <<enabled, timerRef, backoff, failures, cleanedInFlight>>

PollingNext ==
  \/ EffectEnds
  \/ \E l \in Loops : EffectStarts(l) \/ CallSucceeds(l) \/ CallFails(l) \/ TimerFires(l)
PollingSpec == PollingInit /\ [][PollingNext]_polling_vars
-----------------------------------------------------------------------------
(* There is one polling loop while enabled and none otherwise, unless a    *)
(* cleanup came while a call was in flight (usePolling.ts:42-44).          *)
NoZombieLoop ==
  ~cleanedInFlight => Cardinality(Running) = (IF enabled THEN 1 ELSE 0)

(* The delay doubles with every failure in a row up to four intervals and  *)
(* returns to one with the first success, as long as one loop is alone     *)
(* with the shared backoff (usePolling.ts schedule).                       *)
BackoffFollowsFailures ==
  ~cleanedInFlight =>
     backoff = IF failures = 0 THEN 1 ELSE IF failures = 1 THEN 2 ELSE 4

(* One loop while enabled, none otherwise, and its delay follows the       *)
(* failures in a row, as long as no cleanup came while a call was in       *)
(* flight (usePolling.ts).                                                 *)
OneLoopInStep == NoZombieLoop /\ BackoffFollowsFailures
=============================================================================
