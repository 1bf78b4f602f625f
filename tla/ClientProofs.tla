---------------------------- MODULE ClientProofs ----------------------------
(***************************************************************************)
(* Theorems about the web client: the polling hook, the two kinds of       *)
(* toasts, the theme in several tabs, the service worker, the wallet with  *)
(* its views, the proposal store, the vote preview, analytics and paging,  *)
(* for any number of calls in flight, tabs, resources, toasts, proposals   *)
(* and tracked events.                                                     *)
(***************************************************************************)
EXTENDS MCClient, FiniteSetTheorems, TLAPS

-----------------------------------------------------------------------------
(* usePolling.ts                                                           *)

\* Without a cleanup under a call the effect has one loop, whose timer is the
\* one that timerRef remembers, and a first call finds the backoff reset.
OneLoop ==
  /\ \A k, l \in Running : k = l
  /\ enabled <=> Running # {}
  /\ \A l \in Loops : loop[l] = "timer" => timerRef = l
  /\ \A l \in Loops : loop[l] = "first" => failures = 0

PollingInv ==
  /\ loop \in [Loops -> {"free", "first", "call", "timer"}]
  /\ failures \in 0..3
  /\ ~cleanedInFlight => OneLoop /\ BackoffFollowsFailures

\* The hook is mounted by the first start of its effect.
LEMMA InitPolling == PollingInit => PollingInv
BY DEF PollingInit, PollingInv, OneLoop, Running, BackoffFollowsFailures

\* An effect that starts finds no loop left of the one before.
LEMMA StartsPolling ==
  ASSUME PollingInv, NEW l \in Loops, EffectStarts(l)
  PROVE  PollingInv'
<1>1. /\ ~enabled /\ enabled' = TRUE /\ loop' = [loop EXCEPT ![l] = "first"]
      /\ backoff' = 1 /\ failures' = 0
      /\ UNCHANGED <<timerRef, cleanedInFlight>>
  BY DEF EffectStarts
<1>2. loop' \in [Loops -> {"free", "first", "call", "timer"}]
  BY <1>1 DEF PollingInv
<1>3. ASSUME ~cleanedInFlight' PROVE OneLoop'
  <2>1. \A k \in Loops : loop[k] = "free"
    BY <1>1, <1>3 DEF PollingInv, OneLoop, Running
  <2>2. \A k \in Loops : loop'[k] = IF k = l THEN "first" ELSE "free"
    BY <1>1, <2>1 DEF PollingInv
  <2>3. QED
    BY <1>1, <2>2 DEF OneLoop, Running
<1>4. QED
  BY <1>1, <1>2, <1>3 DEF PollingInv, BackoffFollowsFailures

\* The cleanup clears the timer, the only thing the loop may be waiting for.
LEMMA EndsPolling ==
  ASSUME PollingInv, EffectEnds
  PROVE  PollingInv'
<1>1. /\ enabled' = FALSE /\ loop' = ClearTimeout
      /\ cleanedInFlight' = (cleanedInFlight \/ Calling # {})
      /\ UNCHANGED <<timerRef, backoff, failures>>
  BY DEF EffectEnds
<1>2. loop' \in [Loops -> {"free", "first", "call", "timer"}]
  BY <1>1 DEF PollingInv, ClearTimeout
<1>3. ASSUME ~cleanedInFlight' PROVE OneLoop' /\ BackoffFollowsFailures'
  <2>1. OneLoop /\ BackoffFollowsFailures /\ ~cleanedInFlight /\ Calling = {}
    BY <1>1, <1>3 DEF PollingInv
  <2>2. \A k \in Loops : loop[k] # "free" => timerRef = k /\ loop[k] = "timer"
    BY <2>1 DEF PollingInv, OneLoop, Calling
  <2>3. \A k \in Loops : loop'[k] = "free"
    BY <1>1, <2>2 DEF PollingInv, ClearTimeout
  <2>4. QED
    BY <1>1, <2>1, <2>3 DEF OneLoop, Running, BackoffFollowsFailures
<1>4. QED
  BY <1>1, <1>2, <1>3 DEF PollingInv

\* A call ends and its timer is the one remembered, or the timer fires.
LEMMA LoopPolling ==
  ASSUME PollingInv, NEW l \in Loops, CallSucceeds(l) \/ CallFails(l) \/ TimerFires(l)
  PROVE  PollingInv'
<1>1. /\ loop[l] # "free" /\ UNCHANGED <<enabled, cleanedInFlight>>
      /\ \/ loop' = [loop EXCEPT ![l] = "timer"] /\ timerRef' = l
         \/ loop' = [loop EXCEPT ![l] = "call"] /\ timerRef' = timerRef
  BY DEF CallSucceeds, CallFails, TimerFires, Calling
<1>2. loop' \in [Loops -> {"free", "first", "call", "timer"}]
  BY <1>1 DEF PollingInv
<1>3. failures' \in 0..3
  BY DEF PollingInv, CallSucceeds, CallFails, TimerFires
<1>4. ASSUME ~cleanedInFlight' PROVE OneLoop' /\ BackoffFollowsFailures'
  <2>1. OneLoop /\ BackoffFollowsFailures /\ ~cleanedInFlight
    BY <1>1, <1>4 DEF PollingInv
  <2>2. \A k \in Loops : k # l => loop[k] = "free"
    BY <1>1, <2>1 DEF OneLoop, Running
  <2>3. /\ loop'[l] \in {"timer", "call"} /\ (loop'[l] = "timer" => timerRef' = l)
        /\ \A k \in Loops : k # l => loop'[k] = "free"
    BY <1>1, <2>2 DEF PollingInv
  <2>4. OneLoop'
    BY <1>1, <2>1, <2>3 DEF OneLoop, Running
  <2>5. loop[l] = "first" => failures = 0 /\ backoff = 1
    BY <2>1 DEF OneLoop, BackoffFollowsFailures
  <2>6. BackoffFollowsFailures'
    <3>1. CASE CallSucceeds(l)
      BY <2>5, <3>1 DEF CallSucceeds, BackoffFollowsFailures
    <3>2. CASE CallFails(l)
      BY <2>1, <2>5, <3>2 DEF PollingInv, CallFails, NextBackoff, BackoffFollowsFailures
    <3>3. CASE TimerFires(l)
      BY <2>1, <3>3 DEF TimerFires, BackoffFollowsFailures
    <3>4. QED
      BY <3>1, <3>2, <3>3
  <2>7. QED
    BY <2>4, <2>6
<1>5. QED
  BY <1>2, <1>3, <1>4 DEF PollingInv

\* PollingInv is inductive.
LEMMA NextPolling ==
  ASSUME PollingInv, [PollingNext]_polling_vars
  PROVE  PollingInv'
<1>1. CASE PollingNext
  BY <1>1, StartsPolling, EndsPolling, LoopPolling DEF PollingNext
<1>2. CASE UNCHANGED polling_vars
  BY <1>2 DEF polling_vars, PollingInv, OneLoop, Running, BackoffFollowsFailures
<1>3. QED
  BY <1>1, <1>2

\* A set with one element or none has that many.
LEMMA LoopCount ==
  ASSUME NEW S, \A k, l \in S : k = l
  PROVE  Cardinality(S) = IF S # {} THEN 1 ELSE 0
<1>1. CASE S = {}
  BY <1>1, FS_EmptySet
<1>2. ASSUME NEW x \in S PROVE Cardinality(S) = 1
  <2>1. S = {x}
    OBVIOUS
  <2>2. QED
    BY <2>1, FS_Singleton, Zenon
<1>3. QED
  BY <1>1, <1>2

\* One loop while enabled, none otherwise, with the delay of its failures in a
\* row, for any number of restarts that leave no call in flight (usePolling.ts).
THEOREM PollingCorrect == PollingSpec => []OneLoopInStep
<1>1. PollingInit => PollingInv
  BY InitPolling
<1>2. PollingInv /\ [PollingNext]_polling_vars => PollingInv'
  BY NextPolling
<1>3. PollingInv => OneLoopInStep
  <2>1. SUFFICES ASSUME PollingInv PROVE OneLoopInStep
    OBVIOUS
  <2>2. NoZombieLoop
    BY <2>1, LoopCount DEF PollingInv, OneLoop, NoZombieLoop
  <2>3. QED
    BY <2>1, <2>2 DEF PollingInv, BackoffFollowsFailures, OneLoopInStep
<1>4. QED
  BY <1>1, <1>2, <1>3, PTL DEF PollingSpec

-----------------------------------------------------------------------------
(* Toast.tsx and ToastContext.tsx                                          *)

\* Both counters are ahead of every id given out: the hook's of the toasts and
\* the timers left behind, the reducer's of the removals and the renders.
ToastInv ==
  /\ ToastsEnd
  /\ nextToast \in Nat
  /\ \A t \in toasts : t.id \in Nat /\ t.id < nextToast
  /\ \A id \in orphans : id \in Nat /\ id < nextToast
  /\ ctxNext \in Nat
  /\ \A id \in closures : id \in Nat /\ id <= ctxNext
  /\ \A id \in removals : id \in Nat

\* The hook's dismiss takes timer and toast together; a late show takes an id
\* that no toast has.
LEMMA HookToasts ==
  ASSUME ToastInv, HookStep
  PROVE  ToastInv'
<1>1. CASE Unmount \/ Mount
  BY <1>1 DEF Unmount, Mount, ctx_vars, ToastInv, ToastsEnd, TimersMatchToasts, ToastsGoAway
<1>2. ASSUME NEW type \in TOAST_TYPES, show(type) PROVE ToastInv'
  <2> DEFINE new == [id |-> nextToast, type |-> type]
  <2>1. /\ toasts' = toasts \cup {new}
        /\ timers' = IF type # "pending" THEN timers \cup {nextToast} ELSE timers
        /\ nextToast' = nextToast + 1
        /\ UNCHANGED <<orphans, ctxToasts, ctxNext, closures, removals>>
    BY <1>2 DEF show, AutoDismissed, ctx_vars
  <2>2. new.id = nextToast /\ new.type = type
    OBVIOUS
  <2> HIDE DEF new
  <2>3. timers' = {t.id : t \in {u \in toasts' : u.type # "pending"}}
    BY <2>1, <2>2 DEF ToastInv, ToastsEnd, TimersMatchToasts
  <2>4. \A t \in toasts' : t.id \in Nat /\ t.id < nextToast' /\ t.id \notin orphans'
    BY <2>1, <2>2 DEF ToastInv, ToastsEnd, TimersMatchToasts
  <2>5. \A id \in orphans' : id \in Nat /\ id < nextToast'
    BY <2>1 DEF ToastInv
  <2>6. QED
    BY <2>1, <2>3, <2>4, <2>5 DEF ToastInv, ToastsEnd, TimersMatchToasts, ToastsGoAway
<1>3. ASSUME NEW type \in TOAST_TYPES, LateShow(type) PROVE ToastInv'
  <2>1. /\ orphans' \subseteq orphans \cup {nextToast}
        /\ nextToast' = nextToast + 1
        /\ UNCHANGED <<toasts, timers, ctxToasts, ctxNext, closures, removals>>
    BY <1>3 DEF LateShow, ctx_vars
  <2>2. \A t \in toasts' : t.id \in Nat /\ t.id < nextToast' /\ t.id \notin orphans'
    BY <2>1 DEF ToastInv, ToastsEnd, TimersMatchToasts
  <2>3. \A id \in orphans' : id \in Nat /\ id < nextToast'
    BY <2>1 DEF ToastInv
  <2>4. QED
    BY <2>1, <2>2, <2>3 DEF ToastInv, ToastsEnd, TimersMatchToasts, ToastsGoAway
<1>4. ASSUME NEW id \in ToastIds, dismiss(id) \/ OrphanFires(id) PROVE ToastInv'
  BY <1>4 DEF dismiss, OrphanFires, ClearTimer, ctx_vars, ToastInv, ToastsEnd,
              TimersMatchToasts, ToastsGoAway
<1>5. QED
  BY <1>1, <1>2, <1>3, <1>4 DEF HookStep

\* notify schedules an id no greater than its toast's, and its toast's own
\* when it is fresh.
LEMMA CtxToasts ==
  ASSUME ToastInv, CtxStep
  PROVE  ToastInv'
<1>1. UNCHANGED <<toasts, timers, nextToast, orphans>>
  BY DEF CtxStep, Render, notify, DismissCtx, RemovalFires, hook_vars
<1>2. TimersMatchToasts' /\ nextToast' \in Nat
      /\ (\A t \in toasts' : t.id \in Nat /\ t.id < nextToast')
      /\ \A id \in orphans' : id \in Nat /\ id < nextToast'
  BY <1>1 DEF ToastInv, ToastsEnd, TimersMatchToasts
<1>3. CASE Render
  BY <1>2, <1>3 DEF Render, ToastInv, ToastsEnd, ToastsGoAway
<1>4. ASSUME NEW type \in TOAST_TYPES, NEW id \in closures, notify(type, id) PROVE ToastInv'
  <2> DEFINE new == [id |-> ctxNext, type |-> type, fresh |-> id = ctxNext]
  <2>1. /\ ctxToasts' = ctxToasts \cup {new}
        /\ ctxNext' = ctxNext + 1
        /\ removals' = IF type # "pending" THEN removals \cup {id} ELSE removals
        /\ UNCHANGED closures
    BY <1>4 DEF notify, Scheduled
  <2>2. new.id = ctxNext /\ new.type = type /\ (new.fresh => id = ctxNext)
    OBVIOUS
  <2> HIDE DEF new
  <2>3. ctxNext \in Nat /\ id \in Nat /\ id <= ctxNext
    BY DEF ToastInv
  <2>4. \A t \in ctxToasts' : t.fresh /\ t.type # "pending" => t.id \in removals'
    BY <2>1, <2>2 DEF ToastInv, ToastsEnd, ToastsGoAway
  <2>5. \A k \in removals' : k \in Nat /\ k < ctxNext'
    BY <2>1, <2>3 DEF ToastInv, ToastsEnd, ToastsGoAway
  <2>6. \A k \in closures' : k \in Nat /\ k <= ctxNext'
    <3>1. \A k \in closures : k \in Nat /\ k <= ctxNext
      BY DEF ToastInv
    <3>2. QED
      <4>1. closures' = closures /\ ctxNext' = ctxNext + 1
        BY <2>1
      <4>2. QED
        BY <2>3, <3>1, <4>1
  <2>7. QED
    BY <1>2, <2>1, <2>3, <2>4, <2>5, <2>6 DEF ToastInv, ToastsEnd, ToastsGoAway
<1>5. ASSUME NEW id \in ToastIds, DismissCtx(id) \/ RemovalFires(id) PROVE ToastInv'
  BY <1>2, <1>5 DEF DismissCtx, RemovalFires, Removed, ToastInv, ToastsEnd, ToastsGoAway
<1>6. QED
  BY <1>3, <1>4, <1>5 DEF CtxStep

\* In both implementations the toasts that are to go by themselves have their
\* timers, outside the stale notifies of async callers, and no timer meets a
\* toast it was not meant for, for any number of toasts (Toast.tsx,
\* ToastContext.tsx).
THEOREM ToastsCorrect == ToastSpec => []ToastsEnd
<1>1. ToastInit => ToastInv
  BY DEF ToastInit, ToastInv, ToastsEnd, TimersMatchToasts, ToastsGoAway
<1>2. ToastInv /\ [HookStep \/ CtxStep]_toast_vars => ToastInv'
  <2>1. ASSUME ToastInv, UNCHANGED toast_vars PROVE ToastInv'
    BY <2>1 DEF toast_vars, hook_vars, ctx_vars, ToastInv, ToastsEnd, TimersMatchToasts,
                ToastsGoAway
  <2>2. QED
    BY <2>1, HookToasts, CtxToasts
<1>3. ToastInv => ToastsEnd
  BY DEF ToastInv
<1>4. QED
  BY <1>1, <1>2, <1>3, PTL DEF ToastSpec

-----------------------------------------------------------------------------
(* sw.js                                                                   *)

WorkerTypeOK ==
  /\ server \in Nat \ {0}
  /\ cache \in [Resources -> Nat] /\ seen \in [Resources -> Nat]
  /\ puts \in [Resources -> SUBSET (Nat \ {0})]

\* Before the worker is active no page was served; from its installation on
\* the offline page is cached, in a cache that activate keeps.
ShellKept ==
  /\ worker # "active" => \A r \in Resources : seen[r] = 0 /\ puts[r] = {}
  /\ worker \in {"waiting", "active"} => cache[OfflinePage] # 0

\* Writes that never overlap: what is being written, or else what is cached,
\* is what the page was given last.
WritesInOrder ==
  \A r \in Resources : /\ puts[r] \subseteq {seen[r]}
                       /\ (seen[r] # 0 /\ puts[r] = {}) => cache[r] = seen[r]

WorkerInv == WorkerTypeOK /\ ShellKept /\ (~unordered => WritesInOrder)

\* The offline page is part of the shell.
LEMMA OfflineIsResource == OfflinePage \in Resources /\ OfflinePage \in Shell
BY WorkerAssumption DEF Resources

\* Nothing is cached and nobody was served.
LEMMA InitWorker == WorkerInit => WorkerInv
BY OfflineIsResource DEF WorkerInit, WorkerInv, WorkerTypeOK, ShellKept, WritesInOrder

\* The worker's own steps come before it serves any page.
LEMMA LifecycleWorker ==
  ASSUME WorkerInv, Install \/ AddAll \/ InstallFails \/ Activate \/ Deploy
  PROVE  WorkerInv'
<1>1. CASE Install \/ InstallFails
  BY <1>1 DEF Install, InstallFails, WorkerInv, WorkerTypeOK, ShellKept, WritesInOrder
<1>2. CASE AddAll
  <2>1. /\ worker = "installing" /\ worker' = "waiting"
        /\ cache' = [r \in Resources |-> IF r \in Shell THEN server ELSE cache[r]]
        /\ UNCHANGED <<server, puts, seen, unordered>>
    BY <1>2 DEF AddAll
  <2>2. cache' \in [Resources -> Nat] /\ cache'[OfflinePage] = server
    BY <2>1, OfflineIsResource DEF WorkerInv, WorkerTypeOK
  <2>3. QED
    BY <2>1, <2>2 DEF WorkerInv, WorkerTypeOK, ShellKept, WritesInOrder
<1>3. CASE Activate
  <2>1. cache' = cache /\ worker = "waiting" /\ UNCHANGED <<server, puts, seen, unordered>>
    BY <1>3 DEF Activate, Doomed
  <2>2. QED
    BY <2>1 DEF WorkerInv, WorkerTypeOK, ShellKept, WritesInOrder
<1>4. CASE Deploy
  BY <1>4 DEF Deploy, WorkerInv, WorkerTypeOK, ShellKept, WritesInOrder
<1>5. QED
  BY <1>1, <1>2, <1>3, <1>4

\* A page is given the deployed version, whose write starts.
LEMMA FetchWorker ==
  ASSUME WorkerInv, NEW r \in Resources, FetchOnline(r)
  PROVE  WorkerInv'
<1>1. /\ worker = "active" /\ UNCHANGED <<worker, caches_, cache, server>>
      /\ seen' = [seen EXCEPT ![r] = server]
      /\ puts' = [puts EXCEPT ![r] = puts[r] \cup {server}]
      /\ unordered' = (unordered \/ puts[r] # {})
  BY DEF FetchOnline
<1>2. WorkerTypeOK'
  BY <1>1 DEF WorkerInv, WorkerTypeOK
<1>3. /\ seen'[r] = server /\ puts'[r] = puts[r] \cup {server}
      /\ \A q \in Resources : q # r => seen'[q] = seen[q] /\ puts'[q] = puts[q]
  BY <1>1 DEF WorkerInv, WorkerTypeOK
<1>4. ASSUME ~unordered' PROVE WritesInOrder'
  BY <1>1, <1>3, <1>4 DEF WorkerInv, WritesInOrder
<1>5. QED
  BY <1>1, <1>2, <1>4 DEF WorkerInv, ShellKept

\* A write lands.
LEMMA PutWorker ==
  ASSUME WorkerInv, NEW r \in Resources, NEW v, PutLands(r, v)
  PROVE  WorkerInv'
<1>1. /\ v \in puts[r] /\ UNCHANGED <<worker, server, seen, unordered>>
      /\ puts' = [puts EXCEPT ![r] = puts[r] \ {v}] /\ cache' = [cache EXCEPT ![r] = v]
  BY DEF PutLands, Stored
<1>2. v \in Nat \ {0}
  BY <1>1 DEF WorkerInv, WorkerTypeOK
<1>3. WorkerTypeOK'
  BY <1>1, <1>2 DEF WorkerInv, WorkerTypeOK
<1>4. /\ cache'[r] = v /\ puts'[r] = puts[r] \ {v}
      /\ \A q \in Resources : q # r => cache'[q] = cache[q] /\ puts'[q] = puts[q]
  BY <1>1 DEF WorkerInv, WorkerTypeOK
<1>5. ShellKept'
  BY <1>1, <1>2, <1>4, OfflineIsResource DEF WorkerInv, ShellKept
<1>6. ASSUME ~unordered' PROVE WritesInOrder'
  BY <1>1, <1>4, <1>6 DEF WorkerInv, WritesInOrder
<1>7. QED
  BY <1>3, <1>5, <1>6 DEF WorkerInv

\* Offline a navigation is always answered, and with the version seen last,
\* for every set of resources and any number of releases (sw.js).
THEOREM OfflineCorrect == WorkerSpec => []OfflineServes
<1>1. WorkerInit => WorkerInv
  BY InitWorker
<1>2. WorkerInv /\ [WorkerNext]_sw_vars => WorkerInv'
  <2>1. SUFFICES ASSUME WorkerInv, [WorkerNext]_sw_vars PROVE WorkerInv'
    OBVIOUS
  <2>2. CASE WorkerNext
    BY <2>1, <2>2, LifecycleWorker, FetchWorker, PutWorker DEF WorkerNext
  <2>3. CASE UNCHANGED sw_vars
    BY <2>1, <2>3 DEF sw_vars, WorkerInv, WorkerTypeOK, ShellKept, WritesInOrder
  <2>4. QED
    BY <2>1, <2>2, <2>3
<1>3. WorkerInv => OfflineServes
  BY OfflineIsResource DEF WorkerInv, ShellKept, WritesInOrder, OfflineServes,
                           OfflineNavigates, OfflineIsLastSeen, Offline
<1>4. QED
  BY <1>1, <1>2, <1>3, PTL DEF WorkerSpec

-----------------------------------------------------------------------------
(* useTheme.ts                                                             *)

ThemeTypeOK ==
  /\ theme \in [ThemeTabs -> THEMES \cup {"closed"}]
  /\ saved \in THEMES \cup {"none"}
  /\ events \in [ThemeTabs -> Seq(THEMES)]

\* A tab shows the saved theme or the last event on its way to it carries it:
\* who wrote last shows what it wrote, and told all others.
Informed(t) ==
  \/ theme[t] \in {"closed", saved}
  \/ events[t] # <<>> /\ events[t][Len(events[t])] = saved

ThemeInv == ThemeTypeOK /\ (\A t \in ThemeTabs : Informed(t)) /\ NoEcho

\* No tab is open.
LEMMA InitTheme == ThemeInit => ThemeInv
BY DEF ThemeInit, ThemeInv, ThemeTypeOK, Informed, NoEcho

\* What appending to and taking from the events of a tab does.
LEMMA AppendTheme ==
  ASSUME NEW s \in Seq(THEMES), NEW th \in THEMES
  PROVE  /\ Append(s, th) \in Seq(THEMES) /\ Append(s, th) # <<>>
         /\ Append(s, th)[Len(Append(s, th))] = th
         /\ \A i \in DOMAIN Append(s, th) :
              Append(s, th)[i] = th \/ (i \in DOMAIN s /\ Append(s, th)[i] = s[i])
OBVIOUS

\* Taking the first event.
LEMMA TailTheme ==
  ASSUME NEW s \in Seq(THEMES), s # <<>>
  PROVE  /\ Head(s) \in THEMES /\ Tail(s) \in Seq(THEMES)
         /\ 1 \in DOMAIN s /\ Head(s) = s[1]
         /\ Tail(s) = <<>> => s[Len(s)] = Head(s)
         /\ Tail(s) # <<>> => Tail(s)[Len(Tail(s))] = s[Len(s)]
         /\ \A i \in DOMAIN Tail(s) : i + 1 \in DOMAIN s /\ Tail(s)[i] = s[i + 1]
OBVIOUS

\* A tab writes its theme: it agrees with what is saved, and every other tab
\* that did is told.
LEMMA WriteTheme ==
  ASSUME ThemeTypeOK, NEW t \in ThemeTabs, NEW th \in THEMES,
         NEW ev \in [ThemeTabs -> Seq(THEMES)],
         \A u \in ThemeTabs : u # t => ev[u] = events[u],
         \A u \in ThemeTabs : Informed(u),
         theme' = [theme EXCEPT ![t] = th], PersistTheme(t, th, ev)
  PROVE  ThemeTypeOK' /\ \A u \in ThemeTabs : Informed(u)'
<1>1. /\ saved' = th
      /\ \A u \in ThemeTabs :
           events'[u] = IF u # t /\ theme[u] # "closed" /\ saved # th THEN Append(ev[u], th) ELSE ev[u]
  BY DEF PersistTheme
<1>2. ThemeTypeOK'
  <2>1. events' \in [ThemeTabs -> Seq(THEMES)]
    BY AppendTheme DEF PersistTheme
  <2>2. theme' \in [ThemeTabs -> THEMES \cup {"closed"}]
    BY DEF ThemeTypeOK
  <2>3. QED
    BY <1>1, <2>1, <2>2 DEF ThemeTypeOK
<1>3. theme'[t] = th /\ \A u \in ThemeTabs : u # t => theme'[u] = theme[u]
  BY DEF ThemeTypeOK
<1>4. Informed(t)'
  BY <1>1, <1>3 DEF Informed
<1>5. ASSUME NEW u \in ThemeTabs, u # t PROVE Informed(u)'
  <2>1. theme'[u] = theme[u] /\ Informed(u) /\ ev[u] = events[u] /\ ev[u] \in Seq(THEMES)
    BY <1>3, <1>5 DEF ThemeTypeOK
  <2>2. CASE theme[u] = "closed" \/ saved = th
    BY <1>1, <1>5, <2>1, <2>2 DEF Informed
  <2>3. CASE theme[u] # "closed" /\ saved # th
    <3>1. events'[u] = Append(ev[u], th)
      BY <1>1, <1>5, <2>3
    <3>2. QED
      BY <1>1, <2>1, <3>1, AppendTheme DEF Informed
  <2>4. QED
    BY <2>2, <2>3
<1>6. QED
  BY <1>2, <1>4, <1>5

\* If every event in ev carried what was saved, or there are none, the events
\* afterwards carry what is saved.
LEMMA WriteEcho ==
  ASSUME NEW t \in ThemeTabs, NEW th \in THEMES,
         NEW ev \in [ThemeTabs -> Seq(THEMES)], PersistTheme(t, th, ev),
         \A u \in ThemeTabs : \A i \in DOMAIN ev[u] : ev[u][i] = th
  PROVE  \A u \in ThemeTabs : \A i \in DOMAIN events'[u] : events'[u][i] = saved'
<1>1. SUFFICES ASSUME NEW u \in ThemeTabs PROVE \A i \in DOMAIN events'[u] : events'[u][i] = saved'
  OBVIOUS
<1>2. saved' = th /\ events'[u] \in {ev[u], Append(ev[u], th)}
  BY DEF PersistTheme
<1>3. ev[u] \in Seq(THEMES)
  OBVIOUS
<1>4. CASE events'[u] = ev[u]
  BY <1>2, <1>4
<1>5. CASE events'[u] = Append(ev[u], th)
  <2>1. \A i \in DOMAIN Append(ev[u], th) :
          Append(ev[u], th)[i] = th \/ (i \in DOMAIN ev[u] /\ Append(ev[u], th)[i] = ev[u][i])
    BY <1>3, AppendTheme
  <2>2. QED
    BY <1>2, <1>5, <2>1, Zenon
<1>6. QED
  BY <1>2, <1>4, <1>5

\* A tab is opened with the saved theme, or writes the first one.
LEMMA OpenTheme ==
  ASSUME ThemeInv, NEW t \in ThemeTabs, NEW os \in THEMES, OpenTab(t, os)
  PROVE  ThemeInv'
<1> DEFINE th == resolveInitialTheme(os)
<1>1. /\ theme' = [theme EXCEPT ![t] = th] /\ PersistTheme(t, th, events)
      /\ raced' = raced
  BY DEF OpenTab
<1>2. th \in THEMES /\ (saved \in THEMES => th = saved)
  BY DEF resolveInitialTheme
<1> HIDE DEF th
<1>3. ThemeTypeOK' /\ \A u \in ThemeTabs : Informed(u)'
  BY <1>1, <1>2, WriteTheme DEF ThemeInv, ThemeTypeOK
<1>4. NoEcho'
  <2>1. SUFFICES ASSUME ~raced' PROVE \A u \in ThemeTabs : \A i \in DOMAIN events'[u] : events'[u][i] = saved'
    BY DEF NoEcho
  <2>2. \A u \in ThemeTabs : \A i \in DOMAIN events[u] : events[u][i] = saved /\ events[u][i] \in THEMES
    BY <1>1, <2>1 DEF ThemeInv, ThemeTypeOK, NoEcho
  <2>3. \A u \in ThemeTabs : \A i \in DOMAIN events[u] : events[u][i] = th
    BY <1>2, <2>2
  <2>4. QED
    BY <1>1, <1>2, <2>3, WriteEcho DEF ThemeInv, ThemeTypeOK
<1>5. QED
  BY <1>3, <1>4 DEF ThemeInv

\* A toggle races only with events on their way.
LEMMA ToggleTheme ==
  ASSUME ThemeInv, NEW t \in ThemeTabs, toggleTheme(t)
  PROVE  ThemeInv'
<1> DEFINE th == Other(theme[t])
<1>1. /\ theme' = [theme EXCEPT ![t] = th] /\ PersistTheme(t, th, events)
      /\ raced' = (raced \/ OnTheirWay)
  BY DEF toggleTheme
<1>2. th \in THEMES
  BY DEF Other, THEMES
<1> HIDE DEF th
<1>3. ThemeTypeOK' /\ \A u \in ThemeTabs : Informed(u)'
  BY <1>1, <1>2, WriteTheme DEF ThemeInv, ThemeTypeOK
<1>4. NoEcho'
  <2>1. SUFFICES ASSUME ~raced' PROVE \A u \in ThemeTabs : \A i \in DOMAIN events'[u] : events'[u][i] = saved'
    BY DEF NoEcho
  <2>2. \A u \in ThemeTabs : events[u] = <<>>
    BY <1>1, <2>1 DEF OnTheirWay
  <2>3. \A u \in ThemeTabs : \A i \in DOMAIN events[u] : events[u][i] = th
    BY <2>2
  <2>4. QED
    BY <1>1, <1>2, <2>3, WriteEcho DEF ThemeInv, ThemeTypeOK
<1>5. QED
  BY <1>3, <1>4 DEF ThemeInv

\* A closed tab hears nothing any more.
LEMMA CloseTheme ==
  ASSUME ThemeInv, NEW t \in ThemeTabs, CloseTab(t)
  PROVE  ThemeInv'
<1>1. /\ theme' = [theme EXCEPT ![t] = "closed"] /\ events' = [events EXCEPT ![t] = <<>>]
      /\ UNCHANGED <<saved, raced>>
  BY DEF CloseTab
<1>2. ThemeTypeOK'
  <2>1. <<>> \in Seq(THEMES)
    OBVIOUS
  <2>2. QED
    BY <1>1, <2>1 DEF ThemeInv, ThemeTypeOK
<1>3. /\ theme'[t] = "closed" /\ events'[t] = <<>>
      /\ \A u \in ThemeTabs : u # t => theme'[u] = theme[u] /\ events'[u] = events[u]
  BY <1>1 DEF ThemeInv, ThemeTypeOK
<1>4. QED
  BY <1>1, <1>2, <1>3 DEF ThemeInv, Informed, NoEcho

\* A tab adopts what it is told, and writes it if that is news to it.
LEMMA EventTheme ==
  ASSUME ThemeInv, NEW t \in ThemeTabs, StorageEvent(t)
  PROVE  ThemeInv'
<1> DEFINE th == Head(events[t])
           rest == [events EXCEPT ![t] = Tail(events[t])]
<1>1. /\ events[t] # <<>> /\ theme' = [theme EXCEPT ![t] = th] /\ raced' = raced
      /\ IF th # theme[t] THEN PersistTheme(t, th, rest) ELSE events' = rest /\ saved' = saved
  BY DEF StorageEvent, HandlerAdopts
<1>2. events[t] \in Seq(THEMES) /\ th \in THEMES /\ Tail(events[t]) \in Seq(THEMES)
  BY <1>1, TailTheme DEF ThemeInv, ThemeTypeOK
<1>3. /\ rest \in [ThemeTabs -> Seq(THEMES)] /\ rest[t] = Tail(events[t])
      /\ \A u \in ThemeTabs : u # t => rest[u] = events[u]
  BY <1>2 DEF ThemeInv, ThemeTypeOK
<1>4. /\ \A i \in DOMAIN rest[t] : i + 1 \in DOMAIN events[t] /\ rest[t][i] = events[t][i + 1]
      /\ 1 \in DOMAIN events[t] /\ th = events[t][1]
  BY <1>1, <1>2, <1>3, TailTheme
<1>5. /\ Tail(events[t]) = <<>> => events[t][Len(events[t])] = th
      /\ Tail(events[t]) # <<>> => Tail(events[t])[Len(Tail(events[t]))] = events[t][Len(events[t])]
  BY <1>1, <1>2, TailTheme
<1> HIDE DEF th, rest
<1>6. ThemeTypeOK' /\ \A u \in ThemeTabs : Informed(u)'
  <2>1. CASE th # theme[t]
    BY <1>1, <1>2, <1>3, <2>1, WriteTheme DEF ThemeInv
  <2>2. CASE th = theme[t]
    <3>1. /\ theme' = theme /\ events' = rest /\ saved' = saved
      BY <1>1, <2>2 DEF ThemeInv, ThemeTypeOK
    <3>2. Informed(t)'
      BY <1>1, <1>2, <1>3, <1>5, <2>2, <3>1 DEF ThemeInv, Informed, THEMES
    <3>3. QED
      BY <1>3, <3>1, <3>2 DEF ThemeInv, ThemeTypeOK, Informed
  <2>3. QED
    BY <2>1, <2>2
<1>7. NoEcho'
  <2>1. SUFFICES ASSUME ~raced' PROVE \A u \in ThemeTabs : \A i \in DOMAIN events'[u] : events'[u][i] = saved'
    BY DEF NoEcho
  <2>2. \A u \in ThemeTabs : \A i \in DOMAIN events[u] : events[u][i] = saved
    BY <1>1, <2>1 DEF ThemeInv, NoEcho
  <2>3. th = saved
    BY <1>4, <2>2
  <2>4. \A i \in DOMAIN rest[t] : rest[t][i] = th
    BY <1>4, <2>2, <2>3
  <2>5. \A u \in ThemeTabs : u # t => \A i \in DOMAIN rest[u] : rest[u][i] = th
    BY <1>3, <2>2, <2>3, Zenon
  <2>6. \A u \in ThemeTabs : \A i \in DOMAIN rest[u] : rest[u][i] = th
    BY <2>4, <2>5, Zenon
  <2>7. CASE th # theme[t]
    BY <1>1, <1>2, <1>3, <2>6, <2>7, WriteEcho
  <2>8. CASE th = theme[t]
    BY <1>1, <2>3, <2>6, <2>8, Zenon
  <2>9. QED
    BY <2>7, <2>8
<1>8. QED
  BY <1>6, <1>7 DEF ThemeInv

\* Once the storage events are delivered all open tabs show the saved theme,
\* and without a race no event contradicts it, for any number of tabs and
\* toggles (useTheme.ts).
THEOREM ThemeCorrect == ThemeSpec => []TabsAgree
<1>1. ThemeInit => ThemeInv
  BY InitTheme
<1>2. ThemeInv /\ [ThemeNext]_theme_vars => ThemeInv'
  <2>1. SUFFICES ASSUME ThemeInv, [ThemeNext]_theme_vars PROVE ThemeInv'
    OBVIOUS
  <2>2. CASE ThemeNext
    BY <2>1, <2>2, OpenTheme, CloseTheme, ToggleTheme, EventTheme DEF ThemeNext
  <2>3. CASE UNCHANGED theme_vars
    BY <2>1, <2>3 DEF theme_vars, ThemeInv, ThemeTypeOK, Informed, NoEcho
  <2>4. QED
    BY <2>1, <2>2, <2>3
<1>3. ThemeInv => TabsAgree
  BY DEF ThemeInv, Informed, TabsAgree, QuietTabsAgree, OnTheirWay
<1>4. QED
  BY <1>1, <1>2, <1>3, PTL DEF ThemeSpec

-----------------------------------------------------------------------------
(* VoteSimulationPreview.tsx                                               *)

\* The button admits one simulation at a time, and it clears the verdict.
PreviewInv ==
  /\ selectedVote \in VOTE_OPTIONS
  /\ sim \in [SimCalls -> VOTE_OPTIONS \cup {"none"}]
  /\ \A c, d \in SimCalls : sim[c] # "none" /\ sim[d] # "none" => c = d
  /\ simLoading <=> \E c \in SimCalls : sim[c] # "none"
  /\ OneVerdict

\* PreviewInv is inductive.
LEMMA NextPreview ==
  ASSUME PreviewInv, [PreviewNext]_preview_vars
  PROVE  PreviewInv'
<1>1. ASSUME NEW v \in VOTE_OPTIONS, SelectVote(v) PROVE PreviewInv'
  BY <1>1 DEF SelectVote, PreviewInv, OneVerdict
<1>2. ASSUME NEW c \in SimCalls, handleSimulate(c) PROVE PreviewInv'
  <2>1. /\ \A d \in SimCalls : sim[d] = "none"
        /\ simLoading' = TRUE /\ preview' = "none" /\ simError' = "none"
        /\ sim' = [sim EXCEPT ![c] = selectedVote] /\ selectedVote' = selectedVote
    BY <1>2 DEF handleSimulate, MaySimulate, PreviewInv
  <2>2. selectedVote # "none"
    BY DEF PreviewInv, VOTE_OPTIONS
  <2>3. \A d \in SimCalls : sim'[d] = IF d = c THEN selectedVote ELSE "none"
    BY <2>1 DEF PreviewInv
  <2>4. sim' \in [SimCalls -> VOTE_OPTIONS \cup {"none"}]
    BY <2>1 DEF PreviewInv
  <2>5. QED
    BY <2>1, <2>2, <2>3, <2>4 DEF PreviewInv, OneVerdict
<1>3. ASSUME NEW c \in SimCalls, NEW o \in {"ok", "contract", "network"}, SimulationEnds(c, o)
      PROVE  PreviewInv'
  <2>1. /\ sim[c] # "none" /\ simLoading' = FALSE /\ sim' = [sim EXCEPT ![c] = "none"]
        /\ selectedVote' = selectedVote
        /\ preview' = preview \/ simError' = simError
    BY <1>3 DEF SimulationEnds
  <2>2. preview = "none" /\ simError = "none" /\ \A d \in SimCalls : d # c => sim[d] = "none"
    BY <2>1 DEF PreviewInv, OneVerdict
  <2>3. \A d \in SimCalls : sim'[d] = "none"
    BY <2>1, <2>2 DEF PreviewInv
  <2>4. sim' \in [SimCalls -> VOTE_OPTIONS \cup {"none"}]
    BY <2>1 DEF PreviewInv
  <2>5. QED
    BY <2>1, <2>2, <2>3, <2>4 DEF PreviewInv, OneVerdict
<1>4. CASE UNCHANGED preview_vars
  BY <1>4 DEF preview_vars, PreviewInv, OneVerdict
<1>5. QED
  BY <1>1, <1>2, <1>3, <1>4 DEF PreviewNext

-----------------------------------------------------------------------------
(* proposalStore.ts                                                        *)

\* Two elements with the same id are the same, and none is newer than the chain.
Listing(S) ==
  /\ \A p, q \in S : p[1] = q[1] => p[2] = q[2]
  /\ \A p \in S : p[2] <= onChain[p[1]]

StoreTypeOK ==
  /\ onChain \in [Ids -> Nat]
  /\ proposals \in SUBSET (Ids \X Nat)
  /\ pload \in [Loads -> [stage : {"none", "count", "items"}, todo : SUBSET Int,
                          got : SUBSET (Ids \X Nat)]]

\* Without overlap one load is in flight at most, and it has nothing older
\* than what is shown.
OneLoad ==
  /\ \A l, m \in Loads : pload[l] # NoLoad /\ pload[m] # NoLoad => l = m
  /\ (\E l \in Loads : pload[l] # NoLoad) => loading
  /\ \A l \in Loads : \A p \in proposals, q \in pload[l].got : p[1] = q[1] => p[2] <= q[2]

\* What a load has got is a listing, and is not asked for again.
LoadsFresh ==
  \A l \in Loads :
    /\ Listing(pload[l].got)
    /\ pload[l].stage # "items" => pload[l].got = {}
    /\ \A q \in pload[l].got : q[1] \notin pload[l].todo

ListInv ==
  /\ StoreTypeOK /\ Listing(proposals) /\ LoadsFresh
  /\ loading => \E l \in Loads : pload[l] # NoLoad
  /\ ~overlap => OneLoad

\* The vote load in flight is for the account asked for last.
VotesInv ==
  /\ vload \in [VoteLoads -> [of : Accounts \cup {Nobody}, ask : SUBSET Ids,
                              confirm : SUBSET Ids, got : SUBSET Ids]]
  /\ \A l \in VoteLoads : vload[l].of = Nobody => vload[l] = NoVoteLoad
  /\ ~voteOverlap =>
       /\ \A l, m \in VoteLoads : vload[l] # NoVoteLoad /\ vload[m] # NoVoteLoad => l = m
       /\ \A l \in VoteLoads : vload[l] # NoVoteLoad => vload[l].of = asked
       /\ VotesOfAskedUser

\* A slot without a load.
LEMMA NoLoadFields == NoLoad.stage = "none" /\ NoLoad.todo = {} /\ NoLoad.got = {}
BY DEF NoLoad

\* The list is empty and nothing is asked.
LEMMA InitList == StoreInit => ListInv
<1>1. SUFFICES ASSUME StoreInit PROVE ListInv
  OBVIOUS
<1>2. StoreTypeOK
  BY <1>1 DEF StoreInit, StoreTypeOK, NoLoad
<1>3. \A l \in Loads : pload[l] = NoLoad
  BY <1>1 DEF StoreInit
<1>4. LoadsFresh
  BY <1>3, NoLoadFields DEF LoadsFresh, Listing
<1>5. QED
  BY <1>1, <1>2, <1>3, <1>4 DEF StoreInit, ListInv, Listing, OneLoad

\* A load starts.
LEMMA LoadList ==
  ASSUME ListInv, NEW l \in Loads, loadProposals(l)
  PROVE  ListInv'
<1> DEFINE started == [stage |-> "count", todo |-> {}, got |-> {}]
<1>1. /\ pload[l] = NoLoad /\ pload' = [pload EXCEPT ![l].stage = "count"]
      /\ loading' = TRUE
      /\ overlap' = (overlap \/ \E m \in Loads : pload[m] # NoLoad)
      /\ UNCHANGED <<onChain, proposals>>
  BY DEF loadProposals
<1>2. pload'[l] = started /\ \A m \in Loads : m # l => pload'[m] = pload[m]
  <2>1. /\ pload'[l] = [pload[l] EXCEPT !.stage = "count"]
        /\ \A m \in Loads : m # l => pload'[m] = pload[m]
    BY <1>1 DEF ListInv, StoreTypeOK
  <2>2. pload'[l] = [NoLoad EXCEPT !.stage = "count"]
    BY <1>1, <2>1
  <2>3. QED
    BY <2>1, <2>2 DEF NoLoad
<1>3. started.stage = "count" /\ started.todo = {} /\ started.got = {} /\ started # NoLoad
  BY NoLoadFields
<1> HIDE DEF started
<1>4. StoreTypeOK'
  BY <1>1 DEF ListInv, StoreTypeOK
<1>5. LoadsFresh' /\ Listing(proposals)'
  <2>1. \A S : Listing(S)' <=> Listing(S)
    BY <1>1 DEF Listing
  <2>2. Listing({})
    BY DEF Listing
  <2>3. QED
    BY <1>1, <1>2, <1>3, <2>1, <2>2 DEF ListInv, LoadsFresh
<1>6. ASSUME ~overlap' PROVE OneLoad'
  <2>1. ~overlap /\ \A m \in Loads : pload[m] = NoLoad
    BY <1>1, <1>6
  <2>2. QED
    BY <1>1, <1>2, <1>3, <2>1, NoLoadFields DEF OneLoad
<1>7. QED
  BY <1>1, <1>2, <1>3, <1>4, <1>5, <1>6 DEF ListInv

\* The count is answered, and every proposal is asked for.
LEMMA CountList ==
  ASSUME ListInv, NEW l \in Loads, fetchProposalCount(l)
  PROVE  ListInv'
<1> DEFINE asking == [stage |-> "items", todo |-> 0..(proposal_count - 1), got |-> {}]
<1>1. /\ pload[l].stage = "count" /\ pload' = [pload EXCEPT ![l] = asking]
      /\ UNCHANGED <<onChain, proposals, loading, overlap>>
  BY DEF fetchProposalCount
<1>2. asking \in [stage : {"none", "count", "items"}, todo : SUBSET Int, got : SUBSET (Ids \X Nat)]
  BY DEF proposal_count
<1>3. asking.got = {} /\ asking.stage = "items" /\ asking # NoLoad /\ pload[l] # NoLoad
  BY <1>1, NoLoadFields
<1> HIDE DEF asking
<1>4. StoreTypeOK'
  BY <1>1, <1>2 DEF ListInv, StoreTypeOK
<1>5. pload'[l] = asking /\ \A m \in Loads : m # l => pload'[m] = pload[m]
  BY <1>1 DEF ListInv, StoreTypeOK
<1>6. LoadsFresh' /\ Listing(proposals)'
  BY <1>1, <1>3, <1>5 DEF ListInv, LoadsFresh, Listing
<1>7. ASSUME ~overlap' PROVE OneLoad'
  BY <1>1, <1>3, <1>5, <1>7 DEF ListInv, OneLoad
<1>8. QED
  BY <1>1, <1>3, <1>4, <1>5, <1>6, <1>7 DEF ListInv

\* A proposal is answered with its present state, or its call fails.
LEMMA ItemList ==
  ASSUME ListInv, NEW l \in Loads, NEW i \in Ids, NEW ok \in BOOLEAN, fetchProposal(l, i, ok)
  PROVE  ListInv'
<1> DEFINE r == pload[l]
           new == <<i, onChain[i]>>
           got == IF ok THEN r.got \cup {new} ELSE r.got
           next == [stage |-> "items", todo |-> r.todo \ {i}, got |-> got]
<1>1. /\ r.stage = "items" /\ i \in r.todo
      /\ UNCHANGED <<onChain, proposals, loading, overlap>>
      /\ pload' = [pload EXCEPT ![l].todo = r.todo \ {i}, ![l].got = got]
  BY DEF fetchProposal
<1>2. new \in Ids \X Nat /\ new[1] = i /\ new[2] = onChain[i]
  BY DEF ListInv, StoreTypeOK
<1>3. /\ r.got \in SUBSET (Ids \X Nat) /\ r.todo \in SUBSET Int
      /\ Listing(r.got) /\ \A q \in r.got : q[1] \notin r.todo
  BY DEF ListInv, StoreTypeOK, LoadsFresh
<1> HIDE DEF new
<1>4. got \in SUBSET (Ids \X Nat) /\ \A q \in got : q \in r.got \/ q = new
  BY <1>2, <1>3
<1>5. onChain[i] \in Nat
  BY DEF ListInv, StoreTypeOK
<1> HIDE DEF got
<1>6. /\ pload'[l] = next /\ next.stage = "items" /\ next.todo = r.todo \ {i} /\ next.got = got
      /\ \A m \in Loads : m # l => pload'[m] = pload[m]
  BY <1>1 DEF ListInv, StoreTypeOK
<1>7. next # NoLoad /\ r # NoLoad
  BY <1>1, NoLoadFields
<1>8. StoreTypeOK'
  BY <1>1, <1>3, <1>4 DEF ListInv, StoreTypeOK
<1> HIDE DEF next, r
<1>9. Listing(got) /\ \A q \in got : q[1] \notin r.todo \ {i}
  BY <1>1, <1>2, <1>3, <1>4, <1>5 DEF Listing
<1>10. LoadsFresh' /\ Listing(proposals)'
  <2>1. \A S : Listing(S)' <=> Listing(S)
    BY <1>1 DEF Listing
  <2>2. /\ Listing(pload'[l].got) /\ pload'[l].stage = "items"
        /\ \A q \in pload'[l].got : q[1] \notin pload'[l].todo
    BY <1>6, <1>9
  <2>3. QED
    BY <1>1, <1>6, <2>1, <2>2 DEF ListInv, LoadsFresh
<1>11. ASSUME ~overlap' PROVE OneLoad'
  <2>1. OneLoad
    BY <1>1, <1>11 DEF ListInv
  <2>2. \A p \in proposals, q \in got : p[1] = q[1] => p[2] <= q[2]
    BY <1>2, <1>4, <2>1 DEF OneLoad, ListInv, Listing, r
  <2>3. QED
    BY <1>1, <1>6, <1>7, <2>1, <2>2 DEF OneLoad, r
<1>12. QED
  BY <1>1, <1>6, <1>7, <1>8, <1>10, <1>11 DEF ListInv

\* A load ends: what it got is shown, or an error is and the list stays.
LEMMA EndList ==
  ASSUME ListInv, NEW l \in Loads, LoadEnds(l) \/ LoadFails(l)
  PROVE  ListInv'
<1>1. /\ pload[l] # NoLoad /\ pload' = [pload EXCEPT ![l] = NoLoad]
      /\ loading' = FALSE /\ UNCHANGED <<onChain, overlap>>
      /\ proposals' \in {proposals, pload[l].got}
  BY NoLoadFields DEF LoadEnds, LoadFails, LoadedList, StillLoading
<1>2. StoreTypeOK'
  BY <1>1 DEF ListInv, StoreTypeOK, NoLoad
<1>3. pload'[l] = NoLoad /\ \A m \in Loads : m # l => pload'[m] = pload[m]
  BY <1>1 DEF ListInv, StoreTypeOK
<1>4. LoadsFresh' /\ Listing(proposals)'
  BY <1>1, <1>3, NoLoadFields DEF ListInv, LoadsFresh, Listing
<1>5. ASSUME ~overlap' PROVE OneLoad'
  <2>1. \A m \in Loads : pload'[m] = NoLoad
    BY <1>1, <1>3, <1>5 DEF ListInv, OneLoad
  <2>2. QED
    BY <2>1, NoLoadFields DEF OneLoad
<1>6. QED
  BY <1>1, <1>2, <1>4, <1>5 DEF ListInv

\* The chain moves on.
LEMMA ChainList ==
  ASSUME ListInv, ProposalMoves
  PROVE  ListInv'
<1>1. PICK i \in Ids : onChain' = [onChain EXCEPT ![i] = onChain[i] + 1]
  BY DEF ProposalMoves
<1>2. UNCHANGED <<proposals, loading, pload, overlap>>
  BY DEF ProposalMoves, list_vars
<1>3. onChain' \in [Ids -> Nat] /\ \A j \in Ids : onChain[j] \in Nat /\ onChain[j] <= onChain'[j]
  BY <1>1 DEF ListInv, StoreTypeOK
<1>4. ASSUME NEW S \in SUBSET (Ids \X Nat), Listing(S)
      PROVE  \A p, q \in S : (p[1] = q[1] => p[2] = q[2]) /\ p[2] <= onChain'[p[1]]
  BY <1>3, <1>4 DEF Listing
<1>5. Listing(proposals)'
  BY <1>2, <1>4 DEF ListInv, StoreTypeOK, Listing
<1>6. LoadsFresh'
  <2>1. ASSUME NEW l \in Loads PROVE Listing(pload[l].got)'
    <3>1. pload[l].got \in SUBSET (Ids \X Nat) /\ Listing(pload[l].got)
      BY DEF ListInv, StoreTypeOK, LoadsFresh
    <3>2. QED
      BY <1>2, <1>4, <3>1 DEF Listing
  <2>2. QED
    BY <1>2, <2>1 DEF ListInv, LoadsFresh
<1>7. QED
  BY <1>2, <1>3, <1>5, <1>6 DEF ListInv, StoreTypeOK, OneLoad

\* ListInv is inductive; the votes do not touch the list.
LEMMA NextList ==
  ASSUME ListInv, [StoreNext]_store_vars
  PROVE  ListInv'
<1>1. CASE ListStep
  BY <1>1, LoadList, CountList, ItemList, EndList DEF ListStep
<1>2. CASE ProposalMoves
  BY <1>2, ChainList
<1>3. CASE VoteStep \/ BallotMoves \/ UNCHANGED store_vars
  <2>1. UNCHANGED <<onChain, proposals, loading, pload, overlap>>
    BY <1>3 DEF VoteStep, BallotMoves, clearVotes, VotesEnd, loadVotesForUser, fetchHasVoted,
                fetchVoteRecord, store_vars, list_vars
  <2>2. QED
    BY <2>1 DEF ListInv, StoreTypeOK, Listing, LoadsFresh, OneLoad
<1>4. QED
  BY <1>1, <1>2, <1>3 DEF StoreNext

\* The list never goes back, for any number of proposals and of loads that do
\* not overlap (proposalStore.ts loadProposals, api.ts fetchAllProposals).
THEOREM ListCorrect == StoreSpec => ListNeverGoesBack
<1>1. StoreInit => ListInv
  BY InitList
<1>2. ListInv /\ [StoreNext]_store_vars => ListInv'
  BY NextList
<1>3. ListInv /\ [StoreNext]_store_vars =>
        [~overlap' => \A p \in proposals, q \in proposals' : p[1] = q[1] => p[2] <= q[2]]_store_vars
  <2>1. SUFFICES ASSUME ListInv, [StoreNext]_store_vars, ~overlap',
                        NEW p \in proposals, NEW q \in proposals', p[1] = q[1]
                 PROVE  p[2] <= q[2]
    OBVIOUS
  <2>2. CASE proposals' = proposals
    BY <2>1, <2>2 DEF ListInv, Listing, StoreTypeOK
  <2>3. ASSUME NEW l \in Loads, LoadEnds(l) PROVE p[2] <= q[2]
    <3>1. proposals' = pload[l].got /\ ~overlap
      BY <2>1, <2>3 DEF LoadEnds, LoadedList
    <3>2. QED
      BY <2>1, <3>1 DEF ListInv, OneLoad
  <2>4. CASE \A l \in Loads : ~LoadEnds(l)
    <3>1. proposals' = proposals
      BY <2>1, <2>4 DEF StoreNext, ListStep, loadProposals, fetchProposalCount, fetchProposal,
           LoadFails, VoteStep, BallotMoves, ProposalMoves, clearVotes, VotesEnd, loadVotesForUser,
           fetchHasVoted, fetchVoteRecord, store_vars, list_vars
    <3>2. QED
      BY <2>2, <3>1
  <2>5. QED
    BY <2>3, <2>4
<1>4. QED
  BY <1>1, <1>2, <1>3, PTL DEF StoreSpec, ListNeverGoesBack

\* A slot without a load is nobody's.
LEMMA NoVoteLoadOf == NoVoteLoad.of = Nobody
BY DEF NoVoteLoad

\* No votes are shown and nobody is asked for.
LEMMA InitVotes == StoreInit => VotesInv
<1>1. SUFFICES ASSUME StoreInit PROVE VotesInv
  OBVIOUS
<1>2. \A l \in VoteLoads : vload[l] = NoVoteLoad
  BY <1>1 DEF StoreInit
<1>3. vload \in [VoteLoads -> [of : Accounts \cup {Nobody}, ask : SUBSET Ids,
                               confirm : SUBSET Ids, got : SUBSET Ids]]
  BY <1>1 DEF StoreInit, NoVoteLoad
<1>4. votedMap.of = asked
  BY <1>1 DEF StoreInit, NoVotes
<1>5. QED
  BY <1>2, <1>3, <1>4 DEF VotesInv, VotesOfAskedUser

\* A load starts: it is for the account asked for last.
LEMMA LoadVotes ==
  ASSUME VotesInv, ListInv, NEW l \in VoteLoads, NEW u \in Accounts, loadVotesForUser(l, u)
  PROVE  VotesInv'
<1> DEFINE ids == {p[1] : p \in proposals}
           started == [NoVoteLoad EXCEPT !.of = u, !.ask = ids]
<1>1. /\ vload[l] = NoVoteLoad /\ asked' = u
      /\ vload' = [vload EXCEPT ![l] = started]
      /\ voteOverlap' = (voteOverlap \/ \E m \in VoteLoads : vload[m] # NoVoteLoad)
  BY DEF loadVotesForUser
<1>2. ids \in SUBSET Ids
  BY DEF ListInv, StoreTypeOK
<1> HIDE DEF ids
<1>3. NoVoteLoad \in [of : Accounts \cup {Nobody}, ask : SUBSET Ids,
                      confirm : SUBSET Ids, got : SUBSET Ids]
  BY DEF NoVoteLoad
<1>4. /\ started \in [of : Accounts \cup {Nobody}, ask : SUBSET Ids,
                      confirm : SUBSET Ids, got : SUBSET Ids]
      /\ started.of = u
  BY <1>2, <1>3
<1>5. started # NoVoteLoad
  BY <1>4, NoVoteLoadOf, StoreAssumption
<1> HIDE DEF started
<1>6. /\ vload'[l] = started /\ \A m \in VoteLoads : m # l => vload'[m] = vload[m]
      /\ vload' \in [VoteLoads -> [of : Accounts \cup {Nobody}, ask : SUBSET Ids,
                                   confirm : SUBSET Ids, got : SUBSET Ids]]
  BY <1>1, <1>4 DEF VotesInv
<1>7. QED
  BY <1>1, <1>4, <1>5, <1>6, StoreAssumption DEF VotesInv, VotesOfAskedUser

\* An answer of a load changes neither its account nor that it is in flight.
LEMMA AnswerVotes ==
  ASSUME VotesInv, NEW l \in VoteLoads, NEW i \in Ids, NEW ok \in BOOLEAN,
         fetchHasVoted(l, i, ok) \/ fetchVoteRecord(l, i, ok)
  PROVE  VotesInv'
<1> DEFINE Shape == [of : Accounts \cup {Nobody}, ask : SUBSET Ids,
                     confirm : SUBSET Ids, got : SUBSET Ids]
<1>1. UNCHANGED <<votedMap, asked, voteOverlap>>
  BY DEF fetchHasVoted, fetchVoteRecord
<1>2. vload[l].of # Nobody
  <2>1. i \in vload[l].ask \/ i \in vload[l].confirm
    BY DEF fetchHasVoted, fetchVoteRecord
  <2>2. NoVoteLoad.ask = {} /\ NoVoteLoad.confirm = {}
    BY DEF NoVoteLoad
  <2>3. QED
    BY <2>1, <2>2 DEF VotesInv
<1>3. /\ vload' \in [VoteLoads -> Shape] /\ vload'[l].of = vload[l].of
      /\ \A m \in VoteLoads : m # l => vload'[m] = vload[m]
  <2>1. CASE fetchHasVoted(l, i, ok)
    <3> DEFINE c == IF ok /\ <<vload[l].of, i>> \in ballots
                    THEN vload[l].confirm \cup {i} ELSE vload[l].confirm
    <3>1. vload' = [vload EXCEPT ![l].ask = vload[l].ask \ {i}, ![l].confirm = c]
      BY <2>1 DEF fetchHasVoted
    <3>2. c \in SUBSET Ids
      BY DEF VotesInv
    <3> HIDE DEF c
    <3>3. QED
      BY <3>1, <3>2 DEF VotesInv
  <2>2. CASE fetchVoteRecord(l, i, ok)
    <3> DEFINE g == IF ok /\ <<vload[l].of, i>> \in ballots
                    THEN vload[l].got \cup {i} ELSE vload[l].got
    <3>1. vload' = [vload EXCEPT ![l].confirm = vload[l].confirm \ {i}, ![l].got = g]
      BY <2>2 DEF fetchVoteRecord
    <3>2. g \in SUBSET Ids
      BY DEF VotesInv
    <3> HIDE DEF g
    <3>3. QED
      BY <3>1, <3>2 DEF VotesInv
  <2>3. QED
    BY <2>1, <2>2
<1> HIDE DEF Shape
<1>4. \A m \in VoteLoads : /\ vload'[m].of = vload[m].of
                           /\ vload'[m] = NoVoteLoad <=> vload[m] = NoVoteLoad
  BY <1>2, <1>3, NoVoteLoadOf
<1>5. \A m \in VoteLoads : vload'[m].of = Nobody => vload'[m] = NoVoteLoad
  BY <1>4 DEF VotesInv
<1>6. QED
  BY <1>1, <1>3, <1>4, <1>5 DEF VotesInv, VotesOfAskedUser, Shape

\* A load ends and its votes are shown; or the votes are cleared, which a load
\* in flight outlives.
LEMMA EndVotes ==
  ASSUME VotesInv, clearVotes \/ \E l \in VoteLoads : VotesEnd(l)
  PROVE  VotesInv'
<1>1. CASE clearVotes
  <2>1. /\ votedMap'.of = Nobody /\ asked' = Nobody /\ vload' = vload
        /\ voteOverlap' = (voteOverlap \/ \E m \in VoteLoads : vload[m] # NoVoteLoad)
    BY <1>1 DEF clearVotes, VotesCleared, NoVotes
  <2>2. QED
    BY <2>1 DEF VotesInv, VotesOfAskedUser
<1>2. ASSUME NEW l \in VoteLoads, VotesEnd(l) PROVE VotesInv'
  <2>1. /\ vload[l].of # Nobody /\ votedMap'.of = vload[l].of
        /\ vload' = [vload EXCEPT ![l] = NoVoteLoad] /\ UNCHANGED <<asked, voteOverlap>>
    BY <1>2 DEF VotesEnd
  <2>2. /\ vload' \in [VoteLoads -> [of : Accounts \cup {Nobody}, ask : SUBSET Ids,
                                     confirm : SUBSET Ids, got : SUBSET Ids]]
        /\ vload'[l] = NoVoteLoad /\ \A m \in VoteLoads : m # l => vload'[m] = vload[m]
    BY <2>1 DEF VotesInv, NoVoteLoad
  <2>3. vload[l] # NoVoteLoad
    BY <2>1, NoVoteLoadOf
  <2>4. QED
    BY <2>1, <2>2, <2>3 DEF VotesInv, VotesOfAskedUser
<1>3. QED
  BY <1>1, <1>2

\* VotesInv is inductive; the list does not touch the votes.
LEMMA NextVotes ==
  ASSUME VotesInv, ListInv, [StoreNext]_store_vars
  PROVE  VotesInv'
<1>1. CASE VoteStep
  BY <1>1, LoadVotes, AnswerVotes, EndVotes DEF VoteStep
<1>2. CASE ListStep \/ ProposalMoves \/ BallotMoves \/ UNCHANGED store_vars
  <2>1. UNCHANGED <<votedMap, vload, asked, voteOverlap>>
    BY <1>2 DEF ListStep, loadProposals, fetchProposalCount, fetchProposal, LoadEnds, LoadFails,
                ProposalMoves, BallotMoves, store_vars, vote_vars
  <2>2. QED
    BY <2>1 DEF VotesInv, VotesOfAskedUser
<1>3. QED
  BY <1>1, <1>2 DEF StoreNext

\* Spinner, votes and verdict are honest about the requests behind them, for
\* any number of loads and simulations in flight and any answers
\* (proposalStore.ts, VoteSimulationPreview.tsx).
THEOREM RequestsCorrect == StoreSpec /\ PreviewSpec => []RequestsHonest
<1>1. StoreInit /\ PreviewInit => ListInv /\ VotesInv /\ PreviewInv
  <2>1. PreviewInit => PreviewInv
    BY DEF PreviewInit, PreviewInv, OneVerdict, VOTE_OPTIONS
  <2>2. QED
    BY <2>1, InitList, InitVotes
<1>2. ListInv /\ VotesInv /\ PreviewInv /\ [StoreNext]_store_vars /\ [PreviewNext]_preview_vars
        => (ListInv /\ VotesInv /\ PreviewInv)'
  BY NextList, NextVotes, NextPreview
<1>3. ListInv /\ VotesInv /\ PreviewInv => RequestsHonest
  BY DEF ListInv, OneLoad, VotesInv, PreviewInv, RequestsHonest, SpinnerHonest, VotesOfAskedUser
<1>4. QED
  BY <1>1, <1>2, <1>3, PTL DEF StoreSpec, PreviewSpec

-----------------------------------------------------------------------------
(* walletStore.ts and ConnectWalletModal.tsx                               *)

WalletTypeOK ==
  /\ walletAddress \in Users \cup {NoOne}
  /\ conn \in [Calls -> {"none", "mine", "orphan"}]
  /\ balanceAsks \in [Users -> Nat]

\* Every balance on its way is the connected wallet's.
OwnBalances ==
  /\ tokenBalance \in {NoOne, walletAddress}
  /\ \A u \in Users : balanceAsks[u] > 0 => u = walletAddress

\* The open dialog has one call of its own while it waits, a closed one none.
OwnCall ==
  /\ \A j, k \in Calls : conn[j] = "mine" /\ conn[k] = "mine" => j = k
  /\ ModalWaitsForItsOwnCall
  /\ modalLoading => showModal

WalletInv == WalletTypeOK /\ (~mixed => OwnBalances) /\ OwnCall

\* No wallet is connected.
LEMMA InitWallet == WalletInit => WalletInv
BY DEF WalletInit, WalletInv, WalletTypeOK, OwnBalances, OwnCall, ModalWaitsForItsOwnCall

\* Closing the dialog leaves none of its calls behind as its own.
LEMMA OrphanedCalls ==
  ASSUME NEW c \in [Calls -> {"none", "mine", "orphan"}]
  PROVE  /\ Orphaned(c) \in [Calls -> {"none", "mine", "orphan"}]
         /\ \A k \in Calls : Orphaned(c)[k] # "mine"
BY DEF Orphaned

\* The dialog opens, closes or asks.
LEMMA DialogWallet ==
  ASSUME WalletInv, openModal \/ closeModal \/ \E k \in Calls : handleConnect(k)
  PROVE  WalletInv'
<1>1. UNCHANGED <<walletAddress, tokenBalance, balanceAsks, mixed>>
  BY DEF openModal, closeModal, handleConnect
<1>2. (~mixed => OwnBalances)'
  BY <1>1 DEF WalletInv, OwnBalances
<1>3. WalletTypeOK' /\ OwnCall'
  <2>1. CASE openModal
    BY <2>1 DEF openModal, WalletInv, WalletTypeOK, OwnCall, ModalWaitsForItsOwnCall
  <2>2. CASE closeModal
    <3>1. conn' = Orphaned(conn) /\ modalLoading' = FALSE
      BY <2>2 DEF closeModal
    <3>2. QED
      BY <1>1, <3>1, OrphanedCalls DEF WalletInv, WalletTypeOK, OwnCall, ModalWaitsForItsOwnCall
  <2>3. ASSUME NEW k \in Calls, handleConnect(k) PROVE WalletTypeOK' /\ OwnCall'
    <3>1. /\ showModal /\ showModal' = showModal /\ ~modalLoading /\ modalLoading' = TRUE
          /\ conn' = [conn EXCEPT ![k] = "mine"]
      BY <2>3 DEF handleConnect
    <3>2. \A j \in Calls : conn[j] # "mine"
      BY <3>1 DEF WalletInv, OwnCall, ModalWaitsForItsOwnCall
    <3>3. /\ conn' \in [Calls -> {"none", "mine", "orphan"}] /\ conn'[k] = "mine"
          /\ \A j \in Calls : j # k => conn'[j] = conn[j]
      BY <3>1 DEF WalletInv, WalletTypeOK
    <3>4. QED
      BY <1>1, <3>1, <3>2, <3>3 DEF WalletInv, WalletTypeOK, OwnCall, ModalWaitsForItsOwnCall
  <2>4. QED
    BY <2>1, <2>2, <2>3
<1>4. QED
  BY <1>2, <1>3 DEF WalletInv

\* The extension names an address; only a connect that replaces another one,
\* or overtakes a balance, mixes two wallets.
LEMMA ConnectWallet ==
  ASSUME WalletInv, NEW k \in Calls, NEW a \in Users, connect(k, a)
  PROVE  WalletInv'
<1>1. /\ walletAddress' = a /\ modalLoading' = FALSE
      /\ conn' = [Orphaned(conn) EXCEPT ![k] = "none"]
      /\ balanceAsks' = [balanceAsks EXCEPT ![a] = balanceAsks[a] + 1]
      /\ mixed' = (mixed \/ walletAddress \notin {NoOne, a}
                         \/ \E b \in Users \ {a} : balanceAsks[b] > 0)
      /\ tokenBalance' = tokenBalance
  BY DEF connect
<1>2. /\ conn' \in [Calls -> {"none", "mine", "orphan"}]
      /\ \A j \in Calls : conn'[j] # "mine"
  BY <1>1, OrphanedCalls DEF WalletInv, WalletTypeOK
<1>3. OwnCall'
  BY <1>1, <1>2 DEF OwnCall, ModalWaitsForItsOwnCall
<1>4. /\ balanceAsks' \in [Users -> Nat]
      /\ \A b \in Users : b # a => balanceAsks'[b] = balanceAsks[b]
  BY <1>1 DEF WalletInv, WalletTypeOK
<1>5. ASSUME ~mixed' PROVE OwnBalances'
  BY <1>1, <1>4, <1>5 DEF WalletInv, OwnBalances
<1>6. QED
  BY <1>1, <1>2, <1>3, <1>4, <1>5 DEF WalletInv, WalletTypeOK

\* A connect that fails reports to the dialog that started it.
LEMMA FailWallet ==
  ASSUME WalletInv, NEW k \in Calls, NEW threw \in BOOLEAN, ConnectFails(k, threw)
  PROVE  WalletInv'
<1>1. /\ conn' = [conn EXCEPT ![k] = "none"]
      /\ modalLoading' = IF conn[k] = "mine" THEN FALSE ELSE modalLoading
      /\ UNCHANGED <<walletAddress, tokenBalance, showModal, balanceAsks, mixed>>
  BY DEF ConnectFails, AfterFailure
<1>2. /\ conn' \in [Calls -> {"none", "mine", "orphan"}] /\ conn'[k] = "none"
      /\ \A j \in Calls : j # k => conn'[j] = conn[j]
  BY <1>1 DEF WalletInv, WalletTypeOK
<1>3. OwnCall'
  BY <1>1, <1>2 DEF WalletInv, OwnCall, ModalWaitsForItsOwnCall
<1>4. QED
  BY <1>1, <1>2, <1>3 DEF WalletInv, WalletTypeOK, OwnBalances

\* Disconnecting, asking for the balance and its answer.
LEMMA BalanceWallet ==
  ASSUME WalletInv,
         disconnect \/ refreshBalance \/ \E u \in Users, ok \in BOOLEAN : fetchTokenBalance(u, ok)
  PROVE  WalletInv'
<1>1. UNCHANGED <<showModal, modalLoading, modalError, conn>>
  BY DEF disconnect, refreshBalance, fetchTokenBalance
<1>2. OwnCall'
  BY <1>1 DEF WalletInv, OwnCall, ModalWaitsForItsOwnCall
<1>3. WalletTypeOK' /\ (~mixed => OwnBalances)'
  <2>1. CASE disconnect
    <3>1. /\ walletAddress' = NoOne /\ tokenBalance' = NoOne /\ balanceAsks' = balanceAsks
          /\ mixed' = (mixed \/ \E b \in Users : balanceAsks[b] > 0)
      BY <2>1 DEF disconnect
    <3>2. QED
      BY <1>1, <3>1 DEF WalletInv, WalletTypeOK, OwnBalances
  <2>2. CASE refreshBalance
    <3> DEFINE w == walletAddress
    <3>1. /\ w \in Users /\ balanceAsks' = [balanceAsks EXCEPT ![w] = balanceAsks[w] + 1]
          /\ UNCHANGED <<walletAddress, tokenBalance, mixed>>
      BY <2>2 DEF refreshBalance, WalletInv, WalletTypeOK
    <3>2. /\ balanceAsks' \in [Users -> Nat]
          /\ \A b \in Users : b # w => balanceAsks'[b] = balanceAsks[b]
      BY <3>1 DEF WalletInv, WalletTypeOK
    <3>3. QED
      BY <1>1, <3>1, <3>2 DEF WalletInv, WalletTypeOK, OwnBalances
  <2>3. ASSUME NEW u \in Users, NEW ok \in BOOLEAN, fetchTokenBalance(u, ok)
        PROVE  WalletTypeOK' /\ (~mixed => OwnBalances)'
    <3>1. /\ balanceAsks[u] > 0 /\ balanceAsks' = [balanceAsks EXCEPT ![u] = balanceAsks[u] - 1]
          /\ tokenBalance' \in {u, NoOne} /\ UNCHANGED <<walletAddress, mixed>>
      BY <2>3 DEF fetchTokenBalance
    <3>2. balanceAsks[u] \in Nat
      BY DEF WalletInv, WalletTypeOK
    <3>3. /\ balanceAsks' \in [Users -> Nat]
          /\ \A b \in Users : b # u => balanceAsks'[b] = balanceAsks[b]
      BY <3>1, <3>2 DEF WalletInv, WalletTypeOK
    <3>4. QED
      BY <1>1, <3>1, <3>3 DEF WalletInv, WalletTypeOK, OwnBalances
  <2>4. QED
    BY <2>1, <2>2, <2>3
<1>4. QED
  BY <1>2, <1>3 DEF WalletInv

\* WalletInv is inductive.
LEMMA StepWallet ==
  ASSUME WalletInv, WalletStep
  PROVE  WalletInv'
BY DialogWallet, ConnectWallet, FailWallet, BalanceWallet DEF WalletStep

-----------------------------------------------------------------------------
(* DelegationPanel.tsx                                                     *)

PanelShape ==
  [currentDelegate : Users \cup Outsiders \cup {NoOne}, loading : BOOLEAN,
   state : {"idle", "delegating", "revoking"}, input : Typed, error : BOOLEAN,
   success : BOOLEAN, asks : SUBSET Users, of : Users \cup {NoOne}, switched : BOOLEAN]

\* While the address never changed under a request: the panel waits for the
\* connected wallet's delegation only, what it shows once it is ready is that
\* wallet's, and a form was opened on what is shown.
PanelOwn ==
  /\ panel.asks \subseteq {walletAddress}
  /\ panel.asks # {} => panel.loading
  /\ Ready => panel.of = walletAddress /\ panel.currentDelegate # walletAddress
  /\ ~panel.switched => /\ panel.loading => panel.state = "idle"
                        /\ panel.state = "delegating" => panel.currentDelegate = NoOne
                        /\ panel.state = "revoking" => panel.currentDelegate # NoOne

PanelInv == panel \in PanelShape /\ (~crossed => PanelOwn)

\* A panel that is not mounted.
LEMMA NoPanelFields ==
  /\ NoPanel \in PanelShape /\ NoPanel.asks = {} /\ NoPanel.loading = TRUE
  /\ NoPanel.state = "idle"
BY DEF NoPanel, PanelShape, Typed

\* It shows nothing.
LEMMA NoPanelOwn ==
  ASSUME panel = NoPanel
  PROVE  PanelOwn
BY NoPanelFields DEF PanelOwn, Ready

\* The panel follows the address.
LEMMA PanelFollowsInv ==
  ASSUME PanelInv, walletAddress \in Users \cup {NoOne}, walletAddress' \in Users \cup {NoOne},
         PanelFollows
  PROVE  PanelInv'
<1>1. CASE walletAddress' = walletAddress
  BY <1>1 DEF PanelFollows, PanelInv, PanelOwn, Ready
<1>2. CASE walletAddress' # walletAddress /\ walletAddress' = NoOne
  <2>1. panel' = NoPanel /\ walletAddress' = NoOne
    BY <1>2 DEF PanelFollows
  <2>2. QED
    BY <2>1, NoPanelFields DEF PanelInv, PanelOwn, Ready
<1>3. CASE walletAddress' # walletAddress /\ walletAddress' # NoOne
  <2> DEFINE new == walletAddress'
             sw == panel.switched \/ panel.state # "idle"
  <2>1. /\ panel' = [[panel EXCEPT !.loading = TRUE, !.asks = panel.asks \cup {new}]
                       EXCEPT !.switched = sw]
        /\ crossed' = (crossed \/ panel.asks # {})
    BY <1>3 DEF PanelFollows, DelegationEffect, PanelInv, PanelShape
  <2>2. new \in Users /\ sw \in BOOLEAN
    BY <1>3
  <2> HIDE DEF new, sw
  <2>3. /\ panel' \in PanelShape /\ panel'.loading = TRUE /\ panel'.asks = panel.asks \cup {new}
        /\ panel'.switched = sw /\ panel'.state = panel.state
    BY <2>1, <2>2 DEF PanelInv, PanelShape
  <2>4. ASSUME ~crossed' PROVE PanelOwn'
    <3>1. panel'.asks = {new} /\ ~Ready'
      BY <2>1, <2>3, <2>4 DEF Ready
    <3>2. panel'.switched \/ panel'.state = "idle"
      BY <2>3 DEF sw
    <3>3. QED
      BY <2>3, <3>1, <3>2 DEF PanelOwn, new
  <2>5. QED
    BY <2>3, <2>4 DEF PanelInv
<1>4. QED
  BY <1>1, <1>2, <1>3

\* The answer to the one request that is on its way.
LEMMA FetchPanel ==
  ASSUME PanelInv, UNCHANGED <<walletAddress, crossed>>,
         NEW u \in Users, NEW ok \in BOOLEAN, fetchDelegation(u, ok)
  PROVE  PanelInv'
<1> DEFINE d == IF ok THEN Delegation[u] ELSE NoOne
<1>1. /\ u \in panel.asks
      /\ panel' = [panel EXCEPT !.asks = panel.asks \ {u}, !.of = u, !.loading = FALSE,
                                !.currentDelegate = d]
  BY DEF fetchDelegation
<1>2. d \in Users \cup Outsiders \cup {NoOne} /\ d # u
  BY DelegationAssumption
<1> HIDE DEF d
<1>3. /\ panel' \in PanelShape /\ panel'.asks = panel.asks \ {u} /\ panel'.of = u
      /\ panel'.loading = FALSE /\ panel'.currentDelegate = d
      /\ panel'.state = panel.state /\ panel'.switched = panel.switched
  BY <1>1, <1>2 DEF PanelInv, PanelShape
<1>4. ASSUME ~crossed' PROVE PanelOwn'
  <2>1. PanelOwn
    BY <1>4 DEF PanelInv
  <2>2. u = walletAddress /\ panel'.asks = {} /\ (~panel.switched => panel.state = "idle")
    BY <1>1, <1>3, <2>1 DEF PanelOwn
  <2>3. QED
    BY <1>2, <1>3, <2>2 DEF PanelOwn
<1>5. QED
  BY <1>3, <1>4 DEF PanelInv

\* The user opens, fills, sends, confirms or leaves a form.
LEMMA FormPanel ==
  ASSUME PanelInv, UNCHANGED <<walletAddress, crossed>>, walletAddress \in Users \cup {NoOne},
         \/ OpenDelegateForm \/ OpenRevokeForm \/ handleDelegate \/ handleRevoke \/ CancelForm
         \/ \E x \in Typed : TypeDelegate(x)
  PROVE  PanelInv'
<1>1. CASE OpenDelegateForm
  <2>1. panel' \in PanelShape
    BY <1>1 DEF OpenDelegateForm, PanelInv, PanelShape
  <2>2. /\ UNCHANGED <<panel.asks, panel.loading, panel.of, panel.currentDelegate, panel.switched>>
        /\ panel.currentDelegate = NoOne /\ ~panel.loading /\ panel'.state = "delegating"
    BY <1>1 DEF OpenDelegateForm, Ready, PanelInv, PanelShape
  <2>3. QED
    BY <2>1, <2>2 DEF PanelInv, PanelOwn, Ready
<1>2. CASE OpenRevokeForm
  <2>1. panel' \in PanelShape
    BY <1>2 DEF OpenRevokeForm, PanelInv, PanelShape
  <2>2. /\ UNCHANGED <<panel.asks, panel.loading, panel.of, panel.currentDelegate, panel.switched>>
        /\ panel.currentDelegate # NoOne /\ ~panel.loading /\ panel'.state = "revoking"
    BY <1>2 DEF OpenRevokeForm, Ready, PanelInv, PanelShape
  <2>3. QED
    BY <2>1, <2>2 DEF PanelInv, PanelOwn, Ready
<1>3. CASE handleDelegate /\ ValidDelegate(panel.input)
  <2> DEFINE x == panel.input
  <2>1. /\ Ready /\ x \in Users \cup Outsiders /\ x # walletAddress
        /\ panel' = [panel EXCEPT !.currentDelegate = x, !.of = walletAddress,
                                  !.input = "", !.state = "idle",
                                  !.success = TRUE, !.error = FALSE]
    BY <1>3 DEF handleDelegate, ValidDelegate
  <2> HIDE DEF x
  <2>2. panel' \in PanelShape
    BY <2>1 DEF PanelInv, PanelShape, Typed
  <2>3. /\ UNCHANGED <<panel.asks, panel.loading, panel.switched>>
        /\ panel'.currentDelegate = x /\ panel'.of = walletAddress /\ panel'.state = "idle"
    BY <2>1 DEF PanelInv, PanelShape
  <2>4. QED
    BY <2>1, <2>2, <2>3 DEF PanelInv, PanelOwn, Ready
<1>4. CASE handleRevoke
  <2>1. /\ Ready
        /\ panel' = [panel EXCEPT !.currentDelegate = NoOne, !.of = walletAddress,
                                  !.state = "idle", !.success = TRUE, !.error = FALSE]
    BY <1>4 DEF handleRevoke, Revoked
  <2>2. panel' \in PanelShape
    BY <2>1 DEF PanelInv, PanelShape
  <2>3. /\ UNCHANGED <<panel.asks, panel.loading, panel.switched>>
        /\ panel'.currentDelegate = NoOne /\ panel'.of = walletAddress /\ panel'.state = "idle"
    BY <2>1 DEF PanelInv, PanelShape
  <2>4. QED
    BY <2>1, <2>2, <2>3 DEF PanelInv, PanelOwn, Ready
<1>5. CASE CancelForm
  <2> DEFINE i == IF panel.state = "delegating" THEN "" ELSE panel.input
  <2>1. panel' = [panel EXCEPT !.state = "idle", !.error = FALSE, !.input = i]
    BY <1>5 DEF CancelForm
  <2>2. i \in Typed
    BY DEF PanelInv, PanelShape, Typed
  <2> HIDE DEF i
  <2>3. panel' \in PanelShape
    BY <2>1, <2>2 DEF PanelInv, PanelShape
  <2>4. /\ UNCHANGED <<panel.asks, panel.loading, panel.of, panel.currentDelegate, panel.switched>>
        /\ panel'.state = "idle"
    BY <2>1 DEF PanelInv, PanelShape
  <2>5. QED
    BY <2>3, <2>4 DEF PanelInv, PanelOwn, Ready
<1>6. CASE (handleDelegate /\ ~ValidDelegate(panel.input)) \/ \E x \in Typed : TypeDelegate(x)
  <2>1. \/ panel' = [panel EXCEPT !.error = TRUE]
        \/ \E x \in Typed : panel' = [panel EXCEPT !.input = x]
    BY <1>6 DEF handleDelegate, TypeDelegate
  <2>2. panel' \in PanelShape
    BY <2>1 DEF PanelInv, PanelShape
  <2>3. UNCHANGED <<panel.asks, panel.loading, panel.of, panel.currentDelegate, panel.switched,
                    panel.state>>
    BY <2>1 DEF PanelInv, PanelShape
  <2>4. QED
    BY <2>2, <2>3 DEF PanelInv, PanelOwn, Ready
<1>7. QED
  BY <1>1, <1>2, <1>3, <1>4, <1>5, <1>6

-----------------------------------------------------------------------------
(* ProposalDetail.tsx                                                      *)

DetailShape ==
  [open : BOOLEAN, voted : Users \cup {NoOne}, asks : SUBSET Users, failed : BOOLEAN]

\* While the address never changed under a request and none failed, the open
\* dialog waits for the connected wallet's status or shows it.
DetailOwn ==
  (detail.open /\ ~detail.failed /\ walletAddress # NoOne) =>
    \/ detail.asks = {walletAddress}
    \/ detail.asks = {} /\ detail.voted = walletAddress

DetailInv == detail \in DetailShape /\ (~crossed => DetailOwn)

\* The closed dialog.
LEMMA NoDetailFields == NoDetail \in DetailShape /\ NoDetail.open = FALSE
BY DEF NoDetail, DetailShape

\* The dialog follows the address.
LEMMA DetailFollowsInv ==
  ASSUME DetailInv, walletAddress' \in Users \cup {NoOne}, DetailFollows
  PROVE  DetailInv'
<1>1. CASE walletAddress' = walletAddress \/ ~detail.open
  BY <1>1 DEF DetailFollows, DetailInv, DetailOwn
<1>2. CASE walletAddress' # walletAddress /\ detail.open
  <2> DEFINE asks == detail.asks \cup ({walletAddress'} \ {NoOne})
  <2>1. detail' = [detail EXCEPT !.asks = asks] /\ crossed' = (crossed \/ detail.asks # {})
    BY <1>2 DEF DetailFollows, VoteStatusEffect
  <2>2. asks \in SUBSET Users
    BY DEF DetailInv, DetailShape
  <2>3. (detail.asks = {} /\ walletAddress' # NoOne) => asks = {walletAddress'}
    OBVIOUS
  <2> HIDE DEF asks
  <2>4. detail' \in DetailShape /\ detail'.asks = asks
    BY <2>1, <2>2 DEF DetailInv, DetailShape
  <2>5. QED
    BY <2>1, <2>3, <2>4 DEF DetailInv, DetailOwn
<1>3. QED
  BY <1>1, <1>2

\* The dialog is opened or closed, or its request is answered.
LEMMA StepDetail ==
  ASSUME DetailInv, UNCHANGED <<walletAddress, crossed>>, walletAddress \in Users \cup {NoOne},
         DetailStep
  PROVE  DetailInv'
<1>1. CASE OpenDetail
  <2> DEFINE asks == {walletAddress} \ {NoOne}
  <2>1. detail' = [NoDetail EXCEPT !.open = TRUE, !.asks = asks]
    BY <1>1 DEF OpenDetail, VoteStatusEffect
  <2>2. asks \in SUBSET Users /\ (walletAddress # NoOne => asks = {walletAddress})
    OBVIOUS
  <2> HIDE DEF asks
  <2>3. detail' \in DetailShape /\ detail'.asks = asks
    BY <2>1, <2>2, NoDetailFields DEF DetailShape
  <2>4. QED
    BY <2>2, <2>3 DEF DetailInv, DetailOwn
<1>2. CASE CloseDetail
  BY <1>2, NoDetailFields DEF CloseDetail, DetailInv, DetailOwn
<1>3. ASSUME NEW u \in Users, NEW ok \in BOOLEAN, VoteStatusAnswered(u, ok) PROVE DetailInv'
  <2> DEFINE v == IF ok THEN u ELSE detail.voted
             f == detail.failed \/ ~ok
  <2>1. /\ u \in detail.asks
        /\ detail' = [detail EXCEPT !.asks = detail.asks \ {u}, !.voted = v, !.failed = f]
    BY <1>3 DEF VoteStatusAnswered
  <2>2. v \in Users \cup {NoOne} /\ f \in BOOLEAN /\ (~f => v = u /\ ~detail.failed)
    BY DEF DetailInv, DetailShape
  <2> HIDE DEF v, f
  <2>3. /\ detail' \in DetailShape /\ detail'.asks = detail.asks \ {u}
        /\ detail'.voted = v /\ detail'.failed = f /\ detail'.open = detail.open
    BY <2>1, <2>2 DEF DetailInv, DetailShape
  <2>4. QED
    BY <2>1, <2>2, <2>3 DEF DetailInv, DetailOwn
<1>4. QED
  BY <1>1, <1>2, <1>3 DEF DetailStep

\* Of the two views the behaviour has one, the other stays as it began.
ViewsInv ==
  /\ WalletInv
  /\ view = "delegation" => PanelInv /\ detail = NoDetail
  /\ view = "detail" => DetailInv /\ panel = NoPanel
  /\ view \in {"delegation", "detail"}

\* ViewsInv is inductive.
LEMMA NextViews ==
  ASSUME ViewsInv, [ViewsNext]_<<wallet_vars, view_vars>>
  PROVE  ViewsInv'
<1>1. walletAddress \in Users \cup {NoOne}
  BY DEF ViewsInv, WalletInv, WalletTypeOK
<1>2. CASE WalletStep /\ view = "delegation" /\ PanelFollows /\ UNCHANGED <<view, detail>>
  <2>1. WalletInv' /\ walletAddress' \in Users \cup {NoOne}
    BY <1>2, StepWallet DEF ViewsInv, WalletInv, WalletTypeOK
  <2>2. QED
    BY <1>1, <1>2, <2>1, PanelFollowsInv DEF ViewsInv
<1>3. CASE WalletStep /\ view = "detail" /\ DetailFollows /\ UNCHANGED <<view, panel>>
  <2>1. WalletInv' /\ walletAddress' \in Users \cup {NoOne}
    BY <1>3, StepWallet DEF ViewsInv, WalletInv, WalletTypeOK
  <2>2. QED
    BY <1>3, <2>1, DetailFollowsInv DEF ViewsInv
<1>4. ASSUME UNCHANGED wallet_vars PROVE WalletInv' /\ walletAddress' = walletAddress
  BY <1>4 DEF ViewsInv, wallet_vars, WalletInv, WalletTypeOK, OwnBalances, OwnCall,
              ModalWaitsForItsOwnCall
<1>5. CASE PanelStep /\ view = "delegation" /\ UNCHANGED <<view, wallet_vars, detail, crossed>>
  <2>1. PanelInv'
    BY <1>1, <1>4, <1>5, FetchPanel, FormPanel DEF ViewsInv, PanelStep
  <2>2. QED
    BY <1>4, <1>5, <2>1 DEF ViewsInv
<1>6. CASE DetailStep /\ view = "detail" /\ UNCHANGED <<view, wallet_vars, panel, crossed>>
  <2>1. DetailInv'
    BY <1>1, <1>4, <1>6, StepDetail DEF ViewsInv
  <2>2. QED
    BY <1>4, <1>6, <2>1 DEF ViewsInv
<1>7. CASE UNCHANGED <<wallet_vars, view_vars>>
  BY <1>4, <1>7 DEF view_vars, ViewsInv, PanelInv, PanelOwn, Ready, DetailInv, DetailOwn
<1>8. QED
  BY <1>2, <1>3, <1>5, <1>6, <1>7 DEF ViewsNext

\* Balance, connect dialog, delegation with its forms and vote status are the
\* connected wallet's, for any number of wallets and of calls in flight
\* (walletStore.ts, ConnectWalletModal.tsx, DelegationPanel.tsx,
\* ProposalDetail.tsx).
THEOREM WalletCorrect == ViewsSpec => []ShownForWallet
<1>1. WalletInit /\ ViewsInit => ViewsInv
  <2>1. SUFFICES ASSUME WalletInit, ViewsInit PROVE ViewsInv
    OBVIOUS
  <2>2. PanelInv /\ DetailInv /\ panel = NoPanel /\ detail = NoDetail
    BY <2>1, NoPanelFields, NoPanelOwn, NoDetailFields DEF ViewsInit, PanelInv, DetailInv, DetailOwn
  <2>3. QED
    BY <2>1, <2>2, InitWallet DEF ViewsInit, ViewsInv
<1>2. ViewsInv /\ [ViewsNext]_<<wallet_vars, view_vars>> => ViewsInv'
  BY NextViews
<1>3. ViewsInv => ShownForWallet
  <2>1. SUFFICES ASSUME ViewsInv PROVE ShownForWallet
    OBVIOUS
  <2>2. BalanceOfWallet /\ ModalWaitsForItsOwnCall
    BY <2>1 DEF ViewsInv, WalletInv, OwnBalances, OwnCall, BalanceOfWallet
  <2>3. DelegationOfWallet /\ FormFitsDelegation
    BY <2>1, NoPanelFields DEF ViewsInv, PanelInv, PanelOwn, Ready, DelegationOfWallet, FormFitsDelegation
  <2>4. VoteStatusOfWallet
    BY <2>1, NoDetailFields DEF ViewsInv, DetailInv, DetailOwn, VoteStatusOfWallet
  <2>5. QED
    BY <2>2, <2>3, <2>4 DEF ShownForWallet
<1>4. QED
  BY <1>1, <1>2, <1>3, PTL DEF ViewsSpec

-----------------------------------------------------------------------------
(* analytics.ts                                                            *)

AnalyticsTypeOK ==
  /\ aTabs \subseteq Tabs /\ tracked \in Nat /\ stored \in Seq(Nat) /\ received \in Seq(Nat)
  /\ queue \in [Tabs -> Seq(Nat)]
  /\ \A p \in posts : p.batch \in Seq(Nat) /\ p = [page |-> p.page, batch |-> p.batch]

\* Only tracked events are anywhere, and a closed tab holds none.
OnlyTracked ==
  /\ ToSet(stored) \cup ToSet(received) \cup gone \cup unsaved \subseteq 1..tracked
  /\ \A t \in Tabs : /\ ToSet(queue[t]) \subseteq 1..tracked
                     /\ t \notin aTabs => queue[t] = <<>>
  /\ \A p \in posts : ToSet(p.batch) \subseteq 1..tracked

\* One tab, whose queue is stored but for what a failed setItem left out.
OneTab ==
  /\ \A t, u \in aTabs : t = u
  /\ \A t \in aTabs : /\ ToSet(queue[t]) \subseteq ToSet(stored) \cup unsaved
                      /\ unsaved \subseteq ToSet(queue[t])
  /\ aTabs = {} => unsaved = {}

\* Every event that was not given up is accepted, in flight or in the queue,
\* or stored while no page is open.
Accounted ==
  \A e \in (1..tracked) \ gone :
     \/ e \in ToSet(received)
     \/ \E p \in posts : e \in ToSet(p.batch)
     \/ \E t \in aTabs : e \in ToSet(queue[t])
     \/ aTabs = {} /\ e \in ToSet(stored)

\* Two sequences have no event in common.
Apart(s, r) == ToSet(s) \cap ToSet(r) = {}

\* No event is in two places, a queue and its stored copy excepted.
HeldOnce ==
  /\ IsInjective(received) /\ IsInjective(stored) /\ Apart(received, stored)
  /\ \A t \in Tabs : /\ IsInjective(queue[t]) /\ Apart(received, queue[t])
                     /\ queue[t] = stored \/ Apart(stored, queue[t])
                     /\ \A u \in Tabs : u # t => Apart(queue[t], queue[u])
  /\ \A p \in posts :
       /\ IsInjective(p.batch) /\ Apart(received, p.batch) /\ Apart(stored, p.batch)
       /\ \A u \in Tabs : Apart(queue[u], p.batch)
  /\ \A p, r \in posts : Apart(p.batch, r.batch) \/ p = r

Increasing(s) == \A i, j \in DOMAIN s : i < j => s[i] < s[j]
Before(s, r) == \A d \in ToSet(s), e \in ToSet(r) : d < e

\* What was received comes before the one batch in flight, and that before
\* the queue and its stored copy.
HeldInOrder ==
  /\ Increasing(received) /\ Increasing(stored) /\ Before(received, stored)
  /\ \A t \in Tabs : Increasing(queue[t]) /\ Before(received, queue[t])
  /\ \A p, r \in posts : p = r
  /\ \A p \in posts : /\ Increasing(p.batch) /\ Before(received, p.batch)
                      /\ Before(p.batch, stored)
                      /\ \A t \in Tabs : Before(p.batch, queue[t])

AnalyticsInv ==
  /\ AnalyticsTypeOK /\ OnlyTracked
  /\ ~shared => OneTab /\ Accounted
  /\ ~doubled => HeldOnce
  /\ (~crossing /\ ~doubled /\ ~shared) => HeldInOrder

\* The events of a sequence, and what the queue's operations do to them.
LEMMA EventsOf ==
  ASSUME NEW s \in Seq(Nat), NEW r \in Seq(Nat), NEW e \in Nat
  PROVE  /\ s \o r \in Seq(Nat) /\ Append(s, e) \in Seq(Nat) /\ <<>> \in Seq(Nat)
         /\ ToSet(<<>>) = {} /\ ToSet(s) \subseteq Nat
         /\ ToSet(s \o r) = ToSet(s) \cup ToSet(r)
         /\ ToSet(Append(s, e)) = ToSet(s) \cup {e}
         /\ \A d : Contains(s, d) <=> d \in ToSet(s)
<1>1. s \o r \in Seq(Nat) /\ Append(s, e) \in Seq(Nat) /\ <<>> \in Seq(Nat)
  OBVIOUS
<1>2. ToSet(<<>>) = {} /\ ToSet(s) \subseteq Nat /\ \A d : Contains(s, d) <=> d \in ToSet(s)
  BY DEF ToSet, Contains
<1>3. ToSet(s \o r) = ToSet(s) \cup ToSet(r)
  <2>1. ASSUME NEW d \in ToSet(s \o r) PROVE d \in ToSet(s) \cup ToSet(r)
    BY DEF ToSet
  <2>2. ASSUME NEW d \in ToSet(s) PROVE d \in ToSet(s \o r)
    <3>1. PICK i \in DOMAIN s : d = s[i]
      BY DEF ToSet
    <3>2. i \in DOMAIN (s \o r) /\ (s \o r)[i] = d
      BY <3>1
    <3>3. QED
      BY <3>2 DEF ToSet
  <2>3. ASSUME NEW d \in ToSet(r) PROVE d \in ToSet(s \o r)
    <3>1. PICK i \in DOMAIN r : d = r[i]
      BY DEF ToSet
    <3>2. Len(s) + i \in DOMAIN (s \o r) /\ (s \o r)[Len(s) + i] = d
      BY <3>1
    <3>3. QED
      BY <3>2 DEF ToSet
  <2>4. QED
    BY <2>1, <2>2, <2>3
<1>4. ToSet(Append(s, e)) = ToSet(s) \cup {e}
  <2>1. ASSUME NEW d \in ToSet(Append(s, e)) PROVE d \in ToSet(s) \cup {e}
    BY DEF ToSet
  <2>2. ASSUME NEW d \in ToSet(s) PROVE d \in ToSet(Append(s, e))
    <3>1. PICK i \in DOMAIN s : d = s[i]
      BY DEF ToSet
    <3>2. i \in DOMAIN Append(s, e) /\ Append(s, e)[i] = d
      BY <3>1
    <3>3. QED
      BY <3>2 DEF ToSet
  <2>3. e \in ToSet(Append(s, e))
    <3>1. Len(s) + 1 \in DOMAIN Append(s, e) /\ Append(s, e)[Len(s) + 1] = e
      OBVIOUS
    <3>2. QED
      BY <3>1 DEF ToSet
  <2>4. QED
    BY <2>1, <2>2, <2>3
<1>5. QED
  BY <1>1, <1>2, <1>3, <1>4

\* Putting sequences without common events together repeats none.
LEMMA InjectiveEvents ==
  ASSUME NEW s \in Seq(Nat), NEW r \in Seq(Nat), NEW e \in Nat, IsInjective(s)
  PROVE  /\ IsInjective(<<>>)
         /\ e \notin ToSet(s) => IsInjective(Append(s, e))
         /\ (IsInjective(r) /\ Apart(s, r)) => IsInjective(s \o r)
<1>1. IsInjective(<<>>)
  BY DEF IsInjective
<1>2. ASSUME e \notin ToSet(s) PROVE IsInjective(Append(s, e))
  BY <1>2 DEF IsInjective, ToSet
<1>3. ASSUME IsInjective(r), Apart(s, r) PROVE IsInjective(s \o r)
  <2>1. SUFFICES ASSUME NEW i \in DOMAIN (s \o r), NEW j \in DOMAIN (s \o r),
                        (s \o r)[i] = (s \o r)[j]
                 PROVE  i = j
    BY DEF IsInjective
  <2>2. \A k \in DOMAIN (s \o r) :
          \/ k \in DOMAIN s /\ (s \o r)[k] = s[k]
          \/ k - Len(s) \in DOMAIN r /\ (s \o r)[k] = r[k - Len(s)] /\ k \in Int
    OBVIOUS
  <2>3. \A k \in DOMAIN s, m \in DOMAIN r : s[k] # r[m]
    BY <1>3 DEF Apart, ToSet
  <2>4. CASE i \in DOMAIN s /\ (s \o r)[i] = s[i]
    <3>1. j \in DOMAIN s /\ (s \o r)[j] = s[j]
      BY <2>1, <2>2, <2>3, <2>4
    <3>2. QED
      BY <2>1, <2>4, <3>1 DEF IsInjective
  <2>5. CASE i - Len(s) \in DOMAIN r /\ (s \o r)[i] = r[i - Len(s)] /\ i \in Int
    <3>1. j - Len(s) \in DOMAIN r /\ (s \o r)[j] = r[j - Len(s)] /\ j \in Int
      BY <2>1, <2>2, <2>3, <2>5
    <3>2. i - Len(s) = j - Len(s)
      BY <1>3, <2>1, <2>5, <3>1 DEF IsInjective
    <3>3. QED
      BY <2>5, <3>1, <3>2
  <2>6. QED
    BY <2>2, <2>4, <2>5
<1>4. QED
  BY <1>1, <1>2, <1>3

\* Putting sequences in order together keeps the order.
LEMMA IncreasingEvents ==
  ASSUME NEW s \in Seq(Nat), NEW r \in Seq(Nat), NEW e \in Nat, Increasing(s)
  PROVE  /\ Increasing(<<>>)
         /\ (\A d \in ToSet(s) : d < e) => Increasing(Append(s, e))
         /\ (Increasing(r) /\ Before(s, r)) => Increasing(s \o r)
<1>1. Increasing(<<>>)
  BY DEF Increasing
<1>2. ASSUME \A d \in ToSet(s) : d < e PROVE Increasing(Append(s, e))
  <2>1. \A i \in DOMAIN s : s[i] < e
    BY <1>2 DEF ToSet
  <2>2. QED
    BY <2>1 DEF Increasing
<1>3. ASSUME Increasing(r), Before(s, r) PROVE Increasing(s \o r)
  <2>1. \A k \in DOMAIN s, m \in DOMAIN r : s[k] < r[m]
    BY <1>3 DEF Before, ToSet
  <2>2. SUFFICES ASSUME NEW i \in DOMAIN (s \o r), NEW j \in DOMAIN (s \o r), i < j
                 PROVE  (s \o r)[i] < (s \o r)[j]
    BY DEF Increasing
  <2>3. CASE j \in DOMAIN s
    BY <2>2, <2>3 DEF Increasing
  <2>4. CASE i \notin DOMAIN s
    <3>1. /\ i - Len(s) \in DOMAIN r /\ (s \o r)[i] = r[i - Len(s)]
          /\ j - Len(s) \in DOMAIN r /\ (s \o r)[j] = r[j - Len(s)]
          /\ i - Len(s) < j - Len(s)
      BY <2>2, <2>4
    <3>2. QED
      BY <1>3, <3>1 DEF Increasing
  <2>5. CASE i \in DOMAIN s /\ j \notin DOMAIN s
    BY <2>1, <2>2, <2>5
  <2>6. QED
    BY <2>3, <2>4, <2>5
<1>4. QED
  BY <1>1, <1>2, <1>3

\* The empty sequence has no events, hence none in common with another.
LEMMA NoEvents ==
  /\ <<>> \in Seq(Nat) /\ ToSet(<<>>) = {} /\ IsInjective(<<>>) /\ Increasing(<<>>)
  /\ \A s : Apart(s, <<>>) /\ Apart(<<>>, s) /\ Before(s, <<>>) /\ Before(<<>>, s)
<1>1. <<>> \in Seq(Nat) /\ ToSet(<<>>) = {} /\ IsInjective(<<>>) /\ Increasing(<<>>)
  BY DEF ToSet, IsInjective, Increasing
<1>2. QED
  BY <1>1 DEF Apart, Before

\* Nothing has been tracked.
LEMMA InitAnalytics == AnalyticsInit => AnalyticsInv
<1>1. SUFFICES ASSUME AnalyticsInit PROVE AnalyticsInv
  OBVIOUS
<1>2. /\ aTabs = {FirstTab} /\ stored = <<>> /\ received = <<>> /\ tracked = 0
      /\ posts = {} /\ gone = {} /\ unsaved = {}
      /\ \A t \in Tabs : queue[t] = <<>>
  BY <1>1 DEF AnalyticsInit
<1>3. AnalyticsTypeOK
  BY <1>1, NoEvents, AnalyticsAssumption DEF AnalyticsInit, AnalyticsTypeOK
<1>4. OnlyTracked /\ OneTab /\ Accounted
  BY <1>2, NoEvents, AnalyticsAssumption DEF OnlyTracked, OneTab, Accounted
<1>5. HeldOnce /\ HeldInOrder
  BY <1>2, NoEvents DEF HeldOnce, HeldInOrder
<1>6. QED
  BY <1>3, <1>4, <1>5 DEF AnalyticsInv

\* A page takes over what is stored, or gives it up: alone, or as a second tab
\* that finds nothing if no event is to be doubled.
LEMMA LoadAnalytics ==
  ASSUME AnalyticsInv, NEW t \in Tabs, NEW readable \in BOOLEAN, LoadPage(t, readable)
  PROVE  AnalyticsInv'
<1> DEFINE q == IF readable THEN stored ELSE <<>>
<1>1. /\ t \notin aTabs /\ aTabs' = aTabs \cup {t} /\ queue' = [queue EXCEPT ![t] = q]
      /\ gone' = IF readable THEN gone ELSE gone \cup ToSet(stored)
      /\ shared' = (shared \/ aTabs # {})
      /\ doubled' = (doubled \/ (aTabs # {} /\ stored # <<>>))
      /\ UNCHANGED <<posts, stored, tracked, received, unsaved, crossing>>
  BY DEF LoadPage
<1>2. q \in Seq(Nat) /\ ToSet(q) \subseteq ToSet(stored) /\ (q = stored \/ q = <<>>)
      /\ (ToSet(stored) \subseteq ToSet(q) \/ ToSet(stored) \subseteq gone')
  BY <1>1, NoEvents DEF AnalyticsInv, AnalyticsTypeOK
<1> HIDE DEF q
<1>3. queue'[t] = q /\ \A u \in Tabs : u # t => queue'[u] = queue[u]
  BY <1>1 DEF AnalyticsInv, AnalyticsTypeOK
<1>4. AnalyticsTypeOK'
  BY <1>1, <1>2 DEF AnalyticsInv, AnalyticsTypeOK
<1>5. OnlyTracked'
  BY <1>1, <1>2, <1>3 DEF AnalyticsInv, OnlyTracked
<1>6. ASSUME ~shared' PROVE OneTab' /\ Accounted'
  <2>1. ~shared /\ aTabs = {} /\ aTabs' = {t} /\ OneTab /\ Accounted
    BY <1>1, <1>6 DEF AnalyticsInv
  <2>2. OneTab'
    BY <1>1, <1>2, <1>3, <2>1 DEF OneTab
  <2>3. Accounted'
    <3>1. gone \subseteq gone'
      BY <1>1
    <3>2. SUFFICES ASSUME NEW e \in (1..tracked) \ gone', e \notin ToSet(received),
                          ~ \E p \in posts : e \in ToSet(p.batch)
                   PROVE  e \in ToSet(queue'[t])
      BY <1>1, <2>1 DEF Accounted
    <3>3. e \in ToSet(stored)
      BY <2>1, <3>1, <3>2 DEF Accounted
    <3>4. QED
      BY <1>2, <1>3, <3>2, <3>3
  <2>4. QED
    BY <2>2, <2>3
<1>7. ASSUME ~doubled' PROVE HeldOnce'
  <2>1. HeldOnce /\ (aTabs = {} \/ stored = <<>>)
    BY <1>1, <1>7 DEF AnalyticsInv
  <2>2. \A u \in Tabs : u # t => Apart(stored, queue[u])
    BY <2>1, NoEvents DEF AnalyticsInv, OnlyTracked
  <2>3. \A u \in Tabs : IsInjective(queue'[u]) /\ Apart(received, queue'[u])
    BY <1>2, <1>3, <2>1, NoEvents DEF HeldOnce
  <2>4. \A u \in Tabs : queue'[u] = stored \/ Apart(stored, queue'[u])
    BY <1>2, <1>3, <2>2, NoEvents
  <2>5. \A u, v \in Tabs : u # v => Apart(queue'[u], queue'[v])
    BY <1>2, <1>3, <2>1, <2>2 DEF HeldOnce, Apart
  <2>6. \A p \in posts : \A u \in Tabs : Apart(queue'[u], p.batch)
    BY <1>2, <1>3, <2>1, NoEvents DEF HeldOnce
  <2>7. QED
    BY <1>1, <2>1, <2>3, <2>4, <2>5, <2>6 DEF HeldOnce
<1>8. ASSUME ~crossing', ~doubled', ~shared' PROVE HeldInOrder'
  <2>1. HeldInOrder
    BY <1>1, <1>8 DEF AnalyticsInv
  <2>2. \A u \in Tabs : queue'[u] \in {queue[u], stored, <<>>}
    BY <1>2, <1>3
  <2>3. QED
    BY <1>1, <2>1, <2>2, NoEvents DEF HeldInOrder
<1>9. QED
  BY <1>4, <1>5, <1>6, <1>7, <1>8 DEF AnalyticsInv

\* A page goes away; its queue stays stored, its posts go on.
LEMMA CloseAnalytics ==
  ASSUME AnalyticsInv, NEW t \in Tabs, ClosePage(t)
  PROVE  AnalyticsInv'
<1> DEFINE Left(p) == IF p.page = t THEN [page |-> Closed, batch |-> p.batch] ELSE p
<1>1. /\ t \in aTabs /\ aTabs' = aTabs \ {t} /\ queue' = [queue EXCEPT ![t] = <<>>]
      /\ posts' = {Left(p) : p \in posts}
      /\ gone' = gone \cup unsaved /\ unsaved' = {}
      /\ UNCHANGED <<stored, tracked, received, shared, doubled, crossing>>
  BY DEF ClosePage
<1>2. \A p \in posts : /\ Left(p).batch = p.batch
                       /\ Left(p) = [page |-> Left(p).page, batch |-> Left(p).batch]
  BY DEF AnalyticsInv, AnalyticsTypeOK
<1> HIDE DEF Left
<1>3. /\ \A r \in posts' : \E p \in posts : r = Left(p) /\ r.batch = p.batch
      /\ \A p \in posts : Left(p) \in posts' /\ Left(p).batch = p.batch
  BY <1>1, <1>2
<1>4. queue'[t] = <<>> /\ \A u \in Tabs : u # t => queue'[u] = queue[u]
  BY <1>1 DEF AnalyticsInv, AnalyticsTypeOK
<1>5. AnalyticsTypeOK'
  <2>1. \A r \in posts' : r.batch \in Seq(Nat) /\ r = [page |-> r.page, batch |-> r.batch]
    BY <1>2, <1>3 DEF AnalyticsInv, AnalyticsTypeOK
  <2>2. QED
    BY <1>1, <2>1, NoEvents DEF AnalyticsInv, AnalyticsTypeOK
<1>6. OnlyTracked'
  <2>1. \A r \in posts' : ToSet(r.batch) \subseteq 1..tracked
    BY <1>3 DEF AnalyticsInv, OnlyTracked
  <2>2. QED
    BY <1>1, <1>4, <2>1, NoEvents DEF AnalyticsInv, OnlyTracked
<1>7. ASSUME ~shared' PROVE OneTab' /\ Accounted'
  <2>1. ~shared /\ OneTab /\ Accounted /\ aTabs' = {}
    BY <1>1, <1>7 DEF AnalyticsInv, OneTab
  <2>2. OneTab'
    BY <1>1, <2>1 DEF OneTab
  <2>3. ASSUME NEW e \in (1..tracked) \ gone', e \notin ToSet(received),
               ~ \E r \in posts' : e \in ToSet(r.batch)
        PROVE  e \in ToSet(stored)
    <3>1. e \notin gone /\ e \notin unsaved
      BY <1>1, <2>3
    <3>2. \A p \in posts : e \notin ToSet(p.batch)
      BY <1>3, <2>3
    <3>3. \E u \in aTabs : e \in ToSet(queue[u])
      BY <1>1, <2>1, <2>3, <3>1, <3>2 DEF Accounted
    <3>4. QED
      BY <2>1, <3>1, <3>3 DEF OneTab
  <2>4. Accounted'
    BY <1>1, <2>1, <2>3 DEF Accounted
  <2>5. QED
    BY <2>2, <2>4
<1>8. ASSUME ~doubled' PROVE HeldOnce'
  <2>1. HeldOnce
    BY <1>1, <1>8 DEF AnalyticsInv
  <2>2. \A u \in Tabs : queue'[u] = <<>> \/ (u # t /\ queue'[u] = queue[u])
    BY <1>4
  <2>3. \A u \in Tabs : /\ IsInjective(queue'[u]) /\ Apart(received, queue'[u])
                        /\ queue'[u] = stored \/ Apart(stored, queue'[u])
                        /\ \A v \in Tabs : v # u => Apart(queue'[u], queue'[v])
    BY <2>1, <2>2, NoEvents DEF HeldOnce
  <2>4. \A r \in posts' :
          /\ IsInjective(r.batch) /\ Apart(received, r.batch) /\ Apart(stored, r.batch)
          /\ \A u \in Tabs : Apart(queue'[u], r.batch)
    BY <1>3, <2>1, <2>2, NoEvents DEF HeldOnce
  <2>5. \A p, r \in posts' : Apart(p.batch, r.batch) \/ p = r
    BY <1>3, <2>1 DEF HeldOnce
  <2>6. QED
    BY <1>1, <2>1, <2>3, <2>4, <2>5 DEF HeldOnce
<1>9. ASSUME ~crossing', ~doubled', ~shared' PROVE HeldInOrder'
  <2>1. HeldInOrder
    BY <1>1, <1>9 DEF AnalyticsInv
  <2>2. \A u \in Tabs : queue'[u] \in {queue[u], <<>>}
    BY <1>4
  <2>3. \A u \in Tabs : Increasing(queue'[u]) /\ Before(received, queue'[u])
    BY <2>1, <2>2, NoEvents DEF HeldInOrder
  <2>4. \A r \in posts' : /\ Increasing(r.batch) /\ Before(received, r.batch)
                          /\ Before(r.batch, stored)
                          /\ \A u \in Tabs : Before(r.batch, queue'[u])
    BY <1>3, <2>1, <2>2, NoEvents DEF HeldInOrder
  <2>5. \A p, r \in posts' : p = r
    BY <1>3, <2>1 DEF HeldInOrder
  <2>6. QED
    BY <1>1, <2>1, <2>3, <2>4, <2>5 DEF HeldInOrder
<1>10. QED
  BY <1>5, <1>6, <1>7, <1>8, <1>9 DEF AnalyticsInv

\* q is the queue of tab t with the events that the step tracks at its end.
Grown(t, q) ==
  /\ t \in aTabs /\ q \in Seq(Nat) /\ tracked' \in {tracked, tracked + 1}
  /\ ToSet(q) = ToSet(queue[t]) \cup ((1..tracked') \ (1..tracked))
  /\ IsInjective(queue[t]) => IsInjective(q)
  /\ Increasing(queue[t]) => Increasing(q)
  /\ UNCHANGED <<aTabs, received, shared>>

\* What q contains is new or comes out of the queue, so it is as far from
\* everything else as the queue was.
LEMMA GrownApart ==
  ASSUME AnalyticsInv, NEW t \in Tabs, NEW q, Grown(t, q), HeldOnce
  PROVE  /\ IsInjective(q) /\ Apart(received, q)
         /\ \A u \in Tabs : u # t => Apart(queue[u], q)
         /\ \A p \in posts : Apart(q, p.batch)
<1> DEFINE new == (1..tracked') \ (1..tracked)
<1>1. ToSet(q) = ToSet(queue[t]) \cup new
  BY DEF Grown
<1>2. \A e \in new : e \notin 1..tracked
  OBVIOUS
<1> HIDE DEF new
<1>3. Apart(received, q)
  BY <1>1, <1>2 DEF AnalyticsInv, OnlyTracked, HeldOnce, Apart
<1>4. \A u \in Tabs : u # t => Apart(queue[u], q)
  BY <1>1, <1>2 DEF AnalyticsInv, OnlyTracked, HeldOnce, Apart
<1>5. \A p \in posts : Apart(q, p.batch)
  BY <1>1, <1>2 DEF AnalyticsInv, OnlyTracked, HeldOnce, Apart
<1>6. QED
  BY <1>3, <1>4, <1>5 DEF Grown, HeldOnce

\* And it comes after what the queue came after.
LEMMA GrownBefore ==
  ASSUME AnalyticsInv, NEW t \in Tabs, NEW q, Grown(t, q), HeldInOrder
  PROVE  /\ Increasing(q) /\ Before(received, q)
         /\ \A p \in posts : Before(p.batch, q)
<1> DEFINE new == (1..tracked') \ (1..tracked)
<1>1. ToSet(q) = ToSet(queue[t]) \cup new
  BY DEF Grown
<1>2. \A e \in new, d \in 1..tracked : d < e
  BY DEF AnalyticsInv, AnalyticsTypeOK, Grown
<1> HIDE DEF new
<1>3. Before(received, q)
  BY <1>1, <1>2 DEF AnalyticsInv, OnlyTracked, HeldInOrder, Before
<1>4. \A p \in posts : Before(p.batch, q)
  BY <1>1, <1>2 DEF AnalyticsInv, OnlyTracked, HeldInOrder, Before
<1>5. QED
  BY <1>3, <1>4 DEF Grown, HeldInOrder

\* The bookkeeping that keeping and splicing a grown queue share.
LEMMA GrownTracked ==
  ASSUME AnalyticsInv, NEW t \in Tabs, NEW q, Grown(t, q)
  PROVE  /\ tracked' \in Nat /\ q \in Seq(Nat) /\ ToSet(q) \subseteq 1..tracked'
         /\ 1..tracked \subseteq 1..tracked'
         /\ \A e \in 1..tracked' : e \in 1..tracked \/ e \in ToSet(q)
         /\ ToSet(queue[t]) \subseteq ToSet(q)
<1>1. tracked \in Nat /\ tracked' \in Nat /\ tracked <= tracked' /\ q \in Seq(Nat)
  BY DEF AnalyticsInv, AnalyticsTypeOK, Grown
<1>2. 1..tracked \subseteq 1..tracked'
  BY <1>1
<1>3. ToSet(q) \subseteq 1..tracked'
  BY <1>2 DEF AnalyticsInv, OnlyTracked, Grown
<1>4. \A e \in 1..tracked' : e \in 1..tracked \/ e \in ToSet(q)
  BY DEF Grown
<1>5. QED
  BY <1>1, <1>2, <1>3, <1>4 DEF Grown

\* The queue as the step leaves it is stored with it, unless setItem fails.
LEMMA KeepAnalytics ==
  ASSUME AnalyticsInv, NEW t \in Tabs, NEW q, NEW ok \in BOOLEAN, Grown(t, q),
         Saved(t, q, ok), doubled' = (doubled \/ Stale(q, stored, ok)),
         UNCHANGED <<posts, crossing, gone>>
  PROVE  AnalyticsInv'
<1>1. /\ queue' = [queue EXCEPT ![t] = q]
      /\ stored' = IF ok THEN q ELSE stored
      /\ unsaved' = IF ok THEN {} ELSE ToSet(q) \ ToSet(stored)
  BY DEF Saved, Persisted
<1>2. /\ tracked' \in Nat /\ q \in Seq(Nat) /\ ToSet(q) \subseteq 1..tracked'
      /\ 1..tracked \subseteq 1..tracked'
      /\ \A e \in 1..tracked' : e \in 1..tracked \/ e \in ToSet(q)
      /\ ToSet(queue[t]) \subseteq ToSet(q)
  BY GrownTracked
<1>3. AnalyticsTypeOK'
  BY <1>1, <1>2 DEF AnalyticsInv, AnalyticsTypeOK, Grown
<1>4. queue'[t] = q /\ \A u \in Tabs : u # t => queue'[u] = queue[u]
  BY <1>1 DEF AnalyticsInv, AnalyticsTypeOK
<1>5. OnlyTracked'
  <2>1. ToSet(stored') \subseteq 1..tracked' /\ unsaved' \subseteq 1..tracked'
    BY <1>1, <1>2 DEF AnalyticsInv, OnlyTracked
  <2>2. QED
    BY <1>2, <1>4, <2>1 DEF AnalyticsInv, OnlyTracked, Grown
<1>6. ASSUME ~shared' PROVE OneTab' /\ Accounted'
  <2>1. ~shared /\ OneTab /\ Accounted /\ t \in aTabs /\ aTabs' = aTabs /\ aTabs = {t}
    BY <1>6 DEF Grown, AnalyticsInv, OneTab
  <2>2. ToSet(q) \subseteq ToSet(stored') \cup unsaved' /\ unsaved' \subseteq ToSet(q)
    BY <1>1
  <2>3. OneTab'
    BY <1>4, <2>1, <2>2 DEF OneTab
  <2>4. Accounted'
    <3>1. SUFFICES ASSUME NEW e \in (1..tracked') \ gone, e \notin ToSet(received),
                          ~ \E p \in posts : e \in ToSet(p.batch)
                   PROVE  e \in ToSet(q)
      BY <1>4, <2>1 DEF Accounted, Grown
    <3>2. CASE e \in 1..tracked
      BY <1>2, <2>1, <3>1, <3>2 DEF Accounted
    <3>3. QED
      BY <1>2, <3>1, <3>2
  <2>5. QED
    BY <2>3, <2>4
<1>7. ASSUME ~doubled' PROVE ~doubled /\ (stored' = q \/ stored' = <<>>)
  BY <1>1, <1>7 DEF Stale
<1>8. ASSUME ~doubled' PROVE HeldOnce'
  <2>1. HeldOnce /\ (stored' = q \/ stored' = <<>>)
    BY <1>7, <1>8 DEF AnalyticsInv
  <2>2. /\ IsInjective(q) /\ Apart(received, q)
        /\ \A u \in Tabs : u # t => Apart(queue[u], q) /\ Apart(q, queue[u])
        /\ \A p \in posts : Apart(q, p.batch)
    BY <2>1, GrownApart DEF Apart
  <2>3. IsInjective(stored') /\ Apart(received, stored')
        /\ \A p \in posts : Apart(stored', p.batch)
    BY <2>1, <2>2, NoEvents
  <2>4. \A u \in Tabs : /\ IsInjective(queue'[u]) /\ Apart(received, queue'[u])
                        /\ queue'[u] = stored' \/ Apart(stored', queue'[u])
                        /\ \A v \in Tabs : v # u => Apart(queue'[u], queue'[v])
    BY <1>4, <2>1, <2>2, NoEvents DEF HeldOnce
  <2>5. \A p \in posts : \A u \in Tabs : Apart(queue'[u], p.batch)
    BY <1>4, <2>1, <2>2 DEF HeldOnce
  <2>6. QED
    BY <2>1, <2>3, <2>4, <2>5 DEF HeldOnce, Grown
<1>9. ASSUME ~crossing', ~doubled', ~shared' PROVE HeldInOrder'
  <2>1. HeldInOrder /\ (stored' = q \/ stored' = <<>>)
    BY <1>7, <1>9 DEF Grown, AnalyticsInv
  <2>2. Increasing(q) /\ Before(received, q) /\ \A p \in posts : Before(p.batch, q)
    BY <2>1, GrownBefore
  <2>3. Increasing(stored') /\ Before(received, stored')
        /\ \A p \in posts : Before(p.batch, stored')
    BY <2>1, <2>2, NoEvents
  <2>4. \A u \in Tabs : /\ Increasing(queue'[u]) /\ Before(received, queue'[u])
                        /\ \A p \in posts : Before(p.batch, queue'[u])
    BY <1>4, <2>1, <2>2 DEF HeldInOrder
  <2>5. QED
    BY <2>1, <2>3, <2>4 DEF HeldInOrder, Grown
<1>10. QED
  BY <1>3, <1>5, <1>6, <1>8, <1>9 DEF AnalyticsInv

\* The queue becomes a batch, which is posted or given up, and the empty queue
\* is stored, or the key keeps had: what it held before, or the grown queue.
LEMMA SpliceAnalytics ==
  ASSUME AnalyticsInv, NEW t \in Tabs, NEW q, NEW had, NEW ok \in BOOLEAN, Grown(t, q),
         had \in {stored, q}, Spliced(t, q, had, ok)
  PROVE  AnalyticsInv'
<1> DEFINE new == [page |-> t, batch |-> q]
<1>1. /\ queue' = [queue EXCEPT ![t] = <<>>] /\ stored' = IF ok THEN <<>> ELSE had
      /\ unsaved' = {} /\ doubled' = (doubled \/ Stale(<<>>, had, ok))
      /\ \/ /\ posts' = posts \cup {new} /\ crossing' = (crossing \/ posts # {})
            /\ gone' = gone
         \/ /\ posts' = posts /\ crossing' = crossing
            /\ gone' = gone \cup ToSet(q)
  BY DEF Spliced, Persisted
<1>2. /\ tracked' \in Nat /\ q \in Seq(Nat) /\ ToSet(q) \subseteq 1..tracked'
      /\ 1..tracked \subseteq 1..tracked'
      /\ \A e \in 1..tracked' : e \in 1..tracked \/ e \in ToSet(q)
      /\ ToSet(queue[t]) \subseteq ToSet(q)
  BY GrownTracked
<1>3. new.batch = q /\ new = [page |-> new.page, batch |-> new.batch]
  OBVIOUS
<1> HIDE DEF new
<1>4. stored' \in Seq(Nat) /\ ToSet(stored') \subseteq 1..tracked'
  BY <1>1, <1>2, NoEvents DEF AnalyticsInv, AnalyticsTypeOK, OnlyTracked
<1>5. \A p \in posts' : p \in posts \/ (p = new /\ p.batch = q)
  BY <1>1, <1>3
<1>6. AnalyticsTypeOK'
  <2>1. \A p \in posts' : p.batch \in Seq(Nat) /\ p = [page |-> p.page, batch |-> p.batch]
    BY <1>2, <1>3, <1>5 DEF AnalyticsInv, AnalyticsTypeOK
  <2>2. QED
    BY <1>1, <1>2, <1>4, <2>1, NoEvents DEF AnalyticsInv, AnalyticsTypeOK, Grown
<1>7. queue'[t] = <<>> /\ \A u \in Tabs : u # t => queue'[u] = queue[u]
  BY <1>1 DEF AnalyticsInv, AnalyticsTypeOK
<1>8. OnlyTracked'
  <2>1. gone' \subseteq 1..tracked'
    BY <1>1, <1>2 DEF AnalyticsInv, OnlyTracked
  <2>2. \A p \in posts' : ToSet(p.batch) \subseteq 1..tracked'
    BY <1>2, <1>5 DEF AnalyticsInv, OnlyTracked
  <2>3. QED
    BY <1>1, <1>2, <1>4, <1>7, <2>1, <2>2, NoEvents DEF AnalyticsInv, OnlyTracked, Grown
<1>9. ASSUME ~shared' PROVE OneTab' /\ Accounted'
  <2>1. ~shared /\ OneTab /\ Accounted /\ t \in aTabs /\ aTabs' = aTabs /\ aTabs = {t}
    BY <1>9 DEF Grown, AnalyticsInv, OneTab
  <2>2. OneTab'
    BY <1>1, <1>7, <2>1, NoEvents DEF OneTab
  <2>3. ToSet(q) \subseteq gone' \/ new \in posts'
    BY <1>1
  <2>4. posts \subseteq posts' /\ gone \subseteq gone'
    BY <1>1
  <2>5. ASSUME NEW e \in (1..tracked') \ gone', e \notin ToSet(received)
        PROVE  \E p \in posts' : e \in ToSet(p.batch)
    <3>1. CASE e \in ToSet(q)
      BY <1>3, <2>3, <2>5, <3>1
    <3>2. CASE e \notin ToSet(q)
      <4>1. e \in (1..tracked) \ gone
        BY <1>2, <2>4, <2>5, <3>2
      <4>2. \E p \in posts : e \in ToSet(p.batch)
        BY <1>2, <2>1, <2>5, <3>2, <4>1 DEF Accounted
      <4>3. QED
        BY <2>4, <4>2
    <3>3. QED
      BY <3>1, <3>2
  <2>6. Accounted'
    BY <2>5 DEF Accounted, Grown
  <2>7. QED
    BY <2>2, <2>6
<1>10. ASSUME ~doubled' PROVE ~doubled /\ stored' = <<>>
  BY <1>1, <1>10 DEF Stale
<1>11. ASSUME ~doubled' PROVE HeldOnce'
  <2>1. HeldOnce /\ stored' = <<>>
    BY <1>10, <1>11 DEF AnalyticsInv
  <2>2. /\ IsInjective(q) /\ Apart(received, q)
        /\ \A u \in Tabs : u # t => Apart(queue[u], q)
        /\ \A p \in posts : Apart(q, p.batch) /\ Apart(p.batch, q)
    BY <2>1, GrownApart DEF Apart
  <2>3. \A u \in Tabs : queue'[u] = <<>> \/ (u # t /\ queue'[u] = queue[u])
    BY <1>7
  <2>4. \A p \in posts' :
          /\ IsInjective(p.batch) /\ Apart(received, p.batch) /\ Apart(stored', p.batch)
          /\ \A v \in Tabs : Apart(queue'[v], p.batch)
    BY <1>5, <2>1, <2>2, <2>3, NoEvents DEF HeldOnce
  <2>5. \A p, r \in posts' : Apart(p.batch, r.batch) \/ p = r
    BY <1>5, <2>1, <2>2 DEF HeldOnce
  <2>6. \A u \in Tabs : /\ IsInjective(queue'[u]) /\ Apart(received, queue'[u])
                        /\ Apart(stored', queue'[u])
                        /\ \A v \in Tabs : v # u => Apart(queue'[u], queue'[v])
    BY <2>1, <2>3, NoEvents DEF HeldOnce
  <2>7. IsInjective(stored') /\ Apart(received, stored') /\ IsInjective(received)
    BY <2>1, NoEvents DEF HeldOnce
  <2>8. QED
    BY <2>4, <2>5, <2>6, <2>7 DEF HeldOnce, Grown
<1>12. ASSUME ~crossing', ~doubled', ~shared' PROVE HeldInOrder'
  <2>1. HeldInOrder /\ stored' = <<>>
    BY <1>1, <1>10, <1>12 DEF Grown, AnalyticsInv
  <2>2. Increasing(q) /\ Before(received, q)
    BY <2>1, GrownBefore
  <2>3. \A u \in Tabs : queue'[u] = <<>> \/ (u # t /\ queue'[u] = queue[u])
    BY <1>7
  <2>4. \A u \in Tabs : queue'[u] = <<>>
    <3>1. ~shared /\ OneTab /\ OnlyTracked /\ t \in aTabs
      BY <1>12 DEF Grown, AnalyticsInv
    <3>2. QED
      BY <2>3, <3>1 DEF OneTab, OnlyTracked
  <2>5. \A p, r \in posts' : p = r
    BY <1>1, <1>12, <2>1 DEF HeldInOrder
  <2>6. \A p \in posts' : Increasing(p.batch) /\ Before(received, p.batch)
    BY <1>5, <2>1, <2>2 DEF HeldInOrder
  <2>7. QED
    BY <2>1, <2>4, <2>5, <2>6, NoEvents DEF HeldInOrder, Grown
<1>13. QED
  BY <1>6, <1>8, <1>9, <1>11, <1>12 DEF AnalyticsInv

\* flush, and the tracking of an event, which flushes a full queue.
LEMMA TrackAnalytics ==
  ASSUME AnalyticsInv, NEW t \in Tabs, NEW ok \in BOOLEAN, NEW again \in BOOLEAN,
         flush(t, ok) \/ trackEvent(t, ok, again)
  PROVE  AnalyticsInv'
<1>1. queue[t] \in Seq(Nat) /\ tracked \in Nat
  BY DEF AnalyticsInv, AnalyticsTypeOK
<1>2. CASE flush(t, ok)
  <2>1. Spliced(t, queue[t], stored, ok) /\ Grown(t, queue[t])
    BY <1>1, <1>2 DEF flush, Grown
  <2>2. QED
    BY <2>1, SpliceAnalytics
<1>3. CASE trackEvent(t, ok, again)
  <2> DEFINE q == Append(queue[t], tracked + 1)
             had == Persisted(q, stored, ok)
  <2>1. /\ t \in aTabs /\ tracked' = tracked + 1 /\ UNCHANGED <<aTabs, received, shared>>
        /\ \/ Spliced(t, q, had, again)
           \/ /\ Saved(t, q, ok) /\ doubled' = (doubled \/ Stale(q, stored, ok))
              /\ UNCHANGED <<posts, crossing, gone>>
    BY <1>3 DEF trackEvent
  <2>2. tracked + 1 \in Nat /\ \A d \in ToSet(queue[t]) : d < tracked + 1
    BY <1>1 DEF AnalyticsInv, OnlyTracked
  <2>3. q \in Seq(Nat) /\ ToSet(q) = ToSet(queue[t]) \cup {tracked + 1}
    BY <1>1, <2>2, EventsOf
  <2>4. IsInjective(queue[t]) => IsInjective(q)
    BY <1>1, <2>2, InjectiveEvents
  <2>5. Increasing(queue[t]) => Increasing(q)
    BY <1>1, <2>2, IncreasingEvents
  <2>6. had \in {stored, q}
    BY DEF Persisted
  <2> HIDE DEF q, had
  <2>7. (1..tracked') \ (1..tracked) = {tracked + 1}
    BY <1>1, <2>1
  <2>8. Grown(t, q)
    BY <2>1, <2>3, <2>4, <2>5, <2>7 DEF Grown
  <2>9. QED
    BY <2>1, <2>6, <2>8, SpliceAnalytics, KeepAnalytics
<1>4. QED
  BY <1>2, <1>3

\* A post is answered: its batch is accepted or given up.
LEMMA PostAnalytics ==
  ASSUME AnalyticsInv, NEW p \in posts, NEW accepted \in BOOLEAN, PostAnswered(p, accepted)
  PROVE  AnalyticsInv'
<1> DEFINE b == p.batch
<1>1. /\ posts' = posts \ {p}
      /\ received' = IF accepted THEN received \o b ELSE received
      /\ gone' = IF accepted THEN gone ELSE gone \cup ToSet(b)
      /\ UNCHANGED <<aTabs, queue, stored, tracked, unsaved, shared, doubled, crossing>>
  BY DEF PostAnswered
<1>2. received \in Seq(Nat) /\ b \in Seq(Nat) /\ ToSet(b) \subseteq 1..tracked
  BY DEF AnalyticsInv, AnalyticsTypeOK, OnlyTracked
<1>3. /\ received' \in Seq(Nat) /\ ToSet(received) \subseteq ToSet(received')
      /\ ToSet(received') \subseteq ToSet(received) \cup ToSet(b)
      /\ ToSet(b) \subseteq ToSet(received') \cup gone'
      /\ gone \subseteq gone' /\ gone' \subseteq gone \cup ToSet(b)
  BY <1>1, <1>2, EventsOf
<1>4. IsInjective(received) /\ IsInjective(b) /\ Apart(received, b) => IsInjective(received')
  BY <1>1, <1>2, InjectiveEvents
<1>5. Increasing(received) /\ Increasing(b) /\ Before(received, b) => Increasing(received')
  BY <1>1, <1>2, IncreasingEvents
<1>6. \A r \in posts : r.batch = b \/ r \in posts'
  BY <1>1
<1>7. posts' \subseteq posts /\ p \notin posts'
  BY <1>1
<1>8. AnalyticsTypeOK'
  BY <1>1, <1>3 DEF AnalyticsInv, AnalyticsTypeOK
<1>9. OnlyTracked'
  BY <1>1, <1>2, <1>3, <1>7 DEF AnalyticsInv, OnlyTracked
<1>10. ASSUME ~shared' PROVE OneTab' /\ Accounted'
  <2>1. OneTab /\ Accounted
    BY <1>1, <1>10 DEF AnalyticsInv
  <2>2. OneTab'
    BY <1>1, <2>1 DEF OneTab
  <2>3. Accounted'
    <3> HIDE DEF b
    <3>1. QED
      BY <1>1, <1>3, <1>6, <2>1 DEF Accounted
  <2>4. QED
    BY <2>2, <2>3
<1> HIDE DEF b
<1>11. ASSUME ~doubled' PROVE HeldOnce'
  <2>1. HeldOnce
    BY <1>1, <1>11 DEF AnalyticsInv
  <2>2. /\ IsInjective(b) /\ Apart(received, b) /\ Apart(b, stored)
        /\ \A u \in Tabs : Apart(b, queue[u])
        /\ \A r \in posts' : Apart(b, r.batch)
    BY <1>7, <2>1 DEF HeldOnce, Apart, b
  <2>3. \A s : (Apart(received, s) /\ Apart(b, s)) => Apart(received', s)
    BY <1>3 DEF Apart
  <2>4. IsInjective(received')
    BY <1>4, <2>1, <2>2 DEF HeldOnce
  <2>5. QED
    BY <1>1, <1>7, <2>1, <2>2, <2>3, <2>4 DEF HeldOnce
<1>12. ASSUME ~crossing', ~doubled', ~shared' PROVE HeldInOrder'
  <2>1. HeldInOrder
    BY <1>1, <1>12 DEF AnalyticsInv
  <2>2. /\ Increasing(b) /\ Before(received, b) /\ Before(b, stored)
        /\ \A u \in Tabs : Before(b, queue[u])
    BY <2>1 DEF HeldInOrder, b
  <2>3. Increasing(received')
    BY <1>5, <2>1, <2>2 DEF HeldInOrder
  <2>4. \A s : (Before(received, s) /\ Before(b, s)) => Before(received', s)
    BY <1>3 DEF Before
  <2>5. posts' = {}
    BY <1>7, <2>1 DEF HeldInOrder
  <2>6. QED
    BY <1>1, <2>1, <2>2, <2>3, <2>4, <2>5 DEF HeldInOrder
<1>13. QED
  BY <1>8, <1>9, <1>10, <1>11, <1>12 DEF AnalyticsInv

\* A batch that fails is put back in front of the queue.
LEMMA RequeueAnalytics ==
  ASSUME AnalyticsInv, NEW p \in posts, NEW arrived \in BOOLEAN, NEW ok \in BOOLEAN,
         PostFails(p, arrived, ok)
  PROVE  AnalyticsInv'
<1> DEFINE b == p.batch
           t == p.page
           q == b \o queue[t]
<1>1. /\ t \in aTabs /\ posts' = posts \ {p}
      /\ received' = IF arrived THEN received \o b ELSE received
      /\ queue' = [queue EXCEPT ![t] = q]
      /\ stored' = IF ok THEN q ELSE stored
      /\ unsaved' = IF ok THEN {} ELSE ToSet(q) \ ToSet(stored)
      /\ doubled' = (doubled \/ arrived \/ Stale(q, stored, ok))
      /\ UNCHANGED <<aTabs, tracked, gone, shared, crossing>>
  BY DEF PostFails, Saved, Requeued, Persisted
<1>2. t \in Tabs /\ received \in Seq(Nat) /\ b \in Seq(Nat) /\ queue[t] \in Seq(Nat)
      /\ ToSet(b) \subseteq 1..tracked /\ ToSet(queue[t]) \subseteq 1..tracked
  BY <1>1 DEF AnalyticsInv, AnalyticsTypeOK, OnlyTracked
<1>3. q \in Seq(Nat) /\ ToSet(q) = ToSet(b) \cup ToSet(queue[t])
  BY <1>2, EventsOf
<1>4. /\ received' \in Seq(Nat) /\ ToSet(received) \subseteq ToSet(received')
      /\ ToSet(received') \subseteq ToSet(received) \cup ToSet(b)
  BY <1>1, <1>2, EventsOf
<1>5. IsInjective(b) /\ IsInjective(queue[t]) /\ Apart(b, queue[t]) => IsInjective(q)
  BY <1>2, InjectiveEvents
<1>6. Increasing(b) /\ Increasing(queue[t]) /\ Before(b, queue[t]) => Increasing(q)
  BY <1>2, IncreasingEvents
<1>7. posts' \subseteq posts /\ p \notin posts' /\ \A r \in posts : r.batch = b \/ r \in posts'
  BY <1>1
<1> HIDE DEF q
<1>8. AnalyticsTypeOK'
  BY <1>1, <1>3, <1>4 DEF AnalyticsInv, AnalyticsTypeOK
<1>9. queue'[t] = q /\ \A u \in Tabs : u # t => queue'[u] = queue[u]
  BY <1>1, <1>2 DEF AnalyticsInv, AnalyticsTypeOK
<1>10. OnlyTracked'
  <2>1. ToSet(stored') \cup ToSet(received') \cup unsaved' \subseteq 1..tracked
    BY <1>1, <1>2, <1>3, <1>4 DEF AnalyticsInv, OnlyTracked
  <2>2. QED
    BY <1>1, <1>2, <1>3, <1>7, <1>9, <2>1 DEF AnalyticsInv, OnlyTracked
<1>11. p \in posts /\ p.batch = b
  OBVIOUS
<1> HIDE DEF b, t
<1>12. ASSUME ~shared' PROVE OneTab' /\ Accounted'
  <2>1. OneTab /\ Accounted /\ aTabs = {t} /\ aTabs' = {t}
    BY <1>1, <1>12 DEF AnalyticsInv, OneTab
  <2>2. ToSet(q) \subseteq ToSet(stored') \cup unsaved' /\ unsaved' \subseteq ToSet(q)
    BY <1>1
  <2>3. OneTab'
    BY <1>9, <2>1, <2>2 DEF OneTab
  <2>4. ASSUME NEW e \in (1..tracked) \ gone, e \notin ToSet(received'), e \notin ToSet(q)
        PROVE  \E r \in posts' : e \in ToSet(r.batch)
    <3>1. e \notin ToSet(received) /\ e \notin ToSet(b) /\ e \notin ToSet(queue[t])
      BY <1>3, <1>4, <2>4
    <3>2. PICK r \in posts : e \in ToSet(r.batch)
      BY <2>1, <2>4, <3>1 DEF Accounted
    <3>3. QED
      BY <1>7, <3>1, <3>2
  <2>5. Accounted'
    BY <1>1, <1>9, <2>1, <2>4 DEF Accounted
  <2>6. QED
    BY <2>3, <2>5
<1>13. ASSUME ~doubled' PROVE ~doubled /\ received' = received /\ (stored' = q \/ stored' = <<>>)
  BY <1>1, <1>13 DEF Stale
<1>14. ASSUME ~doubled' PROVE HeldOnce'
  <2>1. HeldOnce /\ received' = received /\ (stored' = q \/ stored' = <<>>)
    BY <1>13, <1>14 DEF AnalyticsInv
  <2>2. /\ IsInjective(b) /\ IsInjective(queue[t]) /\ Apart(received, b) /\ Apart(received, queue[t])
        /\ \A u \in Tabs : Apart(queue[u], b) /\ Apart(b, queue[u])
        /\ \A u \in Tabs : u # t => Apart(queue[t], queue[u]) /\ Apart(queue[u], queue[t])
    BY <1>2, <1>11, <2>1 DEF HeldOnce, Apart
  <2>3. IsInjective(q)
    BY <1>2, <1>5, <2>2
  <2>4. Apart(received, q)
    BY <1>3, <2>2 DEF Apart
  <2>5. \A u \in Tabs : u # t => Apart(q, queue[u]) /\ Apart(queue[u], q)
    BY <1>3, <2>2 DEF Apart
  <2>6. \A r \in posts' : Apart(b, r.batch) /\ Apart(queue[t], r.batch)
    BY <1>2, <1>7, <1>11, <2>1 DEF HeldOnce
  <2>7. \A r \in posts' : Apart(q, r.batch)
    BY <1>3, <2>6 DEF Apart
  <2>8. \A u \in Tabs : /\ IsInjective(queue'[u]) /\ Apart(received, queue'[u])
                        /\ queue'[u] = stored' \/ Apart(stored', queue'[u])
                        /\ \A v \in Tabs : v # u => Apart(queue'[u], queue'[v])
    BY <1>9, <2>1, <2>3, <2>4, <2>5, NoEvents DEF HeldOnce
  <2>9. \A r \in posts' :
          /\ IsInjective(r.batch) /\ Apart(received, r.batch) /\ Apart(stored', r.batch)
          /\ \A v \in Tabs : Apart(queue'[v], r.batch)
    BY <1>7, <1>9, <2>1, <2>7, NoEvents DEF HeldOnce
  <2>10. \A r, s \in posts' : Apart(r.batch, s.batch) \/ r = s
    BY <1>7, <2>1 DEF HeldOnce
  <2>11. IsInjective(received') /\ IsInjective(stored') /\ Apart(received', stored')
    BY <2>1, <2>3, <2>4, NoEvents DEF HeldOnce
  <2>12. QED
    BY <2>1, <2>8, <2>9, <2>10, <2>11 DEF HeldOnce
<1>15. ASSUME ~crossing', ~doubled', ~shared' PROVE HeldInOrder'
  <2>1. HeldInOrder /\ received' = received /\ (stored' = q \/ stored' = <<>>)
    BY <1>1, <1>13, <1>15 DEF AnalyticsInv
  <2>2. /\ Increasing(b) /\ Increasing(queue[t]) /\ Before(b, queue[t])
        /\ Before(received, b) /\ Before(received, queue[t])
    BY <1>2, <1>11, <2>1 DEF HeldInOrder
  <2>3. Increasing(q) /\ Before(received, q)
    BY <1>3, <1>6, <2>2 DEF Before
  <2>4. posts' = {}
    BY <1>7, <1>11, <2>1 DEF HeldInOrder
  <2>5. \A u \in Tabs : Increasing(queue'[u]) /\ Before(received, queue'[u])
    BY <1>9, <2>1, <2>3 DEF HeldInOrder
  <2>6. Increasing(stored') /\ Before(received, stored') /\ Increasing(received)
    BY <2>1, <2>3, NoEvents DEF HeldInOrder
  <2>7. QED
    BY <2>1, <2>4, <2>5, <2>6 DEF HeldInOrder
<1>16. QED
  BY <1>8, <1>10, <1>12, <1>14, <1>15 DEF AnalyticsInv

\* AnalyticsInv is inductive.
LEMMA NextAnalytics ==
  ASSUME AnalyticsInv, [AnalyticsNext]_analytics_vars
  PROVE  AnalyticsInv'
<1>1. CASE AnalyticsNext
  BY <1>1, LoadAnalytics, CloseAnalytics, TrackAnalytics, PostAnalytics, RequeueAnalytics
     DEF AnalyticsNext
<1>2. CASE UNCHANGED analytics_vars
  BY <1>2 DEF analytics_vars, history, AnalyticsInv, AnalyticsTypeOK, OnlyTracked, OneTab,
              Accounted, HeldOnce, HeldInOrder
<1>3. QED
  BY <1>1, <1>2

\* Tracked events are accepted or still kept, once and in order, or were given
\* up by an accident that QueueIntact names, for any number of events, tabs,
\* posts in flight and failures of the network and the storage (analytics.ts).
THEOREM AnalyticsCorrect == AnalyticsSpec => []QueueIntact
<1>1. AnalyticsInit => AnalyticsInv
  BY InitAnalytics
<1>2. AnalyticsInv /\ [AnalyticsNext]_analytics_vars => AnalyticsInv'
  BY NextAnalytics
<1>3. AnalyticsInv => QueueIntact
  <2>1. SUFFICES ASSUME AnalyticsInv PROVE QueueIntact
    OBVIOUS
  <2>2. NoEventLost
    <3>1. SUFFICES ASSUME ~shared PROVE NoEventLost
      BY DEF NoEventLost
    <3>2. OneTab /\ Accounted
      BY <2>1, <3>1 DEF AnalyticsInv
    <3>3. \A s \in Seq(Nat) : \A e : Contains(s, e) <=> e \in ToSet(s)
      BY EventsOf, 0 \in Nat
    <3>4. /\ \A e : Contains(received, e) <=> e \in ToSet(received)
          /\ \A e : Contains(stored, e) <=> e \in ToSet(stored)
          /\ \A p \in posts : \A e : Contains(p.batch, e) <=> e \in ToSet(p.batch)
          /\ \A t \in aTabs : \A e : Contains(queue[t], e) <=> e \in ToSet(queue[t])
      BY <2>1, <3>3 DEF AnalyticsInv, AnalyticsTypeOK
    <3>5. ASSUME NEW e \in (1..tracked) \ (gone \cup unsaved)
          PROVE  Contains(received, e) \/ InPost(e) \/ Contains(stored, e)
      BY <3>2, <3>4, <3>5 DEF OneTab, Accounted, InPost
    <3>6. ASSUME NEW e \in unsaved PROVE \E t \in aTabs : Contains(queue[t], e)
      BY <3>2, <3>4, <3>6 DEF OneTab
    <3>7. QED
      BY <3>5, <3>6 DEF NoEventLost
  <2>3. QED
    BY <2>1, <2>2 DEF AnalyticsInv, HeldOnce, HeldInOrder, Increasing, QueueIntact,
                      ReceivedOnce, ReceivedInOrder
<1>4. QED
  BY <1>1, <1>2, <1>3, PTL DEF AnalyticsSpec

-----------------------------------------------------------------------------
(* App.tsx, Pagination.tsx                                                 *)

\* The greater and the smaller of two numbers.
LEMMA MaxOfTwo ==
  ASSUME NEW a \in Int, NEW b \in Int
  PROVE  Max({a, b}) = IF a >= b THEN a ELSE b
BY DEF Max

\* Likewise.
LEMMA MinOfTwo ==
  ASSUME NEW a \in Int, NEW b \in Int
  PROVE  Min({a, b}) = IF a <= b THEN a ELSE b
BY DEF Min

\* Multiples of the page size are ordered as their factors are.
LEMMA FactorOrder ==
  ASSUME NEW a \in Int, NEW b \in Int
  PROVE  /\ a <= b => a * PAGE_SIZE <= b * PAGE_SIZE
         /\ a * PAGE_SIZE < b * PAGE_SIZE => a < b
         /\ (a - 1) * PAGE_SIZE = a * PAGE_SIZE - PAGE_SIZE
         /\ a * PAGE_SIZE \in Int
<1>1. PAGE_SIZE \in Int /\ PAGE_SIZE > 0
  BY PagingAssumption
<1>2. a <= b => a * PAGE_SIZE <= b * PAGE_SIZE
  BY <1>1
<1>3. (a - 1) * PAGE_SIZE = a * PAGE_SIZE - PAGE_SIZE /\ a * PAGE_SIZE \in Int
  BY <1>1
<1>4. b <= a => b * PAGE_SIZE <= a * PAGE_SIZE
  BY <1>1
<1>5. b * PAGE_SIZE \in Int
  BY <1>1
<1>6. QED
  BY <1>2, <1>3, <1>4, <1>5

\* Rounding up: the pages that n positions take.
LEMMA PagesTaken ==
  ASSUME NEW n \in Nat
  PROVE  LET k == (n + PAGE_SIZE - 1) \div PAGE_SIZE
         IN  k \in Int /\ n <= k * PAGE_SIZE /\ (k - 1) * PAGE_SIZE < n
<1> DEFINE k == (n + PAGE_SIZE - 1) \div PAGE_SIZE
           m == n + PAGE_SIZE - 1
<1>1. PAGE_SIZE \in Int /\ PAGE_SIZE > 0 /\ m \in Int
  BY PagingAssumption
<1>2. k \in Int /\ k = m \div PAGE_SIZE
  BY <1>1
<1>3. k * PAGE_SIZE <= m /\ m < k * PAGE_SIZE + PAGE_SIZE
  BY <1>1, <1>2
<1> HIDE DEF k
<1>4. k * PAGE_SIZE \in Int /\ (k - 1) * PAGE_SIZE = k * PAGE_SIZE - PAGE_SIZE
  BY <1>2, FactorOrder
<1>5. QED
  BY <1>1, <1>2, <1>3, <1>4 DEF k

\* There is a page, the pages hold n positions, and each but the first is
\* needed for it.
LEMMA TotalPages ==
  ASSUME NEW n \in Nat
  PROVE  /\ totalPages(n) \in Int /\ totalPages(n) >= 1
         /\ n <= totalPages(n) * PAGE_SIZE
         /\ n > 0 => (totalPages(n) - 1) * PAGE_SIZE < n
<1> DEFINE k == (n + PAGE_SIZE - 1) \div PAGE_SIZE
<1>1. k \in Int /\ n <= k * PAGE_SIZE /\ (k - 1) * PAGE_SIZE < n
  BY PagesTaken
<1>2. totalPages(n) = Max({1, k})
  BY DEF totalPages
<1> HIDE DEF k
<1>3. totalPages(n) = IF 1 >= k THEN 1 ELSE k
  BY <1>1, <1>2, MaxOfTwo
<1>4. 1 * PAGE_SIZE = PAGE_SIZE /\ (1 - 1) * PAGE_SIZE = 0 /\ PAGE_SIZE \in Nat
  BY PagingAssumption
<1>5. k <= 1 => k * PAGE_SIZE <= PAGE_SIZE
  BY <1>1, <1>4, FactorOrder
<1>6. k * PAGE_SIZE \in Int
  BY <1>1, FactorOrder
<1>7. CASE 1 >= k
  BY <1>1, <1>3, <1>4, <1>5, <1>6, <1>7
<1>8. CASE ~(1 >= k)
  BY <1>1, <1>3, <1>8
<1>9. QED
  BY <1>7, <1>8

PagingInv == filtered \in Nat /\ page \in Nat \ {0}

\* The page shown exists.
LEMMA SafePage ==
  ASSUME PagingInv
  PROVE  safePage \in Int /\ safePage >= 1 /\ safePage <= totalPages(filtered)
BY TotalPages, MinOfTwo DEF PagingInv, safePage

\* PagingInv is inductive: the buttons never leave page 1 downwards.
LEMMA NextPaging ==
  ASSUME PagingInv, [PagingNext]_paging_vars
  PROVE  PagingInv'
<1>1. CASE onPrev
  BY <1>1, MaxOfTwo DEF onPrev, PagingInv
<1>2. CASE onNext
  <2>1. page' = Min({totalPages(filtered), page + 1}) /\ filtered' = filtered
    BY <1>2 DEF onNext, NextPage
  <2>2. QED
    BY <2>1, TotalPages, MinOfTwo DEF PagingInv
<1>3. ASSUME NEW n \in 0..MaxList, SetFilter(n) \/ SetProposals(n) PROVE PagingInv'
  BY <1>3 DEF SetFilter, SetProposals, PagingInv
<1>4. CASE UNCHANGED paging_vars
  BY <1>4 DEF paging_vars, PagingInv
<1>5. QED
  BY <1>1, <1>2, <1>3, <1>4 DEF PagingNext

\* A position is on one page, which exists.
LEMMA OnePage ==
  ASSUME PagingInv, NEW i \in 1..filtered
  PROVE  Cardinality({p \in 1..totalPages(filtered) : i \in Slice(p)}) = 1
<1> DEFINE T == totalPages(filtered)
           S == {p \in 1..T : i \in Slice(p)}
           k == (i + PAGE_SIZE - 1) \div PAGE_SIZE
<1>1. i \in Nat /\ i >= 1 /\ i <= filtered /\ filtered \in Nat
  BY DEF PagingInv
<1>2. T \in Int /\ filtered <= T * PAGE_SIZE
  BY <1>1, TotalPages
<1>3. k \in Int /\ i <= k * PAGE_SIZE /\ (k - 1) * PAGE_SIZE < i
  BY <1>1, PagesTaken
<1> HIDE DEF k, T
<1>4. k * PAGE_SIZE \in Int /\ (k - 1) * PAGE_SIZE \in Int /\ T * PAGE_SIZE \in Int
  BY <1>2, <1>3, FactorOrder
<1>5. k >= 1
  <2>1. 0 * PAGE_SIZE = 0
    BY PagingAssumption
  <2>2. 0 * PAGE_SIZE < k * PAGE_SIZE
    BY <1>1, <1>3, <1>4, <2>1
  <2>3. QED
    BY <1>3, <2>2, FactorOrder
<1>6. k <= T
  <2>1. (k - 1) * PAGE_SIZE < T * PAGE_SIZE
    BY <1>1, <1>2, <1>3, <1>4
  <2>2. k - 1 < T
    BY <1>2, <1>3, <2>1, FactorOrder
  <2>3. QED
    BY <1>2, <1>3, <2>2
<1>7. k \in S
  BY <1>2, <1>3, <1>5, <1>6 DEF Slice
<1>8. ASSUME NEW p \in S PROVE p = k
  <2>1. p \in Int /\ (p - 1) * PAGE_SIZE < i /\ i <= p * PAGE_SIZE
    BY <1>2 DEF Slice
  <2>2. p * PAGE_SIZE \in Int /\ (p - 1) * PAGE_SIZE \in Int
    BY <2>1, FactorOrder
  <2>3. (p - 1) * PAGE_SIZE < k * PAGE_SIZE /\ (k - 1) * PAGE_SIZE < p * PAGE_SIZE
    BY <1>1, <1>3, <1>4, <2>1, <2>2
  <2>4. p - 1 < k /\ k - 1 < p
    BY <1>3, <2>1, <2>3, FactorOrder
  <2>5. QED
    BY <1>3, <2>1, <2>4
<1>9. S = {k}
  BY <1>7, <1>8
<1>10. Cardinality(S) = 1
  BY <1>9, FS_Singleton, Zenon
<1>11. QED
  BY <1>10 DEF T

\* The page shown holds the positions that the summary names.
LEMMA ShownPage ==
  ASSUME PagingInv, filtered > 0
  PROVE  /\ Slice(safePage) # {}
         /\ Summary = <<Min(Slice(safePage)), Max(Slice(safePage))>>
<1> DEFINE s == safePage
           T == totalPages(filtered)
           first == (s - 1) * PAGE_SIZE + 1
           last == IF s * PAGE_SIZE <= filtered THEN s * PAGE_SIZE ELSE filtered
<1>1. s \in Int /\ s >= 1 /\ s <= T /\ filtered \in Nat /\ filtered > 0
  BY SafePage DEF PagingInv
<1>2. T \in Int /\ (T - 1) * PAGE_SIZE < filtered
  BY <1>1, TotalPages
<1>3. Slice(s) = {i \in 1..filtered : (s - 1) * PAGE_SIZE < i /\ i <= s * PAGE_SIZE}
  BY DEF Slice
<1>4. Summary = <<first, Min({s * PAGE_SIZE, filtered})>>
  BY <1>1 DEF Summary
<1> HIDE DEF s, T
<1>5. /\ s * PAGE_SIZE \in Int /\ (s - 1) * PAGE_SIZE = s * PAGE_SIZE - PAGE_SIZE
      /\ (s - 1) * PAGE_SIZE \in Int /\ (T - 1) * PAGE_SIZE \in Int
  BY <1>1, <1>2, FactorOrder
<1>6. (s - 1) * PAGE_SIZE <= (T - 1) * PAGE_SIZE
  BY <1>1, <1>2, FactorOrder
<1>7. (s - 1) * PAGE_SIZE >= 0
  <2>1. 0 * PAGE_SIZE = 0 /\ 0 <= s - 1 /\ s - 1 \in Int
    BY <1>1, PagingAssumption
  <2>2. 0 * PAGE_SIZE <= (s - 1) * PAGE_SIZE
    BY <2>1, FactorOrder
  <2>3. QED
    BY <2>1, <2>2
<1>8. Min({s * PAGE_SIZE, filtered}) = last
  BY <1>1, <1>5, MinOfTwo
<1>9. first \in Int /\ last \in Int /\ 1 <= first /\ first <= last /\ last <= filtered
  BY <1>1, <1>2, <1>5, <1>6, <1>7, PagingAssumption
<1>10. \A i : i \in Slice(s) <=> i \in first..last
  BY <1>1, <1>3, <1>5, <1>7, PagingAssumption
<1> HIDE DEF first, last
<1>11. Slice(s) = first..last
  BY <1>10
<1>12. Min(first..last) = first /\ Max(first..last) = last
  BY <1>9 DEF Min, Max
<1>13. first \in Slice(s)
  BY <1>9, <1>10
<1>14. Summary = <<Min(Slice(s)), Max(Slice(s))>>
  BY <1>4, <1>8, <1>11, <1>12, Zenon
<1>15. QED
  BY <1>13, <1>14, Zenon DEF s

\* The positions of a row that hold numbers.
Numbered(r) == {i \in DOMAIN r : r[i] # 0}

\* A row of n entries ends in q, its numbers ascend, marks stand between
\* numbers that skip others, and neighbours skip none.
RowRight(r, n, q) ==
  /\ n \in Nat /\ n >= 1 /\ DOMAIN r = 1..n /\ \A i \in 1..n : r[i] \in Int
  /\ r[n] = q /\ q >= 1
  /\ \A i \in 1..n : r[i] <= q
  /\ \A i, j \in 1..n : (r[i] # 0 /\ r[j] # 0 /\ i < j) => r[i] < r[j]
  /\ \A i \in 1..n : r[i] = 0 =>
       /\ i - 1 \in 1..n /\ i + 1 \in 1..n /\ r[i - 1] # 0 /\ r[i + 1] # 0
       /\ r[i + 1] > r[i - 1] + 1
  /\ \A i \in 1..(n - 1) : (r[i] # 0 /\ r[i + 1] # 0) => r[i + 1] = r[i] + 1

\* Row t is row r with p pushed, behind a mark if p skips numbers.
Extends(t, m, r, n, q, p) ==
  /\ DOMAIN t = 1..m /\ t[m] = p
  /\ \A i \in 1..n : t[i] = r[i]
  /\ \/ m = n + 1 /\ p = q + 1
     \/ m = n + 2 /\ t[n + 1] = 0 /\ p > q + 1

\* Pushing the next number keeps the row right.
LEMMA PushKeeps ==
  ASSUME NEW r, NEW n, NEW q, NEW t, NEW m, NEW p \in Int,
         RowRight(r, n, q), Extends(t, m, r, n, q, p)
  PROVE  RowRight(t, m, p)
<1>1. /\ n \in Nat /\ n >= 1 /\ DOMAIN r = 1..n /\ \A i \in 1..n : r[i] \in Int
      /\ r[n] = q /\ q >= 1 /\ q \in Int /\ q < p
      /\ m \in Nat /\ n < m /\ DOMAIN t = 1..m /\ t[m] = p
      /\ \A i \in 1..n : t[i] = r[i]
  BY DEF RowRight, Extends
<1>2. \/ m = n + 1 /\ p = q + 1
      \/ m = n + 2 /\ t[n + 1] = 0 /\ p > q + 1
  BY DEF Extends
<1>3. \A i \in 1..m : i \in 1..n \/ i = m \/ (i = n + 1 /\ m = n + 2 /\ t[i] = 0)
  BY <1>1, <1>2
<1>4. \A i \in 1..m : t[i] \in Int
  BY <1>1, <1>3
<1>5. \A i \in 1..m : t[i] <= p
  BY <1>1, <1>3 DEF RowRight
<1>6. ASSUME NEW i \in 1..m, NEW j \in 1..m, t[i] # 0, t[j] # 0, i < j
      PROVE  t[i] < t[j]
  <2>1. CASE j = m
    <3>1. i \in 1..n
      BY <1>1, <1>3, <1>6, <2>1
    <3>2. t[i] <= q
      BY <1>1, <3>1 DEF RowRight
    <3>3. QED
      BY <1>1, <1>4, <2>1, <3>2
  <2>2. CASE j \in 1..n
    <3>1. i \in 1..n
      BY <1>1, <1>6, <2>2
    <3>2. QED
      BY <1>1, <1>6, <2>2, <3>1 DEF RowRight
  <2>3. QED
    BY <1>3, <1>6, <2>1, <2>2
<1>7. ASSUME NEW i \in 1..m, t[i] = 0
      PROVE  /\ i - 1 \in 1..m /\ i + 1 \in 1..m /\ t[i - 1] # 0 /\ t[i + 1] # 0
             /\ t[i + 1] > t[i - 1] + 1
  <2>1. CASE i \in 1..n
    <3>1. /\ i - 1 \in 1..n /\ i + 1 \in 1..n /\ r[i - 1] # 0 /\ r[i + 1] # 0
          /\ r[i + 1] > r[i - 1] + 1
      BY <1>1, <1>7, <2>1 DEF RowRight
    <3>2. QED
      BY <1>1, <3>1
  <2>2. CASE i \notin 1..n
    <3>1. i = n + 1 /\ m = n + 2
      BY <1>1, <1>3, <1>7, <2>2
    <3>2. t[n] = q /\ t[n + 2] = p /\ p > q + 1 /\ n \in 1..m /\ n + 2 \in 1..m
      BY <1>1, <1>2, <3>1
    <3>3. i - 1 = n /\ i + 1 = n + 2
      BY <1>1, <3>1
    <3>4. QED
      BY <1>1, <3>2, <3>3
  <2>3. QED
    BY <2>1, <2>2
<1>8. ASSUME NEW i \in 1..(m - 1), t[i] # 0, t[i + 1] # 0
      PROVE  t[i + 1] = t[i] + 1
  <2>1. CASE i + 1 \in 1..n
    <3>1. i \in 1..(n - 1) /\ i \in 1..n
      BY <1>1, <2>1
    <3>2. QED
      BY <1>1, <1>8, <2>1, <3>1 DEF RowRight
  <2>2. CASE i + 1 \notin 1..n
    <3>1. m = n + 1 /\ i = n
      BY <1>1, <1>2, <1>8, <2>2
    <3>2. QED
      BY <1>1, <1>2, <3>1
  <2>3. QED
    BY <2>1, <2>2
<1>9. QED
  BY <1>1, <1>4, <1>5, <1>6, <1>7, <1>8 DEF RowRight

\* It adds one number to those of the row.
LEMMA PushAdds ==
  ASSUME NEW r, NEW n, NEW q, NEW t, NEW m, NEW p \in Int,
         RowRight(r, n, q), Extends(t, m, r, n, q, p),
         IsFiniteSet(Numbered(r))
  PROVE  /\ IsFiniteSet(Numbered(t))
         /\ Cardinality(Numbered(t)) = Cardinality(Numbered(r)) + 1
         /\ ToSet(r) \subseteq ToSet(t) /\ p \in ToSet(t)
<1>1. /\ n \in Nat /\ n >= 1 /\ DOMAIN r = 1..n
      /\ m \in Nat /\ n < m /\ DOMAIN t = 1..m /\ t[m] = p /\ p # 0
      /\ \A i \in 1..n : t[i] = r[i]
  BY DEF RowRight, Extends
<1>2. \A i \in 1..m : i \in 1..n \/ i = m \/ t[i] = 0
  BY <1>1 DEF Extends
<1>3. \A i : i \in Numbered(t) <=> i \in Numbered(r) \/ i = m
  BY <1>1, <1>2 DEF Numbered
<1>4. Numbered(t) = Numbered(r) \cup {m} /\ m \notin Numbered(r)
  BY <1>1, <1>3 DEF Numbered
<1>5. IsFiniteSet(Numbered(t)) /\ Cardinality(Numbered(t)) = Cardinality(Numbered(r)) + 1
  BY <1>4, FS_AddElement
<1>6. ToSet(r) \subseteq ToSet(t) /\ p \in ToSet(t)
  BY <1>1 DEF ToSet
<1>7. QED
  BY <1>5, <1>6

\* The row after k turns of the loop over s.
RowAfter(r, s, k) ==
  /\ r \in Seq(Int) /\ RowRight(r, Len(r), s[k])
  /\ IsFiniteSet(Numbered(r)) /\ Cardinality(Numbered(r)) = k
  /\ \A j \in 1..k : s[j] \in ToSet(r)

\* The page numbers that the loop runs over.
PageList(s) == s \in Seq(Int) /\ Ascending(s) /\ \A i \in 1..Len(s) : s[i] >= 1

\* The first turn pushes a number.
LEMMA FirstTurn ==
  ASSUME NEW s, PageList(s), Len(s) >= 1
  PROVE  RowAfter(Pushed(s, 1), s, 1)
<1> DEFINE p == s[1]
           r == <<p>>
<1>1. p \in Int /\ p >= 1
  BY DEF PageList
<1>2. Pushed(s, 1) = r
  BY DEF Pushed, PageList
<1> HIDE DEF p
<1>3. r \in Seq(Int) /\ Len(r) = 1 /\ DOMAIN r = {1} /\ r[1] = p
  BY <1>1
<1>4. RowRight(r, 1, p)
  BY <1>1, <1>3 DEF RowRight
<1>5. Numbered(r) = {1} /\ p \in ToSet(r)
  BY <1>1, <1>3 DEF Numbered, ToSet
<1>6. IsFiniteSet(Numbered(r)) /\ Cardinality(Numbered(r)) = 1
  BY <1>5, FS_Singleton
<1>7. \A j \in 1..1 : s[j] \in ToSet(r)
  BY <1>5 DEF p
<1>8. QED
  BY <1>2, <1>3, <1>4, <1>6, <1>7 DEF RowAfter, p

\* A turn pushes the next.
LEMMA NextTurn ==
  ASSUME NEW s, PageList(s), NEW k \in Nat, k >= 1, k + 1 <= Len(s),
         NEW r, RowAfter(r, s, k)
  PROVE  RowAfter(r \o Pushed(s, k + 1), s, k + 1)
<1> DEFINE p == s[k + 1]
           q == s[k]
           t == r \o Pushed(s, k + 1)
<1>1. p \in Int /\ q \in Int /\ q < p /\ q >= 1
  BY DEF Ascending, PageList
<1>2. r \in Seq(Int) /\ RowRight(r, Len(r), q)
  BY DEF RowAfter
<1>3. Pushed(s, k + 1) = IF p - q > 1 THEN <<0, p>> ELSE <<p>>
  BY DEF Pushed, PageList
<1>4. t \in Seq(Int) /\ Extends(t, Len(t), r, Len(r), q, p)
  <2> HIDE DEF p, q
  <2>1. CASE p - q > 1
    <3>1. t = r \o <<0, p>>
      BY <1>3, <2>1
    <3> HIDE DEF t
    <3>2. /\ t \in Seq(Int) /\ Len(t) = Len(r) + 2 /\ DOMAIN t = 1..Len(t)
          /\ t[Len(t)] = p /\ t[Len(r) + 1] = 0
          /\ \A i \in 1..Len(r) : t[i] = r[i]
      BY <1>1, <1>2, <3>1
    <3>3. QED
      BY <1>1, <2>1, <3>2 DEF Extends
  <2>2. CASE ~(p - q > 1)
    <3>1. t = r \o <<p>>
      BY <1>3, <2>2
    <3>2. p = q + 1
      BY <1>1, <2>2
    <3> HIDE DEF t
    <3>3. /\ t \in Seq(Int) /\ Len(t) = Len(r) + 1 /\ DOMAIN t = 1..Len(t)
          /\ t[Len(t)] = p
          /\ \A i \in 1..Len(r) : t[i] = r[i]
      BY <1>1, <1>2, <3>1
    <3>4. QED
      BY <3>2, <3>3 DEF Extends
  <2>3. QED
    BY <2>1, <2>2
<1> HIDE DEF t, q
<1>5. RowRight(t, Len(t), p)
  BY <1>1, <1>2, <1>4, PushKeeps
<1>6. /\ IsFiniteSet(Numbered(t)) /\ Cardinality(Numbered(t)) = k + 1
      /\ ToSet(r) \subseteq ToSet(t) /\ p \in ToSet(t)
  BY <1>1, <1>2, <1>4, PushAdds DEF RowAfter
<1>7. \A j \in 1..(k + 1) : s[j] \in ToSet(t)
  <2>1. \A j \in 1..(k + 1) : j \in 1..k \/ j = k + 1
    OBVIOUS
  <2>2. \A j \in 1..k : s[j] \in ToSet(r)
    BY DEF RowAfter
  <2>3. QED
    BY <1>6, <2>1, <2>2
<1>8. QED
  BY <1>4, <1>5, <1>6, <1>7 DEF RowAfter, t

\* A turn serves the next number, if there is one.
LEMMA OneTurn ==
  ASSUME NEW s, PageList(s), NEW L \in Nat, L = Len(s), L >= 1,
         NEW k \in Nat, k >= 1, NEW r, RowAfter(r, s, IF k <= L THEN k ELSE L)
  PROVE  RowAfter(r \o Pushed(s, k + 1), s, IF k + 1 <= L THEN k + 1 ELSE L)
<1>1. CASE k + 1 <= L
  <2>1. RowAfter(r, s, k) /\ (IF k + 1 <= L THEN k + 1 ELSE L) = k + 1
    BY <1>1
  <2>2. QED
    BY <1>1, <2>1, NextTurn
<1>2. CASE ~(k + 1 <= L)
  <2>1. (IF k <= L THEN k ELSE L) = L /\ (IF k + 1 <= L THEN k + 1 ELSE L) = L
    BY <1>2
  <2>2. r \in Seq(Int) /\ RowAfter(r, s, L)
    BY <2>1 DEF RowAfter
  <2>3. Pushed(s, k + 1) = <<>>
    BY <1>2 DEF Pushed
  <2>4. r \o Pushed(s, k + 1) = r
    BY <2>2, <2>3
  <2>5. QED
    BY <2>1, <2>2, <2>4
<1>3. QED
  BY <1>1, <1>2

\* Five turns serve up to five numbers.
LEMMA FiveTurns ==
  ASSUME NEW s, PageList(s), Len(s) \in 1..5
  PROVE  RowAfter(Pushed(s, 1) \o Pushed(s, 2) \o Pushed(s, 3) \o Pushed(s, 4)
                    \o Pushed(s, 5), s, Len(s))
<1>1. PICK L \in 1..5 : L = Len(s)
  OBVIOUS
<1> DEFINE Least(k) == IF k <= L THEN k ELSE L
<1>2. PICK r1 : r1 = Pushed(s, 1)
  OBVIOUS
<1>3. PICK r2 : r2 = r1 \o Pushed(s, 2)
  OBVIOUS
<1>4. PICK r3 : r3 = r2 \o Pushed(s, 3)
  OBVIOUS
<1>5. PICK r4 : r4 = r3 \o Pushed(s, 4)
  OBVIOUS
<1>6. PICK r5 : r5 = r4 \o Pushed(s, 5)
  OBVIOUS
<1>7. ASSUME NEW k \in Nat, k >= 1, NEW r, RowAfter(r, s, Least(k))
      PROVE  RowAfter(r \o Pushed(s, k + 1), s, Least(k + 1))
  BY <1>1, <1>7, OneTurn
<1>8. Least(1) = 1 /\ Least(5) = L
  OBVIOUS
<1> HIDE DEF Least
<1>9. RowAfter(r1, s, Least(1))
  BY <1>1, <1>2, <1>8, FirstTurn
<1>10. 1 + 1 = 2 /\ 2 + 1 = 3 /\ 3 + 1 = 4 /\ 4 + 1 = 5
  OBVIOUS
<1>11. RowAfter(r2, s, Least(2))
  BY <1>3, <1>7, <1>9, <1>10
<1>12. RowAfter(r3, s, Least(3))
  BY <1>4, <1>7, <1>10, <1>11
<1>13. RowAfter(r4, s, Least(4))
  BY <1>5, <1>7, <1>10, <1>12
<1>14. RowAfter(r5, s, Least(5))
  BY <1>6, <1>7, <1>10, <1>13
<1>15. QED
  BY <1>1, <1>2, <1>3, <1>4, <1>5, <1>6, <1>8, <1>14

\* The first page, the last, the current one and its neighbours.
LEMMA WindowHolds ==
  ASSUME NEW c \in Int, NEW total \in Int, 1 <= c, c <= total, NEW p
  PROVE  p \in PageWindow(c, total) <=>
           \/ p = 1 \/ p = total
           \/ p \in Int /\ 1 <= p /\ p <= total /\ c - 1 <= p /\ p <= c + 1
<1>1. /\ Max({1, c - 1}) = IF 1 >= c - 1 THEN 1 ELSE c - 1
      /\ Min({total, c + 1}) = IF total <= c + 1 THEN total ELSE c + 1
  BY MaxOfTwo, MinOfTwo
<1> DEFINE lo == Max({1, c - 1})
           hi == Min({total, c + 1})
<1>2. PageWindow(c, total) = {1, total} \cup (lo..hi)
  BY DEF PageWindow
<1>3. lo \in Int /\ hi \in Int
  BY <1>1
<1> HIDE DEF lo, hi
<1>4. p \in lo..hi <=> p \in Int /\ lo <= p /\ p <= hi
  BY <1>3
<1>5. p \in Int => (lo <= p /\ p <= hi <=>
                      1 <= p /\ p <= total /\ c - 1 <= p /\ p <= c + 1)
  BY <1>1 DEF lo, hi
<1>6. QED
  BY <1>2, <1>4, <1>5

\* The numbers W, in order, are the entries of s.
InOrder(s, W) == s \in SeqOf(W, 5) /\ ToSet(s) = W /\ Ascending(s)

\* Two ascending numbers, given one by one.
LEMMA TwoInOrder ==
  ASSUME NEW a \in Int, NEW b \in Int, a < b, NEW W, \A p : p \in W <=> p \in {a, b}
  PROVE  InOrder(<<a, b>>, W)
<1>1. <<a, b>> \in [1..2 -> W] /\ DOMAIN <<a, b>> = 1..2
  OBVIOUS
<1>2. QED
  BY <1>1 DEF InOrder, SeqOf, ToSet, Ascending

\* Three of them.
LEMMA ThreeInOrder ==
  ASSUME NEW a \in Int, NEW b \in Int, NEW c \in Int, a < b, b < c,
         NEW W, \A p : p \in W <=> p \in {a, b, c}
  PROVE  InOrder(<<a, b, c>>, W)
<1>1. <<a, b, c>> \in [1..3 -> W] /\ DOMAIN <<a, b, c>> = 1..3
  OBVIOUS
<1>2. QED
  BY <1>1 DEF InOrder, SeqOf, ToSet, Ascending

\* Four of them.
LEMMA FourInOrder ==
  ASSUME NEW a \in Int, NEW b \in Int, NEW c \in Int, NEW d \in Int,
         a < b, b < c, c < d, NEW W, \A p : p \in W <=> p \in {a, b, c, d}
  PROVE  InOrder(<<a, b, c, d>>, W)
<1>1. <<a, b, c, d>> \in [1..4 -> W] /\ DOMAIN <<a, b, c, d>> = 1..4
  OBVIOUS
<1>2. QED
  BY <1>1 DEF InOrder, SeqOf, ToSet, Ascending

\* Five of them.
LEMMA FiveInOrder ==
  ASSUME NEW a \in Int, NEW b \in Int, NEW c \in Int, NEW d \in Int, NEW e \in Int,
         a < b, b < c, c < d, d < e, NEW W, \A p : p \in W <=> p \in {a, b, c, d, e}
  PROVE  InOrder(<<a, b, c, d, e>>, W)
<1>1. <<a, b, c, d, e>> \in [1..5 -> W] /\ DOMAIN <<a, b, c, d, e>> = 1..5
  OBVIOUS
<1>2. QED
  BY <1>1 DEF InOrder, SeqOf, ToSet, Ascending

\* The window can be put in order.
LEMMA WindowInOrder ==
  ASSUME NEW c \in Int, NEW total \in Int, 1 <= c, c <= total, 1 < total
  PROVE  \E s : InOrder(s, PageWindow(c, total))
<1> DEFINE W == PageWindow(c, total)
<1> SUFFICES \E s : InOrder(s, W)
  OBVIOUS
<1>1. \A p : p \in W <=>
           \/ p = 1 \/ p = total
           \/ p \in Int /\ 1 <= p /\ p <= total /\ c - 1 <= p /\ p <= c + 1
  BY WindowHolds
<1> HIDE DEF W
<1>2. CASE total = 2
  <2>1. \A p : p \in W <=> p \in {1, 2}
    BY <1>1, <1>2
  <2>2. InOrder(<<1, 2>>, W)
    BY <1>2, <2>1, TwoInOrder
  <2>3. QED
    BY <2>2
<1>3. CASE c = 1 /\ total > 2
  <2>1. \A p : p \in W <=> p \in {1, 2, total}
    BY <1>1, <1>3
  <2>2. InOrder(<<1, 2, total>>, W)
    BY <1>3, <2>1, ThreeInOrder
  <2>3. QED
    BY <2>2
<1>4. CASE c = 2 /\ total = 3
  <2>1. \A p : p \in W <=> p \in {1, 2, 3}
    BY <1>1, <1>4
  <2>2. InOrder(<<1, 2, 3>>, W)
    BY <1>4, <2>1, ThreeInOrder
  <2>3. QED
    BY <2>2
<1>5. CASE c = 2 /\ total > 3
  <2>1. \A p : p \in W <=> p \in {1, 2, 3, total}
    BY <1>1, <1>5
  <2>2. InOrder(<<1, 2, 3, total>>, W)
    BY <1>5, <2>1, FourInOrder
  <2>3. QED
    BY <2>2
<1>6. CASE c >= 3 /\ total = c
  <2>1. \A p : p \in W <=> p \in {1, c - 1, c}
    BY <1>1, <1>6
  <2>2. InOrder(<<1, c - 1, c>>, W)
    BY <1>6, <2>1, ThreeInOrder
  <2>3. QED
    BY <2>2
<1>7. CASE c >= 3 /\ total = c + 1
  <2>1. \A p : p \in W <=> p \in {1, c - 1, c, c + 1}
    BY <1>1, <1>7
  <2>2. InOrder(<<1, c - 1, c, c + 1>>, W)
    BY <1>7, <2>1, FourInOrder
  <2>3. QED
    BY <2>2
<1>8. CASE c >= 3 /\ total > c + 1
  <2>1. \A p : p \in W <=> p \in {1, c - 1, c, c + 1, total}
    BY <1>1, <1>8
  <2>2. InOrder(<<1, c - 1, c, c + 1, total>>, W)
    BY <1>8, <2>1, FiveInOrder
  <2>3. QED
    BY <2>2
<1>9. QED
  BY <1>2, <1>3, <1>4, <1>5, <1>6, <1>7, <1>8

\* So Sorted does.
LEMMA SortedWindow ==
  ASSUME NEW c \in Int, NEW total \in Int, 1 <= c, c <= total, 1 < total
  PROVE  LET s == Sorted(PageWindow(c, total))
         IN  PageList(s) /\ Len(s) \in 1..5 /\ ToSet(s) = PageWindow(c, total)
<1> DEFINE W == PageWindow(c, total)
           s == Sorted(W)
<1>1. s \in SeqOf(W, 5) /\ ToSet(s) = W /\ Ascending(s)
  <2>1. \E x \in SeqOf(W, 5) : ToSet(x) = W /\ Ascending(x)
    BY WindowInOrder DEF InOrder
  <2>2. QED
    BY <2>1 DEF Sorted
<1>2. 1 \in W /\ \A p \in W : p \in Int /\ p >= 1
  BY WindowHolds
<1> HIDE DEF W, s
<1>3. PICK m \in 0..5 : s \in [1..m -> W]
  BY <1>1 DEF SeqOf
<1>4. s \in Seq(Int) /\ Len(s) = m
  BY <1>2, <1>3
<1>5. m # 0
  BY <1>1, <1>2, <1>3 DEF ToSet
<1>6. \A i \in 1..Len(s) : s[i] >= 1
  BY <1>2, <1>3, <1>4
<1>7. PageList(s) /\ Len(s) \in 1..5 /\ ToSet(s) = W
  BY <1>1, <1>4, <1>5, <1>6 DEF PageList
<1>8. QED
  BY <1>7 DEF s, W

\* The row offered for the page shown.
LEMMA NumbersOffered ==
  ASSUME PagingInv
  PROVE  PageNumbersRight
<1> DEFINE total == totalPages(filtered)
           c == safePage
           nums == buildPageNumbers(c, total)
           s == Sorted(PageWindow(c, total))
           N == {i \in DOMAIN nums : nums[i] # 0}
<1> SUFFICES ASSUME total > 1
             PROVE  /\ {1, total, c} \subseteq ToSet(nums)
                    /\ {c - 1, c + 1} \cap (1..total) \subseteq ToSet(nums)
                    /\ Cardinality(N) <= 5
                    /\ \A i, j \in N : i < j => nums[i] < nums[j]
                    /\ \A i \in DOMAIN nums :
                         nums[i] = 0 => {i - 1, i + 1} \subseteq N
                                          /\ nums[i + 1] > nums[i - 1] + 1
                    /\ \A i \in 1..(Len(nums) - 1) :
                         {i, i + 1} \subseteq N => nums[i + 1] = nums[i] + 1
  BY DEF PageNumbersRight
<1>1. c \in Int /\ c >= 1 /\ c <= total /\ total \in Int
  BY SafePage, TotalPages DEF PagingInv
<1>2. PageList(s) /\ Len(s) \in 1..5 /\ ToSet(s) = PageWindow(c, total)
  <2> HIDE DEF c, total
  <2>1. QED
    BY <1>1, SortedWindow
<1>3. RowAfter(nums, s, Len(s))
  <2>1. nums = Pushed(s, 1) \o Pushed(s, 2) \o Pushed(s, 3) \o Pushed(s, 4)
                 \o Pushed(s, 5)
    BY <1>1 DEF buildPageNumbers
  <2> HIDE DEF nums, s
  <2>2. QED
    BY <1>2, <2>1, FiveTurns
<1>4. PICK L \in 1..5 : L = Len(s)
  BY <1>2
<1>5. /\ nums \in Seq(Int) /\ RowRight(nums, Len(nums), s[L])
      /\ Cardinality(N) = L /\ \A j \in 1..L : s[j] \in ToSet(nums)
  BY <1>3, <1>4 DEF RowAfter, Numbered
<1>6. PageWindow(c, total) \subseteq ToSet(nums)
  <2>1. s \in Seq(Int) /\ DOMAIN s = 1..L
    BY <1>2, <1>4 DEF PageList
  <2> HIDE DEF nums, s
  <2>2. QED
    BY <1>2, <1>5, <2>1 DEF ToSet
<1>7. /\ {1, total, c} \subseteq PageWindow(c, total)
      /\ {c - 1, c + 1} \cap (1..total) \subseteq PageWindow(c, total)
  <2> HIDE DEF c, total
  <2>1. QED
    BY <1>1, WindowHolds
<1>8. PICK n \in Nat : n = Len(nums)
  BY <1>5
<1> HIDE DEF nums, s
<1>9. DOMAIN nums = 1..n /\ RowRight(nums, n, s[L])
  BY <1>5, <1>8
<1>10. /\ \A i, j \in N : i < j => nums[i] < nums[j]
       /\ \A i \in DOMAIN nums :
            nums[i] = 0 => {i - 1, i + 1} \subseteq N
                             /\ nums[i + 1] > nums[i - 1] + 1
       /\ \A i \in 1..(n - 1) : {i, i + 1} \subseteq N => nums[i + 1] = nums[i] + 1
  BY <1>9 DEF RowRight
<1>11. QED
  BY <1>5, <1>6, <1>7, <1>8, <1>10

\* Every proposal is on exactly one page, the page shown and its summary agree,
\* and the numbers offered lead to the pages, with marks exactly where some are
\* skipped, for every page size and length of the list (App.tsx totalPages,
\* safePage, pagedProposals; Pagination.tsx).
THEOREM PagesCorrect == PagingSpec => []PagesRight
<1>1. PagingInit => PagingInv
  BY DEF PagingInit, PagingInv
<1>2. PagingInv /\ [PagingNext]_paging_vars => PagingInv'
  BY NextPaging
<1>3. PagingInv => PagesRight
  BY OnePage, ShownPage, NumbersOffered DEF PagesRight, PagesPartitionList
<1>4. QED
  BY <1>1, <1>2, <1>3, PTL DEF PagingSpec
=============================================================================
