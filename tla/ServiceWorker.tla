---------------------------- MODULE ServiceWorker ----------------------------
(***************************************************************************)
(* frontend/public/sw.js: the network first, the cache when the network    *)
(* fails.  A response is given to the page at once and written to the      *)
(* cache on the side, so that two writes of one resource can land in       *)
(* either order.                                                           *)
(***************************************************************************)
EXTENDS Integers, FiniteSets

CONSTANTS
  Shell,        \* the resources of APP_SHELL
  Pages,        \* other resources a page asks for
  OfflinePage,  \* '/offline.html'
  MaxDeploys    \* bound on the versions of the site

ASSUME WorkerAssumption == OfflinePage \in Shell

Resources == Shell \cup Pages
OldCache == "old"

VARIABLES
  worker,      \* "none", "installing", "waiting", "active"
  caches_,     \* the caches that exist: "old" is one of an earlier release
  cache,       \* cache[r]: the version CACHE holds, 0 for none
  server,      \* the version of the site that is deployed
  puts,        \* puts[r]: the versions being written
  seen,        \* history: seen[r]: the version the page was given last
  unordered    \* history: two writes of one resource were in flight

sw_vars == <<worker, caches_, cache, server, puts, seen, unordered>>

WorkerInit ==
  /\ worker = "none" /\ caches_ = {OldCache}
  /\ cache = [r \in Resources |-> 0] /\ server = 1
  /\ puts = [r \in Resources |-> {}] /\ seen = [r \in Resources |-> 0]
  /\ unordered = FALSE

\* install: addAll stores the whole shell or nothing; a failure discards the
\* worker, which the next visit registers again.
Install ==
  /\ worker = "none" /\ worker' = "installing"
  /\ UNCHANGED <<caches_, cache, server, puts, seen, unordered>>
AddAll ==
  /\ worker = "installing" /\ worker' = "waiting"
  /\ caches_' = caches_ \cup {"current"}
  /\ cache' = [r \in Resources |-> IF r \in Shell THEN server ELSE cache[r]]
  /\ UNCHANGED <<server, puts, seen, unordered>>
InstallFails ==
  /\ worker = "installing" /\ worker' = "none"
  /\ UNCHANGED <<caches_, cache, server, puts, seen, unordered>>

Doomed_Own == caches_
Doomed == caches_ \ {"current"}

\* activate deletes every other cache.
Activate ==
  /\ worker = "waiting" /\ worker' = "active"
  /\ caches_' = caches_ \ Doomed
  /\ cache' = IF "current" \in Doomed THEN [r \in Resources |-> 0] ELSE cache
  /\ UNCHANGED <<server, puts, seen, unordered>>

Stored_First(r, v) == IF cache[r] = 0 THEN v ELSE cache[r]
Stored(r, v) == v

\* fetch: the network answers, the page gets the response, the put starts.
FetchOnline(r) ==
  /\ worker = "active" /\ server \notin puts[r]
  /\ seen' = [seen EXCEPT ![r] = server]
  /\ puts' = [puts EXCEPT ![r] = @ \cup {server}]
  /\ unordered' = (unordered \/ puts[r] # {})
  /\ UNCHANGED <<worker, caches_, cache, server>>
PutLands(r, v) ==
  /\ v \in puts[r]
  /\ puts' = [puts EXCEPT ![r] = @ \ {v}]
  /\ cache' = [cache EXCEPT ![r] = Stored(r, v)]
  /\ caches_' = caches_ \cup {"current"}
  /\ UNCHANGED <<worker, server, seen, unordered>>

\* What a request gets when the network fails: the cached version, for a
\* navigation the offline page, else an empty 503 response (0).
Offline(r, navigate) ==
  IF cache[r] # 0 THEN cache[r] ELSE IF navigate THEN cache[OfflinePage] ELSE 0

Deploy ==
  /\ server < MaxDeploys /\ server' = server + 1
  /\ UNCHANGED <<worker, caches_, cache, puts, seen, unordered>>

WorkerNext ==
  \/ Install \/ AddAll \/ InstallFails \/ Activate \/ Deploy
  \/ \E r \in Resources : \/ FetchOnline(r)
                          \/ \E v \in 1..MaxDeploys : PutLands(r, v)
WorkerSpec == WorkerInit /\ [][WorkerNext]_sw_vars
-----------------------------------------------------------------------------
(* Once the worker controls pages, a navigation is answered offline too:   *)
(* installing, activating and the cleaning of old caches never leave it    *)
(* without its offline page (sw.js install, activate, fetch).              *)
OfflineNavigates == worker = "active" => \A r \in Resources : Offline(r, TRUE) # 0

(* Offline a page gets the version it got last, once that version's write  *)
(* has landed, unless two writes of one resource were in flight together   *)
(* (sw.js fetch: respondWith does not wait for cache.put).                 *)
OfflineIsLastSeen ==
  ~unordered => \A r \in Resources :
    (seen[r] # 0 /\ puts[r] = {}) => Offline(r, FALSE) = seen[r]

(* Offline, a navigation is answered, and with the version seen last       *)
(* (sw.js install, activate, fetch).                                       *)
OfflineServes == OfflineNavigates /\ OfflineIsLastSeen
=============================================================================
