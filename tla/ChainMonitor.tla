---------------------------- MODULE ChainMonitor ----------------------------
(***************************************************************************)
(* scripts/monitor.js: a loop that fetches the new events of the           *)
(* governance and the token contract together, moves both cursors and      *)
(* looks for anomalies in the batch.  What the RPC makes of the request is  *)
(* not this program's: it sends the last answer's cursor as startLedger,   *)
(* and the answer may be any page of the log, from before, at or after     *)
(* that cursor, or an error object under HTTP 200.                         *)
(***************************************************************************)
EXTENDS Integers, Sequences, FiniteSets

CONSTANTS
  Emitted,          \* Emitted[c]: the events contract c may emit, records
                    \* [topic, amount]; amount -1 when value.amount is absent
  LargeTransfer,    \* thresholds.largeTransferAmount
  RapidVoteBurst,   \* thresholds.rapidVoteBurst
  AdminChangeCount, \* thresholds.adminChangeCount
  MonitorPageSize,  \* pagination limit (200 in the code)
  MaxChainLog       \* bound on each contract's events

ASSUME ChainAssumption == MonitorPageSize \in Nat \ {0} /\ MaxChainLog \in Nat

Contracts == {"gov", "token"}

VARIABLES
  watched,     \* contracts whose id is configured
  decodes,     \* whether the RPC's topics are {sym: ...} objects or plain symbols
  chainLog,    \* chainLog[c]: events of contract c
  cursors,     \* govCursor and tokenCursor as positions in the log; 0 is undefined
  req,         \* req[c]: the round's request, the page from+1..upto that answers
               \* it and the cursor of the answer
  alerts,      \* alerts raised, as <<rule, what>>
  examined, examinedAgain,  \* history: events given to detectAnomalies
  skipped, repeated         \* history: contracts whose pages began after or before
                            \* the cursor, or came without a new one

config == <<watched, decodes>>
history == <<examined, examinedAgain, skipped, repeated>>
chain_vars == <<config, chainLog, cursors, req, alerts, history>>

NoRequest == [stage |-> "none", from |-> 0, upto |-> 0, next |-> 0]
NoRequests == [c \in Contracts |-> NoRequest]
Page(from, upto, next) ==
  [stage |-> "answered", from |-> from, upto |-> upto, next |-> next]

\* No events, and the cursor as it was.
NoNews(c) == Page(cursors[c], cursors[c], cursors[c])

MonitorInit ==
  /\ watched \in SUBSET Contracts
  /\ decodes \in BOOLEAN
  /\ chainLog = [c \in Contracts |-> <<>>]
  /\ cursors = [c \in Contracts |-> 0]
  /\ req = NoRequests
  /\ alerts = {} /\ examined = {} /\ examinedAgain = {}
  /\ skipped = {} /\ repeated = {}

(* The rules, over a batch of positions <<contract, index>>.               *)
Ev(x) == chainLog[x[1]][x[2]]
Matching_GovernanceOnly(batch, topics) ==   \* mutant
  {x \in batch : x[1] = "gov" /\ decodes /\ Ev(x).topic \in topics}

\* A topic that is not decoded equals none of the names.
Matching(batch, topics) == {x \in batch : decodes /\ Ev(x).topic \in topics}

Raise(rule, S) == {<<rule, x>> : x \in S}
RaiseIf(cond, rule) == IF cond THEN {<<rule, "batch">>} ELSE {}

detectAnomalies(batch) ==
  LET admins == Matching(batch, {"set_admin", "update_config"})
      votes == Matching(batch, {"vote_cast"})
      large == {x \in Matching(batch, {"transfer"}) : Ev(x).amount >= LargeTransfer}
  IN  RaiseIf(Cardinality(admins) >= AdminChangeCount, "SUSPICIOUS_ADMIN_CHANGES")
        \cup Raise("LARGE_TOKEN_TRANSFER", large)
        \cup Raise("PROPOSAL_CANCELLED", Matching(batch, {"proposal_cancelled"}))
        \cup Raise("CONTRACT_PAUSED", Matching(batch, {"contract_paused"}))
        \cup Raise("TOKEN_MINTED", Matching(batch, {"mint"}))
        \cup RaiseIf(Cardinality(votes) >= RapidVoteBurst, "RAPID_VOTE_BURST")

\* Both requests are sent; one for a contract without id is answered at once.
BeginPoll ==
  /\ req = NoRequests
  /\ req' = [c \in Contracts |->
               IF c \in watched THEN [NoRequest EXCEPT !.stage = "sent"] ELSE NoNews(c)]
  /\ UNCHANGED <<config, chainLog, cursors, alerts, history>>

\* One of the two requests is answered with at most a page of events, which
\* may be any the RPC holds, and with the cursor of its end or none.
fetchEvents(c) ==
  /\ req[c].stage = "sent"
  /\ \E from \in 0..Len(chainLog[c]) : \E upto \in from..Len(chainLog[c]) :
       /\ upto - from <= MonitorPageSize
       /\ \E next \in {upto, cursors[c]} :
            req' = [req EXCEPT ![c] = Page(from, upto, next)]
  /\ UNCHANGED <<config, chainLog, cursors, alerts, history>>

\* A JSON-RPC error comes with HTTP 200 and has no result: no events.
RpcError(c) ==
  /\ req[c].stage = "sent"
  /\ req' = [req EXCEPT ![c] = NoNews(c)]
  /\ UNCHANGED <<config, chainLog, cursors, alerts, history>>

\* A refused request rejects Promise.all: the round ends, the answer of the
\* other request is dropped with it and no cursor moves.
PollFailed(c) ==
  /\ req[c].stage = "sent"
  /\ req' = NoRequests
  /\ UNCHANGED <<config, chainLog, cursors, alerts, history>>

\* mutant: the token's cursor is forgotten
NewCursors_OnlyGovernance == [cursors EXCEPT !["gov"] = req["gov"].next]

NewCursors == [c \in Contracts |-> req[c].next]

Batch == UNION {{<<c, i>> : i \in (req[c].from + 1)..req[c].upto} : c \in Contracts}

\* Both answers are there: the cursors move, then the batch is examined.
PollDone ==
  /\ \A c \in Contracts : req[c].stage = "answered"
  /\ alerts' = alerts \cup detectAnomalies(Batch)
  /\ examined' = examined \cup Batch
  /\ examinedAgain' = examinedAgain \cup (examined \cap Batch)
  /\ skipped' = skipped \cup {c \in Contracts : req[c].from > cursors[c]}
  /\ repeated' = repeated \cup
       {c \in Contracts : req[c].from < cursors[c] \/ req[c].next < req[c].upto}
  /\ cursors' = NewCursors
  /\ req' = NoRequests
  /\ UNCHANGED <<config, chainLog>>

\* A contract emits an event (external).
ChainEmit(c, e) ==
  /\ Len(chainLog[c]) < MaxChainLog
  /\ chainLog' = [chainLog EXCEPT ![c] = Append(@, e)]
  /\ UNCHANGED <<config, cursors, req, alerts, history>>

MonitorNext ==
  \/ BeginPoll \/ PollDone
  \/ \E c \in Contracts : fetchEvents(c) \/ RpcError(c) \/ PollFailed(c)
  \/ \E c \in Contracts : \E e \in Emitted[c] : ChainEmit(c, e)

MonitorSpec == MonitorInit /\ [][MonitorNext]_chain_vars
-----------------------------------------------------------------------------
(* The monitor loses and repeats nothing of its own: as long as the RPC    *)
(* never began a page after the cursor it was sent, every event behind the *)
(* cursor was examined, and if it never began one before it either, only   *)
(* once; although either request of a round may fail after the other was   *)
(* answered (monitor.js:165-192, 214-227).                                 *)
ExaminedExactlyOnce ==
  \A c \in Contracts \ skipped :
     /\ \A i \in 1..cursors[c] : <<c, i>> \in examined
     /\ c \notin repeated => \A x \in examinedAgain : x[1] # c

(* Every mint of the token contract that reached the monitor decoded is    *)
(* alerted, whatever page it came in (monitor.js:129).                     *)
MintsAlerted ==
  \A x \in examined :
     decodes /\ x[1] = "token" /\ Ev(x).topic = "mint" => <<"TOKEN_MINTED", x>> \in alerts

(* Both logs are examined as the RPC serves them, and the mints among      *)
(* their events alerted (monitor.js main, fetchEvents, detectAnomalies).   *)
LogsExamined == ExaminedExactlyOnce /\ MintsAlerted
=============================================================================
