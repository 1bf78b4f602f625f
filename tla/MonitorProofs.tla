--------------------------- MODULE MonitorProofs ---------------------------
(***************************************************************************)
(* Theorems about the programs that follow the contracts' events besides   *)
(* the watcher: the two monitoring scripts, the notification backend and   *)
(* the inspection script.  They hold for every page size, every number of  *)
(* overlapping requests or calls of start(), and every --limit.            *)
(***************************************************************************)
EXTENDS AdminMonitor, ChainMonitor, Backend, InspectState,
        FiniteSetTheorems, TLAPS

-----------------------------------------------------------------------------
(* scripts/admin_monitor.js                                                *)

AdminTypeOK ==
  /\ adminLog \in Seq(AdminTopics)
  /\ adminCursor \in 0..Len(adminLog)
  /\ ask \in [Requests -> [stage : {"none", "sent", "answered"},
                           from : 0..Len(adminLog), upto : 0..Len(adminLog)]]

\* Every watched event up to position c has been alerted.
AlertedTo(c) == \A i \in 1..c : IsAdminEvent(i) => i \in alerted

\* Whatever the cursor may be set back to, by a request that was sent before
\* others were answered, is a position the alerts have reached.
AdminCovered ==
  /\ AlertedTo(adminCursor)
  /\ \A k \in Requests : AlertedTo(ask[k].from)
  /\ \A k \in Requests : ask[k].stage = "answered" => ask[k].from <= ask[k].upto

\* Without overlap the request in flight was sent with the present cursor,
\* and no alert is ahead of that.
AdminAlone ==
  /\ alertedAgain = {} /\ alerted \subseteq 1..adminCursor
  /\ \A k \in Requests : ask[k] # NoAsk => ask[k].from = adminCursor
  /\ \A j, k \in Requests : ask[j] # NoAsk /\ ask[k] # NoAsk => j = k

AdminInv == AdminTypeOK /\ AdminCovered /\ (~overlapped => AdminAlone)

\* Nothing has been asked, and cursor 0 is behind every event.
LEMMA InitAdmin == startMonitor => AdminInv
<1>1. SUFFICES ASSUME startMonitor PROVE AdminInv
  OBVIOUS
<1>2. AdminTypeOK
  <2>1. /\ adminLog = <<>> /\ adminCursor = 0
        /\ ask = [k \in Requests |-> NoAsk]
    BY <1>1 DEF startMonitor
  <2>2. adminLog \in Seq(AdminTopics) /\ Len(adminLog) = 0
    BY <2>1
  <2>3. NoAsk \in [stage : {"none", "sent", "answered"},
                   from : 0..Len(adminLog), upto : 0..Len(adminLog)]
    BY <2>2 DEF NoAsk
  <2>4. QED
    BY <2>1, <2>2, <2>3 DEF AdminTypeOK
<1>3. QED
  BY <1>1, <1>2 DEF startMonitor, AdminInv, AdminCovered, AdminAlone, AlertedTo, NoAsk

\* A callback takes the cursor as it is.
LEMMA TickAdmin ==
  ASSUME AdminInv, NEW k \in Requests, Tick(k)
  PROVE  AdminInv'
<1>1. /\ ask[k] = NoAsk /\ UNCHANGED <<adminLog, adminCursor, alerted, alertedAgain>>
      /\ ask' = [ask EXCEPT ![k] = [stage |-> "sent", from |-> adminCursor, upto |-> 0]]
      /\ overlapped' = (overlapped \/ \E j \in Requests : ask[j] # NoAsk)
  BY DEF Tick
<1>2. AdminTypeOK'
  BY <1>1 DEF AdminInv, AdminTypeOK
<1>3. \A j \in Requests : ask'[j] = IF j = k THEN [stage |-> "sent", from |-> adminCursor, upto |-> 0]
                                    ELSE ask[j]
  BY <1>1 DEF AdminInv, AdminTypeOK
<1>4. AdminCovered'
  BY <1>1, <1>3 DEF AdminInv, AdminCovered, AlertedTo, IsAdminEvent
<1>5. ASSUME ~overlapped' PROVE AdminAlone'
  <2>1. ~overlapped /\ \A j \in Requests : ask[j] = NoAsk
    BY <1>1, <1>5
  <2>2. QED
    BY <1>1, <1>3, <2>1 DEF AdminInv, AdminAlone
<1>6. QED
  BY <1>2, <1>4, <1>5 DEF AdminInv

\* Horizon answers with at most a page after the position asked for.
LEMMA AnswerAdmin ==
  ASSUME AdminInv, NEW k \in Requests, Answer(k)
  PROVE  AdminInv'
<1> DEFINE end == ask[k].from + AdminPageSize
           upto == IF end < Len(adminLog) THEN end ELSE Len(adminLog)
<1>1. /\ ask[k].stage = "sent"
      /\ UNCHANGED <<adminLog, adminCursor, alerted, alertedAgain, overlapped>>
      /\ ask' = [ask EXCEPT ![k].stage = "answered", ![k].upto = upto]
  BY DEF Answer
<1>2. ask[k].from \in 0..Len(adminLog) /\ Len(adminLog) \in Nat
  BY DEF AdminInv, AdminTypeOK
<1>3. upto \in ask[k].from..Len(adminLog) /\ upto \in 0..Len(adminLog)
  BY <1>2, AdminAssumption
<1> HIDE DEF upto
<1>4. /\ ask'[k] = [stage |-> "answered", from |-> ask[k].from, upto |-> upto]
      /\ \A j \in Requests \ {k} : ask'[j] = ask[j]
  BY <1>1 DEF AdminInv, AdminTypeOK
<1>5. AdminTypeOK'
  BY <1>1, <1>3 DEF AdminInv, AdminTypeOK
<1>6. \A j \in Requests : ask'[j].from = ask[j].from
  BY <1>4
<1>7. ask[k] # NoAsk
  <2>1. NoAsk.stage = "none"
    BY DEF NoAsk
  <2>2. QED
    BY <1>1, <2>1
<1>8. AdminCovered'
  <2>1. AlertedTo(adminCursor)' /\ \A j \in Requests : AlertedTo(ask[j].from)'
    BY <1>1, <1>6 DEF AdminInv, AdminCovered, AlertedTo, IsAdminEvent
  <2>2. \A j \in Requests : ask'[j].stage = "answered" => ask'[j].from <= ask'[j].upto
    BY <1>2, <1>3, <1>4 DEF AdminInv, AdminCovered
  <2>3. QED
    BY <2>1, <2>2 DEF AdminCovered
<1>9. ASSUME ~overlapped' PROVE AdminAlone'
  BY <1>1, <1>4, <1>6, <1>7, <1>9 DEF AdminInv, AdminAlone
<1>10. QED
  BY <1>5, <1>8, <1>9 DEF AdminInv

\* The records of an answer are alerted before the cursor follows them.
LEMMA ArriveAdmin ==
  ASSUME AdminInv, NEW k \in Requests, Arrive(k)
  PROVE  AdminInv'
<1> DEFINE r == ask[k]
           found == {i \in (r.from + 1)..r.upto : IsAdminEvent(i)}
<1>1. /\ r.stage = "answered" /\ UNCHANGED <<adminLog, overlapped>>
      /\ alerted' = alerted \cup found
      /\ alertedAgain' = alertedAgain \cup (alerted \cap found)
      /\ adminCursor' = LastRecord(r, adminCursor)
      /\ ask' = [ask EXCEPT ![k] = NoAsk]
  BY DEF Arrive
<1>2. /\ r.from \in 0..Len(adminLog) /\ r.upto \in 0..Len(adminLog)
      /\ Len(adminLog) \in Nat /\ r.from <= r.upto /\ adminCursor \in 0..Len(adminLog)
  BY <1>1 DEF AdminInv, AdminTypeOK, AdminCovered
<1>3. /\ adminCursor' \in 0..Len(adminLog)
      /\ adminCursor' = IF r.upto > r.from THEN r.upto ELSE adminCursor
  BY <1>1, <1>2 DEF LastRecord
<1>4. \A j \in Requests : ask'[j] = IF j = k THEN NoAsk ELSE ask[j]
  BY <1>1 DEF AdminInv, AdminTypeOK
<1>5. AdminTypeOK'
  BY <1>1, <1>3 DEF AdminInv, AdminTypeOK, NoAsk
<1>6. \A i \in 1..r.upto : IsAdminEvent(i) => i \in alerted'
  <2>1. AlertedTo(r.from)
    BY DEF AdminInv, AdminCovered
  <2>2. QED
    BY <1>1, <1>2, <2>1 DEF AlertedTo
<1>7. AdminCovered'
  <2>1. AlertedTo(adminCursor) /\ \A j \in Requests : AlertedTo(ask[j].from)
    BY DEF AdminInv, AdminCovered
  <2>2. AlertedTo(adminCursor)'
    BY <1>1, <1>2, <1>3, <1>6, <2>1 DEF AlertedTo, IsAdminEvent
  <2>3. \A j \in Requests : AlertedTo(ask[j].from)'
    BY <1>1, <1>4, <2>1 DEF AlertedTo, IsAdminEvent, NoAsk
  <2>4. QED
    BY <1>4, <2>2, <2>3 DEF AdminInv, AdminCovered, NoAsk
<1>8. ASSUME ~overlapped' PROVE AdminAlone'
  <2>1. AdminAlone /\ r # NoAsk
    BY <1>1, <1>8 DEF AdminInv, NoAsk
  <2>2. /\ r.from = adminCursor /\ alerted \subseteq 1..adminCursor /\ alertedAgain = {}
        /\ \A j \in Requests : ask[j] # NoAsk => j = k
    BY <2>1 DEF AdminAlone
  <2>3. alerted \cap found = {}
    BY <1>2, <2>2
  <2>4. alerted' \subseteq 1..adminCursor'
    <3>1. found \subseteq (r.from + 1)..r.upto /\ adminCursor' = r.upto
      BY <1>2, <1>3, <2>2
    <3>2. found \subseteq 1..adminCursor' /\ alerted \subseteq 1..adminCursor'
      BY <1>2, <2>2, <3>1
    <3>3. QED
      BY <1>1, <3>2
  <2>5. \A j \in Requests : ask'[j] = NoAsk
    BY <1>4, <2>2
  <2>6. QED
    BY <1>1, <2>2, <2>3, <2>4, <2>5 DEF AdminAlone
<1>9. QED
  BY <1>5, <1>7, <1>8 DEF AdminInv

\* A lost request is forgotten.
LEMMA AskFailsAdmin ==
  ASSUME AdminInv, NEW k \in Requests, AskFails(k)
  PROVE  AdminInv'
<1>1. /\ UNCHANGED <<adminLog, adminCursor, alerted, alertedAgain, overlapped>>
      /\ ask' = [ask EXCEPT ![k] = NoAsk]
  BY DEF AskFails
<1>2. \A j \in Requests : ask'[j] = IF j = k THEN NoAsk ELSE ask[j]
  BY <1>1 DEF AdminInv, AdminTypeOK
<1>3. AdminTypeOK'
  BY <1>1 DEF AdminInv, AdminTypeOK, NoAsk
<1>4. AdminCovered'
  BY <1>1, <1>2 DEF AdminInv, AdminCovered, AlertedTo, IsAdminEvent, NoAsk
<1>5. ASSUME ~overlapped' PROVE AdminAlone'
  BY <1>1, <1>2, <1>5 DEF AdminInv, AdminAlone
<1>6. QED
  BY <1>3, <1>4, <1>5 DEF AdminInv

\* A new event is ahead of every cursor.
LEMMA EmitAdmin ==
  ASSUME AdminInv, NEW t \in AdminTopics, AdminEmit(t)
  PROVE  AdminInv'
<1>1. /\ adminLog' = Append(adminLog, t)
      /\ UNCHANGED <<adminCursor, ask, alerted, alertedAgain, overlapped>>
  BY DEF AdminEmit
<1>2. /\ adminLog' \in Seq(AdminTopics) /\ Len(adminLog) \in Nat
      /\ Len(adminLog') = Len(adminLog) + 1
      /\ \A i \in 1..Len(adminLog) : adminLog'[i] = adminLog[i]
  BY <1>1 DEF AdminInv, AdminTypeOK
<1>3. AdminTypeOK'
  BY <1>1, <1>2 DEF AdminInv, AdminTypeOK
<1>4. adminCursor \in 0..Len(adminLog) /\ \A k \in Requests : ask[k].from \in 0..Len(adminLog)
  BY DEF AdminInv, AdminTypeOK
<1>5. AdminCovered'
  BY <1>1, <1>2, <1>4 DEF AdminInv, AdminCovered, AlertedTo, IsAdminEvent
<1>6. ASSUME ~overlapped' PROVE AdminAlone'
  BY <1>1, <1>6 DEF AdminInv, AdminAlone
<1>7. QED
  BY <1>3, <1>5, <1>6 DEF AdminInv

\* However many requests overlap and in whatever order they are answered, no
\* watched event behind the shared cursor goes without an alert, and without
\* overlap none is alerted twice (admin_monitor.js).
THEOREM AdminAlertsCorrect == AdminSpec => []AdminAlertsRight
<1>1. startMonitor => AdminInv
  BY InitAdmin
<1>2. AdminInv /\ [AdminNext]_admin_vars => AdminInv'
  <2>1. ASSUME AdminInv, AdminNext PROVE AdminInv'
    BY <2>1, TickAdmin, AnswerAdmin, ArriveAdmin, AskFailsAdmin, EmitAdmin DEF AdminNext
  <2>2. ASSUME AdminInv, UNCHANGED admin_vars PROVE AdminInv'
    BY <2>2 DEF admin_vars, AdminInv, AdminTypeOK, AdminCovered, AdminAlone,
                AlertedTo, IsAdminEvent
  <2>3. QED
    BY <2>1, <2>2
<1>3. AdminInv => AdminAlertsRight
  BY DEF AdminInv, AdminTypeOK, AdminCovered, AlertedTo, AdminAlone, AdminAlertsRight,
         NoAlertPassedOver, AlertedOnceWithoutOverlap
<1>4. QED
  BY <1>1, <1>2, <1>3, PTL DEF AdminSpec

-----------------------------------------------------------------------------
(* scripts/monitor.js                                                      *)

\* Cursors and answers are positions of the logs, and what was examined are
\* events of theirs.
ChainTypeOK ==
  /\ chainLog \in [Contracts -> Seq(UNION {Emitted[c] : c \in Contracts})]
  /\ cursors \in [Contracts -> Nat]
  /\ req \in [Contracts -> [stage : {"none", "sent", "answered"},
                            from : Nat, upto : Nat, next : Nat]]
  /\ \A c \in Contracts : cursors[c] <= Len(chainLog[c])
  /\ \A x \in examined : /\ x \in Contracts \X (Nat \ {0})
                         /\ x[2] <= Len(chainLog[x[1]])

\* An answer is a page of the log, with the cursor of its end or the old one.
AnswersOK ==
  \A c \in Contracts : req[c].stage = "answered" =>
     /\ req[c].from <= req[c].upto /\ req[c].upto <= Len(chainLog[c])
     /\ req[c].next \in {req[c].upto, cursors[c]}

\* Where no page was repeated, nothing ahead of the cursor was examined.
NoneAhead ==
  \A c \in Contracts \ (skipped \cup repeated) :
     \A x \in examined : x[1] = c => x[2] <= cursors[c]

ChainInv == ChainTypeOK /\ AnswersOK /\ NoneAhead /\ LogsExamined

\* The logs are empty.
LEMMA InitChain == MonitorInit => ChainInv
<1>1. SUFFICES ASSUME MonitorInit PROVE ChainInv
  OBVIOUS
<1>2. \A c \in Contracts : chainLog[c] = <<>> /\ cursors[c] = 0 /\ req[c] = NoRequest
  BY <1>1 DEF MonitorInit, NoRequests
<1>3. <<>> \in Seq(UNION {Emitted[c] : c \in Contracts})
  OBVIOUS
<1>4. chainLog \in [Contracts -> Seq(UNION {Emitted[c] : c \in Contracts})]
  BY <1>1, <1>3 DEF MonitorInit
<1>5. cursors \in [Contracts -> Nat]
  BY <1>1 DEF MonitorInit
<1>6. req \in [Contracts -> [stage : {"none", "sent", "answered"},
                             from : Nat, upto : Nat, next : Nat]]
  BY <1>1 DEF MonitorInit, NoRequests, NoRequest
<1>7. \A c \in Contracts : Len(chainLog[c]) = 0
  BY <1>2
<1>8. examined = {} /\ examinedAgain = {}
  BY <1>1 DEF MonitorInit
<1>9. ChainTypeOK
  BY <1>2, <1>4, <1>5, <1>6, <1>7, <1>8 DEF ChainTypeOK
<1>10. AnswersOK
  BY <1>2 DEF AnswersOK, NoRequest
<1>11. NoneAhead /\ LogsExamined
  BY <1>2, <1>8 DEF NoneAhead, LogsExamined, ExaminedExactlyOnce, MintsAlerted
<1>12. QED
  BY <1>9, <1>10, <1>11 DEF ChainInv

\* Asking, being answered and being refused move no cursor: what has to be
\* shown is that the new requests have their type and their answers are pages.
LEMMA AskChain ==
  ASSUME ChainInv,
         BeginPoll \/ \E c \in Contracts : fetchEvents(c) \/ RpcError(c) \/ PollFailed(c)
  PROVE  ChainInv'
<1> DEFINE R == [stage : {"none", "sent", "answered"}, from : Nat, upto : Nat, next : Nat]
           OK(c, r) == r.stage = "answered" =>
                         /\ r.from <= r.upto /\ r.upto <= Len(chainLog[c])
                         /\ r.next \in {r.upto, cursors[c]}
<1>1. UNCHANGED <<config, chainLog, cursors, alerts, history>>
  BY DEF BeginPoll, fetchEvents, RpcError, PollFailed
<1>2. UNCHANGED <<decodes, chainLog, cursors, alerts, examined, examinedAgain, skipped, repeated>>
  BY <1>1 DEF config, history
<1>3. req \in [Contracts -> R] /\ \A c \in Contracts : OK(c, req[c])
  BY DEF ChainInv, ChainTypeOK, AnswersOK
<1>4. \A c \in Contracts : /\ cursors[c] \in Nat /\ Len(chainLog[c]) \in Nat
                           /\ cursors[c] <= Len(chainLog[c])
  BY DEF ChainInv, ChainTypeOK
<1>5. \A c \in Contracts : NoNews(c) \in R /\ OK(c, NoNews(c))
  BY <1>4 DEF NoNews, Page
<1>6. \A c \in Contracts : NoRequest \in R /\ OK(c, NoRequest)
  BY DEF NoRequest
<1>7. SUFFICES req' \in [Contracts -> R] /\ \A c \in Contracts : OK(c, req'[c])
  <2>1. ASSUME req' \in [Contracts -> R], \A c \in Contracts : OK(c, req'[c]) PROVE ChainInv'
    <3>1. ChainTypeOK'
      BY <1>2, <2>1 DEF ChainInv, ChainTypeOK
    <3>2. AnswersOK'
      BY <1>2, <2>1 DEF AnswersOK
    <3>3. NoneAhead' /\ LogsExamined'
      BY <1>2 DEF ChainInv, NoneAhead, LogsExamined, ExaminedExactlyOnce, MintsAlerted, Ev
    <3>4. QED
      BY <3>1, <3>2, <3>3 DEF ChainInv
  <2>2. QED
    BY <2>1
<1>8. CASE BeginPoll
  <2> DEFINE sent == [NoRequest EXCEPT !.stage = "sent"]
  <2>1. sent \in R /\ \A c \in Contracts : OK(c, sent)
    BY DEF NoRequest
  <2>2. req' = [c \in Contracts |-> IF c \in watched THEN sent ELSE NoNews(c)]
    BY <1>8 DEF BeginPoll
  <2> HIDE DEF sent, R, OK
  <2>3. QED
    BY <1>5, <2>1, <2>2
<1>9. ASSUME NEW c \in Contracts, PollFailed(c)
      PROVE  req' \in [Contracts -> R] /\ \A d \in Contracts : OK(d, req'[d])
  <2>1. req' = [d \in Contracts |-> NoRequest]
    BY <1>9 DEF PollFailed, NoRequests
  <2> HIDE DEF R, OK
  <2>2. QED
    BY <1>6, <2>1
<1>10. ASSUME NEW c \in Contracts, RpcError(c)
       PROVE  req' \in [Contracts -> R] /\ \A d \in Contracts : OK(d, req'[d])
  <2>1. req' = [req EXCEPT ![c] = NoNews(c)]
    BY <1>10 DEF RpcError
  <2> HIDE DEF R, OK
  <2>2. QED
    BY <1>3, <1>5, <2>1
<1>11. ASSUME NEW c \in Contracts, fetchEvents(c)
       PROVE  req' \in [Contracts -> R] /\ \A d \in Contracts : OK(d, req'[d])
  <2>1. PICK from \in 0..Len(chainLog[c]) : \E upto \in from..Len(chainLog[c]) :
          \E next \in {upto, cursors[c]} : req' = [req EXCEPT ![c] = Page(from, upto, next)]
    BY <1>11 DEF fetchEvents
  <2>2. PICK upto \in from..Len(chainLog[c]) :
          \E next \in {upto, cursors[c]} : req' = [req EXCEPT ![c] = Page(from, upto, next)]
    BY <2>1
  <2>3. PICK next \in {upto, cursors[c]} : req' = [req EXCEPT ![c] = Page(from, upto, next)]
    BY <2>2
  <2>4. Page(from, upto, next) \in R /\ OK(c, Page(from, upto, next))
    BY <1>4 DEF Page
  <2> HIDE DEF R, OK
  <2>5. QED
    BY <1>3, <2>3, <2>4
<1>12. QED
  BY <1>8, <1>9, <1>10, <1>11

\* Both answers are there: a page that begins no later than the cursor closes
\* the gap up to its end, and one that begins exactly there repeats nothing.
LEMMA DoneChain ==
  ASSUME ChainInv, PollDone
  PROVE  ChainInv'
<1>1. /\ \A c \in Contracts : req[c].stage = "answered"
      /\ alerts' = alerts \cup detectAnomalies(Batch)
      /\ examined' = examined \cup Batch
      /\ examinedAgain' = examinedAgain \cup (examined \cap Batch)
      /\ skipped' = skipped \cup {c \in Contracts : req[c].from > cursors[c]}
      /\ repeated' = repeated \cup
           {c \in Contracts : req[c].from < cursors[c] \/ req[c].next < req[c].upto}
      /\ cursors' = [c \in Contracts |-> req[c].next]
      /\ req' = [c \in Contracts |-> NoRequest]
      /\ UNCHANGED <<decodes, chainLog>>
  BY DEF PollDone, NewCursors, NoRequests, config
<1>2. \A c \in Contracts :
        /\ cursors[c] \in Nat /\ Len(chainLog[c]) \in Nat /\ cursors[c] <= Len(chainLog[c])
        /\ req[c].from \in Nat /\ req[c].upto \in Nat /\ req[c].next \in Nat
        /\ req[c].from <= req[c].upto /\ req[c].upto <= Len(chainLog[c])
        /\ (req[c].next = req[c].upto \/ req[c].next = cursors[c])
  BY <1>1 DEF ChainInv, ChainTypeOK, AnswersOK
<1>3. \A x : x \in Batch <=>
             \E c \in Contracts : \E i \in (req[c].from + 1)..req[c].upto : x = <<c, i>>
  BY DEF Batch
<1>4. \A x \in Batch : /\ x \in Contracts \X (Nat \ {0})
                       /\ x[2] <= req[x[1]].upto /\ x[2] > req[x[1]].from
  BY <1>2, <1>3
<1>5. \A x \in examined : x \in Contracts \X (Nat \ {0}) /\ x[2] <= Len(chainLog[x[1]])
  BY DEF ChainInv, ChainTypeOK
<1>6. ChainTypeOK'
  <2>1. cursors' \in [Contracts -> Nat] /\ \A c \in Contracts : cursors'[c] <= Len(chainLog'[c])
    BY <1>1, <1>2
  <2>2. req' \in [Contracts -> [stage : {"none", "sent", "answered"},
                                from : Nat, upto : Nat, next : Nat]]
    BY <1>1 DEF NoRequest
  <2>3. \A x \in examined' : x \in Contracts \X (Nat \ {0}) /\ x[2] <= Len(chainLog'[x[1]])
    <3>1. ASSUME NEW x \in Batch
          PROVE  x \in Contracts \X (Nat \ {0}) /\ x[2] <= Len(chainLog[x[1]])
      <4>1. x[1] \in Contracts /\ x[2] \in Nat
        BY <1>4
      <4>2. QED
        BY <1>2, <1>4, <4>1
    <3>2. QED
      BY <1>1, <1>5, <3>1
  <2>4. QED
    BY <1>1, <2>1, <2>2, <2>3 DEF ChainInv, ChainTypeOK
<1>7. AnswersOK'
  BY <1>1 DEF AnswersOK, NoRequest
<1>8. NoneAhead'
  <2>1. SUFFICES ASSUME NEW c \in Contracts, c \notin skipped', c \notin repeated',
                        NEW x \in examined', x[1] = c
                 PROVE  x[2] <= cursors'[c]
    BY DEF NoneAhead
  <2>2. c \notin skipped /\ c \notin repeated /\ req[c].next >= req[c].upto
        /\ ~(req[c].from > cursors[c]) /\ ~(req[c].from < cursors[c])
    BY <1>1, <1>2, <2>1
  <2>3. req[c].from = cursors[c] /\ cursors'[c] = req[c].next
    BY <1>1, <1>2, <2>2
  <2>4. CASE x \in examined
    <3>1. x[2] <= cursors[c] /\ x[2] \in Nat
      BY <1>5, <2>1, <2>2, <2>4 DEF ChainInv, NoneAhead
    <3>2. QED
      BY <1>2, <2>2, <2>3, <3>1
  <2>5. CASE x \in Batch
    <3>1. x[2] <= req[c].upto /\ x[2] \in Nat
      BY <1>4, <2>1, <2>5
    <3>2. QED
      BY <1>2, <2>2, <2>3, <3>1
  <2>6. QED
    BY <1>1, <2>1, <2>4, <2>5
<1>9. ExaminedExactlyOnce'
  <2>1. ASSUME NEW c \in Contracts, c \notin skipped', NEW i \in 1..cursors'[c]
        PROVE  <<c, i>> \in examined'
    <3>1. c \notin skipped /\ req[c].from <= cursors[c] /\ i \in 1..req[c].next
      BY <1>1, <1>2, <2>1
    <3>2. CASE i \in 1..cursors[c]
      BY <1>1, <3>1, <3>2 DEF ChainInv, LogsExamined, ExaminedExactlyOnce
    <3>3. CASE i \notin 1..cursors[c]
      <4>1. i \in (req[c].from + 1)..req[c].upto
        BY <1>2, <3>1, <3>3
      <4>2. QED
        BY <1>1, <1>3, <4>1
    <3>4. QED
      BY <3>2, <3>3
  <2>2. ASSUME NEW c \in Contracts, c \notin skipped', c \notin repeated',
               NEW x \in examinedAgain', x[1] = c
        PROVE  FALSE
    <3>1. c \notin skipped /\ c \notin repeated /\ req[c].from >= cursors[c]
      BY <1>1, <1>2, <2>2
    <3>2. x \notin examinedAgain
      BY <2>2, <3>1 DEF ChainInv, LogsExamined, ExaminedExactlyOnce
    <3>3. x \in examined /\ x \in Batch
      BY <1>1, <2>2, <3>2
    <3>4. x[2] <= cursors[c]
      BY <2>2, <3>1, <3>3 DEF ChainInv, NoneAhead
    <3>5. x[2] > req[c].from /\ x[2] \in Nat
      BY <1>4, <2>2, <3>3
    <3>6. QED
      BY <1>2, <3>1, <3>4, <3>5
  <2>3. QED
    BY <2>1, <2>2 DEF ExaminedExactlyOnce
<1>10. MintsAlerted'
  <2>1. SUFFICES ASSUME NEW x \in examined', decodes, x[1] = "token", Ev(x).topic = "mint"
                 PROVE  <<"TOKEN_MINTED", x>> \in alerts'
    BY <1>1 DEF MintsAlerted, Ev
  <2>2. CASE x \in examined
    BY <1>1, <2>1, <2>2 DEF ChainInv, LogsExamined, MintsAlerted
  <2>3. CASE x \in Batch
    <3>1. x \in Matching(Batch, {"mint"})
      BY <2>1, <2>3 DEF Matching
    <3>2. <<"TOKEN_MINTED", x>> \in Raise("TOKEN_MINTED", Matching(Batch, {"mint"}))
      BY <3>1 DEF Raise
    <3>3. Raise("TOKEN_MINTED", Matching(Batch, {"mint"})) \subseteq detectAnomalies(Batch)
      BY Zenon DEF detectAnomalies
    <3>4. QED
      BY <1>1, <3>2, <3>3
  <2>4. QED
    BY <1>1, <2>1, <2>2, <2>3
<1>11. QED
  BY <1>6, <1>7, <1>8, <1>9, <1>10 DEF ChainInv, LogsExamined

\* A new event is ahead of both cursors, of every answer and of what was
\* examined.
LEMMA EmitChain ==
  ASSUME ChainInv, NEW c \in Contracts, NEW e \in Emitted[c], ChainEmit(c, e)
  PROVE  ChainInv'
<1> DEFINE E == UNION {Emitted[d] : d \in Contracts}
<1>1. /\ chainLog' = [chainLog EXCEPT ![c] = Append(chainLog[c], e)]
      /\ UNCHANGED <<decodes, cursors, req, alerts, examined, examinedAgain, skipped, repeated>>
  BY DEF ChainEmit, config, history
<1>2. e \in E /\ chainLog \in [Contracts -> Seq(E)]
  BY DEF ChainInv, ChainTypeOK
<1> HIDE DEF E
<1>3. /\ chainLog' \in [Contracts -> Seq(E)]
      /\ \A d \in Contracts : chainLog'[d] = IF d = c THEN Append(chainLog[c], e) ELSE chainLog[d]
  BY <1>1, <1>2
<1>4. \A d \in Contracts : /\ Len(chainLog[d]) \in Nat /\ Len(chainLog'[d]) \in Nat
                           /\ Len(chainLog[d]) <= Len(chainLog'[d])
                           /\ \A i \in 1..Len(chainLog[d]) : chainLog'[d][i] = chainLog[d][i]
  BY <1>2, <1>3
<1>5. \A x \in examined : /\ x \in Contracts \X (Nat \ {0}) /\ x[2] <= Len(chainLog[x[1]])
                          /\ x[1] \in Contracts /\ x[2] \in 1..Len(chainLog[x[1]])
  BY <1>4 DEF ChainInv, ChainTypeOK
<1>6. ChainTypeOK'
  <2>1. \A d \in Contracts : cursors'[d] <= Len(chainLog'[d])
    BY <1>1, <1>4 DEF ChainInv, ChainTypeOK
  <2>2. \A x \in examined : x[2] <= Len(chainLog'[x[1]])
    BY <1>4, <1>5
  <2>3. QED
    BY <1>1, <1>3, <1>5, <2>1, <2>2 DEF ChainInv, ChainTypeOK, E
<1>7. AnswersOK'
  <2>1. \A d \in Contracts : req[d].upto \in Nat
    BY DEF ChainInv, ChainTypeOK
  <2>2. QED
    BY <1>1, <1>4, <2>1 DEF ChainInv, AnswersOK
<1>8. NoneAhead' /\ ExaminedExactlyOnce'
  BY <1>1 DEF ChainInv, NoneAhead, LogsExamined, ExaminedExactlyOnce
<1>9. MintsAlerted'
  <2>1. \A x \in examined : chainLog'[x[1]][x[2]] = chainLog[x[1]][x[2]]
    BY <1>4, <1>5
  <2>2. QED
    BY <1>1, <2>1 DEF ChainInv, LogsExamined, MintsAlerted, Ev
<1>10. QED
  BY <1>6, <1>7, <1>8, <1>9 DEF ChainInv, LogsExamined

\* Whatever pages the RPC serves, everything behind a cursor that no page
\* skipped was examined, once where none was repeated, and every decoded mint
\* among it is alerted, although either request of a round may fail after the
\* other was answered (monitor.js:156-227).
THEOREM LogsCorrect == MonitorSpec => []LogsExamined
<1>1. MonitorInit => ChainInv
  BY InitChain
<1>2. ChainInv /\ [MonitorNext]_chain_vars => ChainInv'
  <2>1. ASSUME ChainInv, MonitorNext PROVE ChainInv'
    BY <2>1, AskChain, DoneChain, EmitChain DEF MonitorNext
  <2>2. ASSUME ChainInv, UNCHANGED chain_vars PROVE ChainInv'
    BY <2>2 DEF chain_vars, config, history, ChainInv, ChainTypeOK, AnswersOK, NoneAhead,
                LogsExamined, ExaminedExactlyOnce, MintsAlerted, Ev
  <2>3. QED
    BY <2>1, <2>2
<1>3. ChainInv => LogsExamined
  BY DEF ChainInv
<1>4. QED
  BY <1>1, <1>2, <1>3, PTL DEF MonitorSpec

-----------------------------------------------------------------------------
(* backend/src                                                             *)

\* At most one element.
AtMostOne(S) == \A j, k \in S : j = k

\* Cardinality says the same.
LEMMA AtMostOneCard ==
  ASSUME NEW S, AtMostOne(S)
  PROVE  Cardinality(S) <= 1
<1>1. CASE S = {}
  BY <1>1, FS_EmptySet
<1>2. ASSUME NEW x \in S PROVE Cardinality(S) <= 1
  <2>1. S = {x}
    BY DEF AtMostOne
  <2>2. Cardinality(S) = 1
    BY <2>1, FS_Singleton, Zenon
  <2>3. QED
    BY <2>2
<1>3. QED
  BY <1>1, <1>2

\* With start() called at rest only: one chain, whose timer is the one that
\* this.timer remembers, and a chain that outlives stop() is in midStop.
OneChain ==
  /\ AtMostOne(Live)
  /\ \A k \in Chains : chain[k] = "timer" => timer = k
  /\ ~running => Live \subseteq midStop

BackendInv == chain \in [Chains -> {"free", "poll", "deliver", "timer"}]
              /\ (~overStarted => OneChain)

\* What stop() and a signal do: the timer is cleared, so what is still live
\* is in flight.
LEMMA StopBackend ==
  ASSUME BackendInv, chain' = ClearTimer, timer' = timer,
         midStop' = (midStop \cup InFlight) \ Cleared, overStarted' = overStarted
  PROVE  BackendInv'
<1>1. chain' \in [Chains -> {"free", "poll", "deliver", "timer"}]
  BY DEF BackendInv, ClearTimer
<1>2. \A k \in Chains : chain'[k] \in {"free", chain[k]}
  BY DEF BackendInv, ClearTimer
<1>3. ASSUME ~overStarted' PROVE OneChain'
  <2>1. OneChain
    BY <1>3 DEF BackendInv
  <2>2. Live' \subseteq Live
    BY <1>2 DEF Live
  <2>3. \A k \in Chains : chain'[k] # "timer"
    BY <1>2, <2>1, BackendAssumption DEF BackendInv, OneChain, ClearTimer
  <2>4. Live' \subseteq InFlight
    BY <1>2, <2>3 DEF Live, InFlight, BackendInv
  <2>5. Live' \cap Cleared = {}
    BY DEF Live, Cleared
  <2>6. QED
    BY <2>1, <2>2, <2>3, <2>4, <2>5 DEF OneChain, AtMostOne
<1>4. QED
  BY <1>1, <1>3 DEF BackendInv

\* start() at rest finds no chain.
LEMMA StartBackend ==
  ASSUME BackendInv, NEW k \in Chains, start(k)
  PROVE  BackendInv'
<1>1. /\ running' = TRUE /\ chain' = [chain EXCEPT ![k] = "poll"]
      /\ overStarted' = (overStarted \/ running \/ midStop # {})
      /\ UNCHANGED <<midStop, timer>>
  BY DEF start
<1>2. chain' \in [Chains -> {"free", "poll", "deliver", "timer"}]
  BY <1>1 DEF BackendInv
<1>3. ASSUME ~overStarted' PROVE OneChain'
  <2>1. OneChain /\ ~running /\ midStop = {}
    BY <1>1, <1>3 DEF BackendInv
  <2>2. \A j \in Chains : chain[j] = "free"
    BY <2>1 DEF OneChain, Live
  <2>3. \A j \in Chains : chain'[j] = IF j = k THEN "poll" ELSE "free"
    BY <1>1, <2>2 DEF BackendInv
  <2>4. QED
    BY <1>1, <2>3 DEF OneChain, AtMostOne, Live
<1>4. QED
  BY <1>2, <1>3 DEF BackendInv

\* A chain goes on or ends; the timer it sets is remembered.
LEMMA LoopBackend ==
  ASSUME BackendInv, NEW k \in Chains, LoopStep(k) \/ PollFailure(k)
  PROVE  BackendInv'
<1>1. UNCHANGED <<running, overStarted>>
  BY DEF LoopStep, pollEvents, deliverWebhook, Reschedule, tick, PollFailure
<1>2. CASE pollEvents(k) \/ PollFailure(k)
  <2>1. chain[k] = "poll" /\ chain' = [chain EXCEPT ![k] = "deliver"] /\ UNCHANGED <<timer, midStop>>
    BY <1>2 DEF pollEvents, PollFailure
  <2>2. Live' = Live
    BY <2>1 DEF BackendInv, Live
  <2>3. QED
    BY <1>1, <2>1, <2>2 DEF BackendInv, OneChain
<1>3. CASE deliverWebhook(k)
  <2>1. UNCHANGED <<chain, timer, midStop>>
    BY <1>3 DEF deliverWebhook
  <2>2. QED
    BY <1>1, <2>1 DEF BackendInv, OneChain, Live
<1>4. CASE Reschedule(k)
  <2>1. /\ chain[k] = "deliver" /\ chain' = [chain EXCEPT ![k] = "timer"]
        /\ timer' = k /\ midStop' = midStop
    BY <1>4 DEF Reschedule
  <2>2. Live' = Live /\ k \in Live
    BY <2>1 DEF BackendInv, Live
  <2>3. ASSUME OneChain PROVE \A j \in Chains : chain'[j] = "timer" => j = k
    BY <2>1, <2>2, <2>3 DEF BackendInv, OneChain, AtMostOne, Live
  <2>4. QED
    BY <1>1, <2>1, <2>2, <2>3 DEF BackendInv, OneChain
<1>5. CASE tick(k)
  <2>1. /\ chain[k] = "timer" /\ chain' = [chain EXCEPT ![k] = AfterTimer]
        /\ midStop' = midStop \ (IF AfterTimer = "free" THEN {k} ELSE {})
        /\ timer' = timer
    BY <1>5 DEF tick
  <2>2. CASE running
    <3>1. chain' = [chain EXCEPT ![k] = "poll"] /\ midStop' = midStop
      BY <2>1, <2>2 DEF AfterTimer
    <3>2. Live' = Live
      BY <2>1, <3>1 DEF BackendInv, Live
    <3>3. QED
      BY <1>1, <2>1, <2>2, <3>1, <3>2 DEF BackendInv, OneChain
  <2>3. CASE ~running
    <3>1. chain' = [chain EXCEPT ![k] = "free"] /\ midStop' = midStop \ {k}
      BY <2>1, <2>3 DEF AfterTimer
    <3>2. Live' = Live \ {k}
      BY <3>1 DEF BackendInv, Live
    <3>3. QED
      BY <1>1, <2>1, <3>1, <3>2 DEF BackendInv, OneChain, AtMostOne
  <2>4. QED
    BY <2>2, <2>3
<1>6. QED
  BY <1>2, <1>3, <1>4, <1>5 DEF LoopStep

\* However polls, deliveries, signals and calls of stop() interleave, there is
\* one chain of ticks as long as start() is called only at rest
\* (notificationService.ts start, stop, tick).
THEOREM SingleLoopCorrect == BackendSpec => []SingleLoop
<1>1. BackendInit => BackendInv
  BY DEF BackendInit, BackendInv, OneChain, AtMostOne, Live
<1>2. BackendInv /\ [BackendNext]_backend_vars => BackendInv'
  <2>1. ASSUME BackendInv, BackendNext PROVE BackendInv'
    <3>1. CASE stop \/ shutdown
      BY <2>1, <3>1, StopBackend DEF stop, shutdown
    <3>2. CASE Exit
      BY <2>1, <3>2 DEF Exit, BackendInv, OneChain, AtMostOne, Live
    <3>3. CASE BackendEmit
      BY <2>1, <3>3 DEF BackendEmit, BackendInv, OneChain, AtMostOne, Live
    <3>4. QED
      BY <2>1, <3>1, <3>2, <3>3, StartBackend, LoopBackend DEF BackendNext
  <2>2. ASSUME BackendInv, UNCHANGED backend_vars PROVE BackendInv'
    BY <2>2 DEF backend_vars, BackendInv, OneChain, AtMostOne, Live
  <2>3. QED
    BY <2>1, <2>2
<1>3. BackendInv => SingleLoop
  BY AtMostOneCard DEF BackendInv, OneChain, SingleLoop
<1>4. QED
  BY <1>1, <1>2, <1>3, PTL DEF BackendSpec

-----------------------------------------------------------------------------
(* scripts/inspect-state.js                                                *)

InspectTypeOK ==
  /\ created \in Nat /\ icount \in Nat /\ inext \in Nat
  /\ ilist \in Seq(Int)

\* The ids asked for so far are those from FirstId on, all of them listed but
\* perhaps the last, icount, which need not exist.
ListSoFar ==
  LET first == FirstId(icount) IN
    /\ icount <= created
    /\ inext \in first..(icount + 1)
    /\ Len(ilist) \in {inext - first, inext - first - 1}
    /\ inext <= icount => Len(ilist) = inext - first
    /\ \A i \in 1..Len(ilist) : ilist[i] = first + i - 1

InspectInv ==
  /\ InspectTypeOK
  /\ istage = "count" => ilist = <<>>
  /\ istage = "list" => ListSoFar
  /\ istage = "printed" => ListSoFar /\ inext = icount + 1

\* The first id asked for lies at most LIMIT before the end.
LEMMA FirstIdRange ==
  ASSUME NEW n \in Nat
  PROVE  FirstId(n) \in 1..(n + 1) /\ FirstId(n) >= n - LIMIT + 1
BY InspectAssumption DEF FirstId

\* One view call: an id below the count read exists by now.
LEMMA GetProposalInspect ==
  ASSUME InspectInv, GetProposal
  PROVE  InspectInv'
<1> DEFINE first == FirstId(icount)
<1>1. /\ istage = "list" /\ inext <= icount /\ inext' = inext + 1
      /\ ilist' = IF inext < created THEN Append(ilist, inext) ELSE ilist
      /\ UNCHANGED <<created, istage, icount>>
  BY DEF GetProposal
<1>2. /\ created \in Nat /\ icount \in Nat /\ inext \in Nat /\ ilist \in Seq(Int)
      /\ first \in 1..(icount + 1) /\ icount <= created /\ inext \in first..(icount + 1)
      /\ Len(ilist) = inext - first /\ Len(ilist) \in Nat
      /\ \A i \in 1..Len(ilist) : ilist[i] = first + i - 1
  BY <1>1, FirstIdRange DEF InspectInv, InspectTypeOK, ListSoFar
<1>3. first' = first
  BY <1>1 DEF FirstId
<1>4. InspectTypeOK'
  BY <1>1, <1>2 DEF InspectTypeOK
<1> HIDE DEF first
<1>5. CASE inext < created
  <2>1. ilist' = Append(ilist, inext)
    BY <1>1, <1>5
  <2>2. /\ Len(ilist') = Len(ilist) + 1 /\ ilist'[Len(ilist) + 1] = inext
        /\ \A i \in 1..Len(ilist) : ilist'[i] = ilist[i]
    <3>1. ilist \in Seq(Int) /\ inext \in Int
      BY <1>2
    <3>2. QED
      BY <2>1, <3>1
  <2>3. \A i \in 1..Len(ilist') : ilist'[i] = first + i - 1
    BY <1>2, <2>2
  <2>4. Len(ilist') = inext' - first /\ inext' \in first..(icount + 1)
    BY <1>1, <1>2, <2>2
  <2>5. ListSoFar'
    BY <1>1, <1>2, <1>3, <2>3, <2>4 DEF ListSoFar, first
  <2>6. QED
    BY <1>1, <1>4, <2>5 DEF InspectInv
<1>6. CASE ~(inext < created)
  <2>1. inext = icount /\ ilist' = ilist
    BY <1>1, <1>2, <1>6
  <2>2. Len(ilist') = inext' - first - 1 /\ inext' \in first..(icount + 1) /\ ~(inext' <= icount)
    BY <1>1, <1>2, <2>1
  <2>3. ListSoFar'
    BY <1>1, <1>2, <1>3, <2>1, <2>2 DEF ListSoFar, first
  <2>4. QED
    BY <1>1, <1>4, <2>3 DEF InspectInv
<1>7. QED
  BY <1>5, <1>6

\* The other steps.
LEMMA NextInspect ==
  ASSUME InspectInv, [InspectNext]_inspect_vars
  PROVE  InspectInv'
<1>1. CASE create_proposal
  BY <1>1 DEF create_proposal, InspectInv, InspectTypeOK, ListSoFar, FirstId
<1>2. CASE RunCommand
  BY <1>2 DEF RunCommand, InspectInv, InspectTypeOK
<1>3. CASE ReadCount
  <2>1. /\ istage = "count" /\ istage' = "list" /\ icount' = created
        /\ inext' = FirstId(created) /\ UNCHANGED <<created, ilist>> /\ ilist = <<>>
    BY <1>3 DEF ReadCount, InspectInv
  <2>2. created \in Nat /\ FirstId(created) \in 1..(created + 1)
    BY FirstIdRange DEF InspectInv, InspectTypeOK
  <2>3. FirstId(icount)' = FirstId(created) /\ Len(ilist') = 0
    BY <2>1 DEF FirstId
  <2>4. ListSoFar'
    BY <2>1, <2>2, <2>3 DEF ListSoFar
  <2>5. QED
    BY <2>1, <2>2, <2>4 DEF InspectInv, InspectTypeOK
<1>4. CASE printProposals
  <2>1. /\ istage = "list" /\ istage' = "printed" /\ inext > icount
        /\ UNCHANGED <<created, icount, inext, ilist>>
    BY <1>4 DEF printProposals
  <2>2. inext = icount + 1
    BY <2>1, FirstIdRange DEF InspectInv, InspectTypeOK, ListSoFar
  <2>3. QED
    BY <2>1, <2>2 DEF InspectInv, InspectTypeOK, ListSoFar, FirstId
<1>5. CASE ViewFails
  BY <1>5 DEF ViewFails, InspectInv, InspectTypeOK
<1>6. CASE UNCHANGED inspect_vars
  BY <1>6 DEF inspect_vars, InspectInv, InspectTypeOK, ListSoFar, FirstId
<1>7. QED
  BY <1>1, <1>2, <1>3, <1>4, <1>5, <1>6, GetProposalInspect DEF InspectNext

\* What is printed are consecutive proposals up to the count that was read,
\* and at most LIMIT of them, whatever is created meanwhile
\* (inspect-state.js fetchProposals).
THEOREM ListingCorrect == InspectSpec => []ListingIsRecent
<1>1. InspectInit => InspectInv
  BY DEF InspectInit, InspectInv, InspectTypeOK
<1>2. InspectInv /\ [InspectNext]_inspect_vars => InspectInv'
  BY NextInspect
<1>3. InspectInv => ListingIsRecent
  <2>1. SUFFICES ASSUME InspectInv, istage = "printed" PROVE ListingIsRecent
    BY DEF ListingIsRecent
  <2> DEFINE first == FirstId(icount)
  <2>2. /\ icount \in Nat /\ ilist \in Seq(Int) /\ Len(ilist) \in Nat
        /\ first \in 1..(icount + 1) /\ first >= icount - LIMIT + 1
        /\ Len(ilist) \in {icount + 1 - first, icount - first}
        /\ \A i \in 1..Len(ilist) : ilist[i] = first + i - 1
    <3>1. /\ icount \in Nat /\ ilist \in Seq(Int) /\ inext = icount + 1 /\ ListSoFar
      BY <2>1 DEF InspectInv, InspectTypeOK
    <3>2. first \in 1..(icount + 1) /\ first >= icount - LIMIT + 1
      BY <3>1, FirstIdRange
    <3>3. /\ Len(ilist) \in {inext - first, inext - first - 1}
          /\ \A i \in 1..Len(ilist) : ilist[i] = first + i - 1
      BY <3>1 DEF ListSoFar
    <3> HIDE DEF first
    <3>4. QED
      BY <3>1, <3>2, <3>3
  <2>3. (icount > 1 /\ LIMIT > 1) => first < icount
    BY <2>2, InspectAssumption DEF FirstId
  <2> HIDE DEF first
  <2>4. ASSUME NEW i \in 1..(Len(ilist) - 1) PROVE ilist[i + 1] = ilist[i] + 1
    <3>1. i \in 1..Len(ilist) /\ i + 1 \in 1..Len(ilist)
      BY <2>2
    <3>2. ilist[i] = first + i - 1 /\ ilist[i + 1] = first + (i + 1) - 1
      BY <2>2, <3>1
    <3>3. QED
      BY <2>2, <3>1, <3>2
  <2>5. Len(ilist) <= LIMIT
    BY <2>2, InspectAssumption
  <2>6. ilist # <<>> => Last(ilist) \in {icount - 1, icount}
    <3>1. ASSUME ilist # <<>> PROVE Last(ilist) = first + Len(ilist) - 1
      BY <2>2, <3>1 DEF Last
    <3>2. QED
      BY <2>2, <3>1
  <2>7. (icount > 1 /\ LIMIT > 1) => ilist # <<>>
    BY <2>2, <2>3
  <2>8. QED
    BY <2>4, <2>5, <2>6, <2>7 DEF ListingIsRecent
<1>4. QED
  BY <1>1, <1>2, <1>3, PTL DEF InspectSpec
=============================================================================
