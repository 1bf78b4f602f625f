--------------------------- MODULE WatcherProofs ---------------------------
(***************************************************************************)
(* Theorems about the notification service, for every set of events and    *)
(* subscribers, every page size and every number of crashes.               *)
(***************************************************************************)
EXTENDS Watcher, WellFoundedInduction, TLAPS

Store == [subs : SUBSET Subs, cursor : 0..Len(log)]

\* The types of what the cursor passes through: file, updates and page.
WTypeOK ==
  /\ log \in Seq(Events)
  /\ file \in [ok : BOOLEAN, subs : SUBSET Subs, cursor : 0..Len(log)]
  /\ update \in [Processes -> [stage : {"none", "loaded", "torn"},
                               base : Store, new : Store]]
  /\ page \in [queue : SUBSET (1..Len(log)), next : 0..Len(log)]

\* Every tracked event up to c has been delivered, or is in the set Q.
Covered(c, Q) == \A i \in 1..c : parseEvent(i) => i \in settled \cup Q

\* Every value that is, or may become, the cursor of the file is covered: the
\* file's, those of updates under way, and the page's end but for its queue.
WInv ==
  /\ WTypeOK
  /\ Covered(file.cursor, {})
  /\ \A p \in Processes : Covered(update[p].new.cursor, {})
  /\ pc = "fetch" => Covered(page.next, {})
  /\ pc \in {"ready", "sending"} => Covered(page.next, page.queue)

-----------------------------------------------------------------------------
\* What load returns is a store whose cursor is covered.
LEMMA LoadCovered ==
  ASSUME WInv
  PROVE  load \in Store /\ Covered(load.cursor, {})
BY DEF WInv, WTypeOK, load, Content, EmptyStore, Store, Covered

\* Nothing is logged, and cursor 0 covers nothing.
LEMMA InitWInv == Init => WInv
<1>1. SUFFICES ASSUME Init PROVE WInv
  OBVIOUS
<1>2. WTypeOK
  BY <1>1 DEF Init, WTypeOK, Idle, EmptyStore, NoPage, Store, Processes
<1>3. QED
  BY <1>1, <1>2 DEF Init, WInv, Idle, EmptyStore, NoPage, Covered, Processes

-----------------------------------------------------------------------------
(* The steps, sorted by what they do to the file, the updates and the page. *)

\* Steps that touch none of them but for the watcher's place in its loop.
LEMMA LoopWInv ==
  ASSUME WInv,
         \/ processEvent \/ FetchFails \/ startWatcher
         \/ (\E x \in pending : SendSettles(x))
  PROVE  WInv'
<1>1. UNCHANGED <<log, file, update, settled>>
  BY DEF processEvent, FetchFails, startWatcher, SendSettles, history
<1>2. CASE processEvent
  BY <1>1, <1>2 DEF WInv, WTypeOK, Store, Covered, parseEvent, processEvent
<1>3. CASE FetchFails
  BY <1>1, <1>3 DEF WInv, WTypeOK, Store, Covered, parseEvent, FetchFails, NoPage
<1>4. CASE startWatcher
  BY <1>1, <1>4 DEF WInv, WTypeOK, Store, Covered, parseEvent, startWatcher
<1>5. CASE \E x \in pending : SendSettles(x)
  BY <1>1, <1>5 DEF WInv, WTypeOK, Store, Covered, parseEvent, SendSettles
<1>6. QED
  BY <1>2, <1>3, <1>4, <1>5

\* A poll starts from a covered cursor, and the page it fetches leaves
\* exactly its own tracked events to deliver.
LEMMA FetchWInv ==
  ASSUME WInv, Poll \/ fetchNewEvents
  PROVE  WInv'
<1>1. UNCHANGED <<log, file, update, settled>>
  BY DEF Poll, fetchNewEvents, history
<1>2. CASE Poll
  <2>1. load \in Store /\ Covered(load.cursor, {})
    BY LoadCovered
  <2>2. page' = [queue |-> {}, next |-> load.cursor] /\ pc' = "fetch"
    BY <1>2 DEF Poll
  <2>3. QED
    BY <1>1, <2>1, <2>2 DEF WInv, WTypeOK, Store, Covered, parseEvent
<1>3. CASE fetchNewEvents
  <2> DEFINE c == page.next
  <2>1. pc = "fetch" /\ c \in 0..Len(log) /\ Len(log) \in Nat /\ Covered(c, {})
    BY <1>3 DEF fetchNewEvents, WInv, WTypeOK
  <2>2. PageEnd(c) \in c..Len(log)
    BY <2>1, WatcherAssumption DEF PageEnd
  <2>3. PageEvents(c) \subseteq 1..Len(log)
    BY <2>1, <2>2 DEF PageEvents
  <2>4. Covered(PageEnd(c), PageEvents(c))
    BY <2>1, <2>2 DEF Covered, PageEvents
  <2>5. CASE PageEvents(c) # {}
    <3>1. page' = [queue |-> PageEvents(c), next |-> PageEnd(c)] /\ pc' = "ready"
      BY <1>3, <2>5 DEF fetchNewEvents, NextCursor
    <3>2. WTypeOK'
      BY <1>1, <2>1, <2>2, <2>3, <3>1 DEF WInv, WTypeOK, Store
    <3>3. QED
      BY <1>1, <2>4, <3>1, <3>2 DEF WInv, Covered, parseEvent
  <2>6. CASE PageEvents(c) = {}
    <3>1. page' = NoPage /\ pc' = "sleep"
      BY <1>3, <2>6 DEF fetchNewEvents
    <3>2. WTypeOK'
      BY <1>1, <2>1, <3>1 DEF WInv, WTypeOK, Store, NoPage
    <3>3. QED
      BY <1>1, <3>1, <3>2 DEF WInv, Covered, parseEvent
  <2>7. QED
    BY <2>5, <2>6
<1>4. QED
  BY <1>2, <1>3

\* An event leaves the queue of its page only into the settled ones.
LEMMA EventDoneWInv ==
  ASSUME WInv, EventDone
  PROVE  WInv'
<1>1. /\ UNCHANGED <<log, file, update>>
      /\ pc = "sending" /\ pc' = "ready"
      /\ settled' = settled \cup {Earliest(page.queue)}
      /\ page' = [page EXCEPT !.queue = @ \ {Earliest(page.queue)}]
  BY DEF EventDone
<1>2. WTypeOK'
  BY <1>1 DEF WInv, WTypeOK, Store
<1>3. QED
  BY <1>1, <1>2 DEF WInv, WTypeOK, Covered, parseEvent

\* An update takes a covered cursor: the one it loaded or, once the queue of
\* the page is empty, the page's end.
LEMMA BeginWInv ==
  ASSUME WInv,
         saveCursor \/ \E s \in Subs : addSubscriber(s) \/ removeSubscriber(s)
  PROVE  WInv'
<1>1. load \in Store /\ Covered(load.cursor, {})
  BY LoadCovered
<1>2. UNCHANGED <<log, file, page, pc, settled>>
  BY DEF saveCursor, addSubscriber, removeSubscriber, history
<1>3. PICK p \in Processes, new \in Store :
         /\ Covered(new.cursor, {})
         /\ update' = [update EXCEPT ![p] = [stage |-> "loaded", base |-> load, new |-> new]]
  <2>1. CASE saveCursor
    <3>1. page.next \in 0..Len(log) /\ Covered(page.next, {})
      BY <2>1 DEF saveCursor, PageDelivered, WInv, WTypeOK
    <3>2. CursorUpdate \in Store /\ CursorUpdate.cursor = page.next
      BY <1>1, <3>1 DEF CursorUpdate, Store
    <3>3. QED
      BY <2>1, <3>1, <3>2 DEF saveCursor, BeginUpdate, Processes
  <2>2. ASSUME NEW s \in Subs, addSubscriber(s) \/ removeSubscriber(s)
        PROVE  \E p \in Processes, new \in Store :
                  /\ Covered(new.cursor, {})
                  /\ update' = [update EXCEPT ![p] =
                        [stage |-> "loaded", base |-> load, new |-> new]]
    <3> DEFINE add == [load EXCEPT !.subs = @ \cup {s}]
               remove == [load EXCEPT !.subs = @ \ {s}]
    <3>1. /\ add \in Store /\ add.cursor = load.cursor
          /\ remove \in Store /\ remove.cursor = load.cursor
      BY <1>1 DEF Store
    <3>2. QED
      BY <1>1, <2>2, <3>1 DEF addSubscriber, removeSubscriber, BeginUpdate, Processes
  <2>3. QED
    BY <2>1, <2>2
<1>4. WTypeOK'
  BY <1>1, <1>2, <1>3 DEF WInv, WTypeOK, Store
<1>5. \A q \in Processes : update'[q].new.cursor \in {update[q].new.cursor, new.cursor}
  BY <1>3 DEF WInv, WTypeOK
<1>6. QED
  BY <1>2, <1>3, <1>4, <1>5 DEF WInv, Covered, parseEvent

\* Writing the file gives it the cursor of an update, and ends the update.
LEMMA WriteWInv ==
  ASSUME WInv, NEW p \in Processes, Truncate(p) \/ save(p)
  PROVE  WInv'
<1>1. UNCHANGED <<log, settled>>
  BY DEF Truncate, save
<1>2. CASE Truncate(p)
  <2>1. /\ file' = [file EXCEPT !.ok = FALSE]
        /\ update' = [update EXCEPT ![p].stage = "torn"]
        /\ UNCHANGED <<page, pc>>
    BY <1>2 DEF Truncate
  <2>2. WTypeOK' /\ file'.cursor = file.cursor
    BY <1>1, <2>1 DEF WInv, WTypeOK, Store
  <2>3. \A q \in Processes : update'[q].new = update[q].new
    BY <2>1 DEF WInv, WTypeOK
  <2>4. QED
    BY <1>1, <2>1, <2>2, <2>3 DEF WInv, Covered, parseEvent
<1>3. CASE save(p)
  <2>1. /\ file' = [ok |-> TRUE, subs |-> update[p].new.subs, cursor |-> update[p].new.cursor]
        /\ update' = [update EXCEPT ![p] = Idle]
        /\ \/ pc' = "sleep" /\ page' = NoPage
           \/ UNCHANGED <<pc, page>>
    BY <1>3 DEF save
  <2>2. WTypeOK' /\ file'.cursor = update[p].new.cursor
    BY <1>1, <2>1 DEF WInv, WTypeOK, Store, Idle, EmptyStore, NoPage
  <2>3. \A q \in Processes : update'[q].new.cursor \in {update[q].new.cursor, 0}
    BY <2>1 DEF WInv, WTypeOK, Idle, EmptyStore
  <2>4. QED
    BY <1>1, <2>1, <2>2, <2>3 DEF WInv, Covered, parseEvent
<1>4. QED
  BY <1>2, <1>3

\* A crash or a failed save forgets; the file is as it was.
LEMMA FaultWInv ==
  ASSUME WInv, SaveFails \/ \E p \in Processes : Crash(p)
  PROVE  WInv'
<1>1. /\ UNCHANGED <<log, file, settled>>
      /\ \/ page' = NoPage /\ pc' \in {"sleep", "down"}
         \/ UNCHANGED <<page, pc>>
  BY DEF SaveFails, Crash
<1>2. PICK p \in Processes : update' = [update EXCEPT ![p] = Idle]
  BY DEF SaveFails, Crash, Processes
<1>3. WTypeOK'
  BY <1>1, <1>2 DEF WInv, WTypeOK, Store, Idle, EmptyStore, NoPage
<1>4. \A q \in Processes : update'[q].new.cursor \in {update[q].new.cursor, 0}
  BY <1>2 DEF WInv, WTypeOK, Idle, EmptyStore
<1>5. QED
  BY <1>1, <1>3, <1>4 DEF WInv, Covered, parseEvent

\* A new event lies behind every cursor.
LEMMA EmitWInv ==
  ASSUME WInv, NEW e \in Events, Emit(e)
  PROVE  WInv'
<1>1. /\ log' = Append(log, e)
      /\ UNCHANGED <<file, update, page, pc, settled>>
  BY DEF Emit, history
<1>2. /\ log' \in Seq(Events) /\ Len(log') = Len(log) + 1 /\ Len(log) \in Nat
      /\ \A i \in 1..Len(log) : log'[i] = log[i]
  BY <1>1 DEF WInv, WTypeOK
<1>3. WTypeOK'
  BY <1>1, <1>2 DEF WInv, WTypeOK, Store
<1>4. /\ file.cursor \in 0..Len(log) /\ page.next \in 0..Len(log)
      /\ \A p \in Processes : update[p].new.cursor \in 0..Len(log)
  BY DEF WInv, WTypeOK, Store
<1>5. QED
  BY <1>1, <1>2, <1>3, <1>4 DEF WInv, Covered, parseEvent

\* The invariant is inductive.
LEMMA NextWInv ==
  ASSUME WInv, [Next]_watcher_vars
  PROVE  WInv'
<1>1. CASE Next
  <2>1. CASE WatcherStep
    BY <2>1, LoopWInv, FetchWInv, EventDoneWInv, BeginWInv, WriteWInv DEF WatcherStep, Processes
  <2>2. CASE Faults
    BY <2>2, LoopWInv, FaultWInv DEF Faults
  <2>3. CASE Commands
    BY <2>3, BeginWInv, WriteWInv DEF Commands, Processes
  <2>4. CASE startWatcher
    BY <2>4, LoopWInv
  <2>5. CASE \E e \in Events : Emit(e)
    BY <2>5, EmitWInv
  <2>6. QED
    BY <1>1, <2>1, <2>2, <2>3, <2>4, <2>5 DEF Next
<1>2. CASE UNCHANGED watcher_vars
  BY <1>2 DEF watcher_vars, history, WInv, WTypeOK, Store, Covered, parseEvent
<1>3. QED
  BY <1>1, <1>2

-----------------------------------------------------------------------------
\* The cursor in the file never passes a tracked event whose notifications
\* have not all been attempted: a crash at any point, a failed fetch or save,
\* a torn file and a lost update can repeat deliveries and never skip one
\* (watcher.ts poll, subscriptions.ts).
THEOREM CursorCorrect == Spec => []CursorBehindDelivery
<1>1. Init => WInv
  BY InitWInv
<1>2. WInv /\ [Next]_watcher_vars => WInv'
  BY NextWInv
<1>3. WInv => CursorBehindDelivery
  BY DEF WInv, Covered, CursorBehindDelivery
<1>4. QED
  BY <1>1, <1>2, <1>3, PTL DEF Spec

-----------------------------------------------------------------------------
(* The file against the completed commands and saves.                      *)

Clean == faults \cap {"torn", "stale"} = {}

\* What Clean guarantees: the file's bytes, parseable or being rewritten, are
\* what the completed updates left; an update that has truncated the file
\* holds the latest content, and it is the only one; and each process changes
\* its own part of the store alone.
Untorn ==
  /\ file.subs = wanted /\ file.cursor = saved
  /\ \A p \in Processes : update[p].stage = "torn" => ~file.ok /\ update[p].base = Content
  /\ ~(update["watcher"].stage = "torn" /\ update["cli"].stage = "torn")
  /\ update["watcher"].stage # "none" =>
       update["watcher"].new.subs = update["watcher"].base.subs
  /\ update["cli"].stage # "none" =>
       update["cli"].new.cursor = update["cli"].base.cursor

SInv == Clean => Untorn

\* Nothing is stored at first.
LEMMA InitSInv == Init => SInv
BY DEF Init, SInv, Untorn, Idle, EmptyStore, Processes

\* Steps that leave the file, the updates and their history alone.
LEMMA IdleSInv ==
  ASSUME SInv, faults \subseteq faults', UNCHANGED <<file, update, wanted, saved>>
  PROVE  SInv'
BY DEF SInv, Clean, Untorn, Content

\* A load of a file that is parseable begins an update of one part of it.
LEMMA BeginSInv ==
  ASSUME WInv, SInv,
         saveCursor \/ \E s \in Subs : addSubscriber(s) \/ removeSubscriber(s)
  PROVE  SInv'
<1>1. /\ UNCHANGED <<file, wanted, saved>>
      /\ faults \subseteq faults'
  BY DEF saveCursor, addSubscriber, removeSubscriber, history
<1>2. SUFFICES ASSUME Clean' PROVE Untorn'
  BY DEF SInv
<1>3. Untorn
  BY <1>1, <1>2 DEF SInv, Clean
<1>4. load \in Store
  BY LoadCovered
<1>5. CASE saveCursor
  <2>1. /\ update' = [update EXCEPT !["watcher"] =
                        [stage |-> "loaded", base |-> load, new |-> CursorUpdate]]
        /\ CursorUpdate.subs = load.subs
    BY <1>4, <1>5 DEF saveCursor, BeginUpdate, CursorUpdate, Store
  <2>2. /\ update'["watcher"].stage = "loaded"
        /\ update'["watcher"].new.subs = update'["watcher"].base.subs
        /\ update'["cli"] = update["cli"]
    BY <2>1 DEF WInv, WTypeOK, Processes
  <2>3. QED
    BY <1>1, <1>3, <2>2 DEF Untorn, Content, Processes
<1>6. ASSUME NEW s \in Subs, addSubscriber(s) \/ removeSubscriber(s)
      PROVE  Untorn'
  <2>1. PICK new \in Store :
          /\ new.cursor = load.cursor
          /\ update' = [update EXCEPT !["cli"] =
                          [stage |-> "loaded", base |-> load, new |-> new]]
    <3> DEFINE add == [load EXCEPT !.subs = @ \cup {s}]
               remove == [load EXCEPT !.subs = @ \ {s}]
    <3>1. /\ add \in Store /\ add.cursor = load.cursor
          /\ remove \in Store /\ remove.cursor = load.cursor
      BY <1>4 DEF Store
    <3>2. QED
      BY <1>6, <3>1 DEF addSubscriber, removeSubscriber, BeginUpdate
  <2>2. /\ update'["cli"].stage = "loaded"
        /\ update'["cli"].new.cursor = update'["cli"].base.cursor
        /\ update'["watcher"] = update["watcher"]
    BY <2>1 DEF WInv, WTypeOK, Processes
  <2>3. QED
    BY <1>1, <1>3, <2>2 DEF Untorn, Content, Processes
<1>7. QED
  BY <1>5, <1>6

\* The file is truncated over the content the update had loaded.
LEMMA TruncateSInv ==
  ASSUME WInv, SInv, NEW p \in Processes, Truncate(p)
  PROVE  SInv'
<1>1. /\ UNCHANGED <<wanted, saved>> /\ faults \subseteq faults'
      /\ file' = [file EXCEPT !.ok = FALSE]
      /\ update' = [update EXCEPT ![p].stage = "torn"]
      /\ update[p].stage = "loaded"
  BY DEF Truncate
<1>2. SUFFICES ASSUME Clean' PROVE Untorn'
  BY DEF SInv
<1>3. Untorn
  BY <1>1, <1>2 DEF SInv, Clean
<1>4. file.ok /\ Content = update[p].base
  BY <1>2 DEF Truncate, Clean
<1>5. ~file'.ok /\ file'.subs = file.subs /\ file'.cursor = file.cursor
  BY <1>1 DEF WInv, WTypeOK
<1>6. /\ update'[p].stage = "torn"
      /\ update'[p].base = update[p].base /\ update'[p].new = update[p].new
      /\ \A q \in Processes \ {p} : update'[q] = update[q]
  BY <1>1 DEF WInv, WTypeOK
<1>7. \A q \in Processes : update[q].stage # "torn"
  BY <1>3, <1>4 DEF Untorn
<1>8. Content' = Content
  BY <1>5 DEF Content
<1>9. QED
  BY <1>1, <1>3, <1>4, <1>5, <1>6, <1>7, <1>8 DEF Untorn, Processes

\* The write completes: the file is the content the update had loaded but for
\* the part it changed, and the history follows.
LEMMA SaveSInv ==
  ASSUME WInv, SInv, NEW p \in Processes, save(p)
  PROVE  SInv'
<1>1. /\ faults \subseteq faults' /\ update[p].stage = "torn"
      /\ file' = [ok |-> TRUE, subs |-> update[p].new.subs, cursor |-> update[p].new.cursor]
      /\ update' = [update EXCEPT ![p] = Idle]
  BY DEF save
<1>2. SUFFICES ASSUME Clean' PROVE Untorn'
  BY DEF SInv
<1>3. Untorn
  BY <1>1, <1>2 DEF SInv, Clean
<1>4. update[p].base.subs = wanted /\ update[p].base.cursor = saved
  BY <1>1, <1>3 DEF Untorn, Content
<1>5. \A q \in Processes : update'[q] = IF q = p THEN Idle ELSE update[q]
  BY <1>1 DEF WInv, WTypeOK
<1>6. \A q \in Processes : update'[q].stage # "torn"
  BY <1>1, <1>3, <1>5 DEF Untorn, Processes, Idle
<1>7. file'.subs = wanted' /\ file'.cursor = saved'
  <2>1. CASE p = "watcher"
    <3>1. saved' = update[p].new.cursor /\ wanted' = wanted
      BY <2>1 DEF save
    <3>2. update[p].new.subs = update[p].base.subs
      BY <1>1, <1>3, <2>1 DEF Untorn
    <3>3. QED
      BY <1>1, <1>4, <3>1, <3>2
  <2>2. CASE p = "cli"
    <3>1. /\ saved' = saved
          /\ wanted' = (wanted \cup (update[p].new.subs \ update[p].base.subs))
                       \ (update[p].base.subs \ update[p].new.subs)
      BY <2>2 DEF save
    <3>2. update[p].new.cursor = update[p].base.cursor
      BY <1>1, <1>3, <2>2 DEF Untorn
    <3>3. wanted' = update[p].new.subs
      BY <1>4, <3>1
    <3>4. QED
      BY <1>1, <1>4, <3>1, <3>2, <3>3
  <2>3. QED
    BY <2>1, <2>2 DEF Processes
<1>8. QED
  BY <1>3, <1>5, <1>6, <1>7 DEF Untorn, Processes, Idle

\* A process that dies or gives up leaves the bytes of the file as they are.
LEMMA DropSInv ==
  ASSUME WInv, SInv, SaveFails \/ \E p \in Processes : Crash(p)
  PROVE  SInv'
<1>1. UNCHANGED <<file, wanted, saved>> /\ faults \subseteq faults'
  BY DEF SaveFails, Crash
<1>2. PICK p \in Processes : update' = [update EXCEPT ![p] = Idle]
  BY DEF SaveFails, Crash, Processes
<1>3. \A q \in Processes : update'[q] \in {update[q], Idle}
  BY <1>2 DEF WInv, WTypeOK
<1>4. QED
  BY <1>1, <1>3 DEF SInv, Clean, Untorn, Content, Idle, Processes

\* SInv is inductive, given WInv.
LEMMA NextSInv ==
  ASSUME WInv, SInv, [Next]_watcher_vars
  PROVE  SInv'
<1>1. CASE Next
  <2>1. CASE WatcherStep
    <3>1. CASE \/ Poll \/ fetchNewEvents \/ processEvent \/ EventDone
               \/ \E x \in pending : SendSettles(x)
      BY <3>1, IdleSInv
        DEF Poll, fetchNewEvents, processEvent, EventDone, SendSettles, history
    <3>2. QED
      BY <2>1, <3>1, BeginSInv, TruncateSInv, SaveSInv DEF WatcherStep, Processes
  <2>2. CASE Faults
    <3>1. CASE FetchFails
      BY <3>1, IdleSInv DEF FetchFails, history
    <3>2. QED
      BY <2>2, <3>1, DropSInv DEF Faults
  <2>3. CASE Commands
    BY <2>3, BeginSInv, TruncateSInv, SaveSInv DEF Commands, Processes
  <2>4. CASE startWatcher \/ \E e \in Events : Emit(e)
    BY <2>4, IdleSInv DEF startWatcher, Emit, history
  <2>5. QED
    BY <1>1, <2>1, <2>2, <2>3, <2>4 DEF Next
<1>2. CASE UNCHANGED watcher_vars
  BY <1>2, IdleSInv DEF watcher_vars, history
<1>3. QED
  BY <1>1, <1>2

\* The subscriptions file holds what the completed commands and polls left in
\* it as long as no load met a half-written file and no update was overtaken
\* by another's, wherever processes crash or saves fail (subscriptions.ts).
THEOREM StoreCorrect == Spec => []StoreExact
<1>1. Init => WInv /\ SInv
  BY InitWInv, InitSInv
<1>2. WInv /\ SInv /\ [Next]_watcher_vars => (WInv /\ SInv)'
  BY NextWInv, NextSInv
<1>3. SInv => StoreExact
  BY DEF SInv, Clean, Untorn, StoreExact
<1>4. QED
  BY <1>1, <1>2, <1>3, PTL DEF Spec

-----------------------------------------------------------------------------
(* At most once.                                                           *)

\* A nonempty set of positions has an earliest one.
LEMMA EarliestIn ==
  ASSUME NEW Q, Q \subseteq Nat, Q # {}
  PROVE  Earliest(Q) \in Q
<1> DEFINE R == {ss \in Nat \X Nat : ss[1] < ss[2]}
<1>1. IsWellFoundedOn(R, Nat)
  BY NatLessThanWellFounded, Zenon DEF OpToRel
<1>2. PICK i \in Q : \A j \in Q : ~(<<j, i>> \in R)
  BY <1>1, WFMin, Zenon
<1>3. ASSUME NEW j \in Q PROVE i <= j
  <2>1. i \in Nat /\ j \in Nat /\ ~(<<j, i>> \in R)
    BY <1>2
  <2>2. ~(j < i)
    BY <2>1
  <2>3. QED
    BY <2>1, <2>2
<1>4. QED
  BY <1>3 DEF Earliest

\* A notification is a send for the event it is about.
LEMMA NotifyIndex ==
  ASSUME NEW i, NEW x \in notify(i)
  PROVE  x[1] = i
BY DEF notify

\* A send already made is for an event the saved cursor has passed, or for
\* one of the current page that has left its queue or is being delivered.
Done(x) ==
  \/ x[1] <= saved
  \/ /\ pc \in {"ready", "sending"} /\ x[1] <= page.next
     /\ x[1] \notin page.queue \/ (pc = "sending" /\ x[1] = Earliest(page.queue))

\* Without a fault the watcher's page starts where the saved cursor stands,
\* and a cursor on its way to the file is the end of a page delivered whole.
InOrder ==
  /\ again = {}
  /\ saved \in Nat /\ page.next \in Nat
  /\ \A x \in sent : x[1] \in Nat /\ Done(x)
  /\ pc = "fetch" => page.next = saved
  /\ pc \in {"ready", "sending"} =>
       saved <= page.next /\ page.queue \subseteq (saved + 1)..page.next
  /\ update["watcher"].stage # "none" =>
       /\ pc = "ready" /\ page.queue = {}
       /\ update["watcher"].new.cursor = page.next

OInv == faults = {} => InOrder

\* Nothing has been sent at first.
LEMMA InitOInv == Init => OInv
BY DEF Init, OInv, InOrder, Idle, NoPage, Processes

\* Steps in which the watcher's loop stands still.
LEMMA StillOInv ==
  ASSUME OInv, faults \subseteq faults', update'["watcher"] = update["watcher"],
         UNCHANGED <<pc, page, saved, sent, again>>
  PROVE  OInv'
BY DEF OInv, InOrder, Done

\* A poll starts from the cursor last saved, for that is what the file holds,
\* and the page it fetches lies behind it.
LEMMA FetchOInv ==
  ASSUME WInv, SInv, OInv, Poll \/ fetchNewEvents \/ FetchFails
  PROVE  OInv'
<1>1. SUFFICES ASSUME faults' = {} PROVE InOrder'
  BY DEF OInv
<1>2. /\ UNCHANGED <<update, saved, sent, again>>
      /\ faults = {} /\ pc \in {"sleep", "fetch"}
  BY <1>1 DEF Poll, fetchNewEvents, FetchFails, history
<1>3. InOrder /\ \A x \in sent : x[1] <= saved
  BY <1>2 DEF OInv, InOrder, Done
<1>4. update'["watcher"].stage = "none"
  BY <1>2, <1>3 DEF InOrder
<1>5. CASE Poll
  <2>1. file.ok /\ page' = [queue |-> {}, next |-> load.cursor] /\ pc' = "fetch"
    BY <1>1, <1>5 DEF Poll, TornRead
  <2>2. load.cursor = saved
    BY <1>2, <2>1 DEF load, Content, SInv, Clean, Untorn
  <2>3. QED
    BY <1>2, <1>3, <1>4, <2>1, <2>2 DEF InOrder, Done
<1>6. CASE FetchFails \/ (fetchNewEvents /\ PageEvents(page.next) = {})
  <2>1. pc' = "sleep" /\ page' = NoPage
    BY <1>6 DEF FetchFails, fetchNewEvents
  <2>2. QED
    BY <1>2, <1>3, <1>4, <2>1 DEF InOrder, Done, NoPage
<1>7. CASE fetchNewEvents /\ PageEvents(page.next) # {}
  <2>1. /\ pc = "fetch" /\ pc' = "ready"
        /\ page' = [queue |-> PageEvents(page.next), next |-> PageEnd(page.next)]
    BY <1>7 DEF fetchNewEvents, NextCursor
  <2>2. page.next = saved /\ page.next \in 0..Len(log) /\ Len(log) \in Nat
    BY <1>3, <2>1 DEF InOrder, WInv, WTypeOK
  <2>3. PageEnd(page.next) \in page.next..Len(log)
    BY <2>2, WatcherAssumption DEF PageEnd
  <2>4. PageEvents(page.next) \subseteq (saved + 1)..PageEnd(page.next)
    BY <2>2 DEF PageEvents
  <2>5. QED
    BY <1>2, <1>3, <1>4, <2>1, <2>2, <2>3, <2>4 DEF InOrder, Done
<1>8. QED
  BY <1>5, <1>6, <1>7

\* The event taken from the queue has had no send before: those made are for
\* events outside the queue.
LEMMA ProcessOInv ==
  ASSUME OInv, processEvent
  PROVE  OInv'
<1>1. SUFFICES ASSUME faults' = {} PROVE InOrder'
  BY DEF OInv
<1> DEFINE i == Earliest(page.queue)
<1>2. /\ UNCHANGED <<update, saved, page>>
      /\ faults = {} /\ pc = "ready" /\ pc' = "sending" /\ page.queue # {}
      /\ sent' = sent \cup notify(i) /\ again' = again \cup (sent \cap notify(i))
  BY <1>1 DEF processEvent
<1>3. InOrder
  BY <1>2 DEF OInv
<1>4. /\ i \in page.queue /\ i \in (saved + 1)..page.next
      /\ saved \in Nat /\ page.next \in Nat
  BY <1>2, <1>3, EarliestIn DEF InOrder
<1>5. \A x \in notify(i) : x[1] = i
  BY NotifyIndex
<1>6. \A x \in sent : x[1] # i
  BY <1>2, <1>3, <1>4 DEF InOrder, Done
<1>7. again' = {}
  BY <1>2, <1>3, <1>5, <1>6 DEF InOrder
<1>8. \A x \in sent' : x[1] \in Nat /\ Done(x)'
  <2>1. ASSUME NEW x \in sent PROVE x[1] \in Nat /\ Done(x)'
    BY <1>2, <1>3 DEF InOrder, Done
  <2>2. ASSUME NEW x \in notify(i) PROVE x[1] \in Nat /\ Done(x)'
    <3>1. x[1] = i
      BY <1>5
    <3>2. QED
      BY <1>2, <1>4, <3>1 DEF Done
  <2>3. QED
    BY <1>2, <2>1, <2>2
<1>9. QED
  BY <1>2, <1>3, <1>7, <1>8 DEF InOrder

\* A delivered event leaves the queue.
LEMMA EventDoneOInv ==
  ASSUME WInv, OInv, EventDone
  PROVE  OInv'
<1>1. /\ UNCHANGED <<update, saved, sent, again, faults>>
      /\ pc = "sending" /\ pc' = "ready"
      /\ page' = [page EXCEPT !.queue = @ \ {Earliest(page.queue)}]
  BY DEF EventDone
<1>2. page'.next = page.next /\ page'.queue = page.queue \ {Earliest(page.queue)}
  BY <1>1 DEF WInv, WTypeOK
<1>3. QED
  BY <1>1, <1>2 DEF OInv, InOrder, Done

\* The cursor goes to the file once the queue is empty, and is saved before
\* the next poll.
LEMMA SaveOInv ==
  ASSUME WInv, OInv, saveCursor \/ Truncate("watcher") \/ save("watcher")
  PROVE  OInv'
<1>1. SUFFICES ASSUME faults' = {} PROVE InOrder'
  BY DEF OInv
<1>2. UNCHANGED <<sent, again>> /\ faults = {}
  BY <1>1 DEF saveCursor, Truncate, save
<1>3. InOrder
  BY <1>2 DEF OInv
<1>4. CASE saveCursor
  <2>1. /\ UNCHANGED <<pc, page, saved>> /\ pc = "ready" /\ page.queue = {}
        /\ update' = [update EXCEPT !["watcher"] =
                        [stage |-> "loaded", base |-> load, new |-> CursorUpdate]]
    BY <1>4 DEF saveCursor, PageDelivered, BeginUpdate
  <2>2. CursorUpdate.cursor = page.next
    BY LoadCovered DEF CursorUpdate, Store
  <2>3. update'["watcher"].new.cursor = page.next
    BY <2>1, <2>2 DEF WInv, WTypeOK, Processes
  <2>4. QED
    BY <1>2, <1>3, <2>1, <2>3 DEF InOrder, Done
<1>5. CASE Truncate("watcher")
  <2>1. /\ UNCHANGED <<pc, page, saved>> /\ update["watcher"].stage = "loaded"
        /\ update' = [update EXCEPT !["watcher"].stage = "torn"]
    BY <1>5 DEF Truncate
  <2>2. update'["watcher"].new = update["watcher"].new
    BY <2>1 DEF WInv, WTypeOK, Processes
  <2>3. QED
    BY <1>2, <1>3, <2>1, <2>2 DEF InOrder, Done
<1>6. CASE save("watcher")
  <2>1. /\ update["watcher"].stage = "torn"
        /\ update' = [update EXCEPT !["watcher"] = Idle]
        /\ saved' = update["watcher"].new.cursor
        /\ pc' = "sleep" /\ page' = NoPage
    BY <1>6 DEF save
  <2>2. update'["watcher"].stage = "none" /\ page'.next \in Nat
    BY <2>1 DEF WInv, WTypeOK, Processes, Idle, NoPage
  <2>3. saved' = page.next /\ saved <= page.next /\ page.next \in Nat /\ saved \in Nat
    BY <1>3, <2>1 DEF InOrder
  <2>4. \A x \in sent : x[1] \in Nat /\ x[1] <= page.next
    BY <1>3, <2>3 DEF InOrder, Done
  <2>5. QED
    BY <1>2, <1>3, <2>1, <2>2, <2>3, <2>4 DEF InOrder, Done
<1>7. QED
  BY <1>4, <1>5, <1>6

\* OInv is inductive, given WInv and SInv.
LEMMA NextOInv ==
  ASSUME WInv, SInv, OInv, [Next]_watcher_vars
  PROVE  OInv'
<1>1. CASE Next
  <2>1. CASE WatcherStep
    <3>1. CASE \E x \in pending : SendSettles(x)
      BY <3>1, StillOInv DEF SendSettles, history
    <3>2. QED
      BY <2>1, <3>1, FetchOInv, ProcessOInv, EventDoneOInv, SaveOInv DEF WatcherStep
  <2>2. CASE Faults
    <3>1. CASE SaveFails \/ \E p \in Processes : Crash(p)
      BY <3>1 DEF SaveFails, Crash, OInv
    <3>2. QED
      BY <2>2, <3>1, FetchOInv DEF Faults
  <2>3. CASE Commands
    <3>1. /\ UNCHANGED <<pc, page, sent, again, saved>> /\ faults \subseteq faults'
      BY <2>3 DEF Commands, addSubscriber, removeSubscriber, Truncate, save, history
    <3>2. update'["watcher"] = update["watcher"]
      BY <2>3 DEF Commands, addSubscriber, removeSubscriber, BeginUpdate, Truncate, save,
                  WInv, WTypeOK, Processes
    <3>3. QED
      BY <3>1, <3>2, StillOInv
  <2>4. CASE \E e \in Events : Emit(e)
    BY <2>4, StillOInv DEF Emit, history
  <2>5. CASE startWatcher
    BY <2>5 DEF startWatcher, history, OInv, InOrder, Done
  <2>6. QED
    BY <1>1, <2>1, <2>2, <2>3, <2>4, <2>5 DEF Next
<1>2. CASE UNCHANGED watcher_vars
  BY <1>2, StillOInv DEF watcher_vars, history
<1>3. QED
  BY <1>1, <1>2

\* As long as no process crashed, no save failed and no two updates of the
\* file met, no channel of any subscriber is sent the same event twice,
\* however many fetches fail and commands run (watcher.ts poll).
THEOREM AtMostOnce == Spec => []NoDuplicateWithoutFault
<1>1. Init => WInv /\ SInv /\ OInv
  BY InitWInv, InitSInv, InitOInv
<1>2. WInv /\ SInv /\ OInv /\ [Next]_watcher_vars => (WInv /\ SInv /\ OInv)'
  BY NextWInv, NextSInv, NextOInv
<1>3. OInv => NoDuplicateWithoutFault
  BY DEF OInv, InOrder, NoDuplicateWithoutFault
<1>4. QED
  BY <1>1, <1>2, <1>3, PTL DEF Spec
=============================================================================
