------------------------------- MODULE Toasts --------------------------------
(***************************************************************************)
(* The two notification implementations of the web client:                 *)
(* components/Toast.tsx, a hook that keeps a timer per toast and clears it *)
(* when the toast is dismissed, and components/ToastContext.tsx, a reducer *)
(* whose notify takes the new toast's id from the render it closed over.   *)
(***************************************************************************)
EXTENDS Integers

CONSTANTS MaxToasts   \* bound on the toasts shown

TOAST_TYPES == {"pending", "success", "error"}
ToastIds == 0..MaxToasts

VARIABLES
  toasts,       \* the hook's toasts: a set of [id, type]
  timers,       \* ids with an armed timer
  nextToast,    \* _nextId
  mounted,
  departed,     \* an instance of the hook was unmounted; callers may keep its show
  orphans,      \* ids of the timers that such callers armed
  ctxToasts,    \* the reducer's toasts: [id, type, fresh], fresh (history) when
                \* notify's id was the reducer's
  ctxNext,      \* the reducer's nextId
  closures,     \* the values of nextId rendered so far, each kept by a notify
  removals      \* ids that a timer will remove

hook_vars == <<toasts, timers, nextToast, mounted, departed, orphans>>
ctx_vars == <<ctxToasts, ctxNext, closures, removals>>
toast_vars == <<hook_vars, ctx_vars>>

ToastInit ==
  /\ toasts = {} /\ timers = {} /\ nextToast = 1 /\ mounted = TRUE
  /\ departed = FALSE /\ orphans = {}
  /\ ctxToasts = {} /\ ctxNext = 0 /\ closures = {0} /\ removals = {}
-----------------------------------------------------------------------------
(* Toast.tsx                                                               *)

\* AUTO_DISMISS_MS: a pending toast has no delay, hence no timer.
AutoDismissed(type) == type # "pending"

show(type) ==
  /\ mounted /\ nextToast <= MaxToasts
  /\ toasts' = toasts \cup {[id |-> nextToast, type |-> type]}
  /\ timers' = IF AutoDismissed(type) THEN timers \cup {nextToast} ELSE timers
  /\ nextToast' = nextToast + 1
  /\ UNCHANGED <<mounted, departed, orphans, ctx_vars>>

\* show of an unmounted instance, called after an await: there is no state to
\* set, but the timer is armed, after the cleanup that would have cleared it.
LateShow(type) ==
  /\ departed /\ nextToast <= MaxToasts
  /\ orphans' = IF AutoDismissed(type) THEN orphans \cup {nextToast} ELSE orphans
  /\ nextToast' = nextToast + 1
  /\ UNCHANGED <<toasts, timers, mounted, departed, ctx_vars>>

ClearTimer_Forgotten(id) == timers
ClearTimer(id) == timers \ {id}

\* The cross on a toast, or its timer.
dismiss(id) ==
  /\ mounted /\ (id \in timers \/ \E t \in toasts : t.id = id)
  /\ toasts' = {t \in toasts : t.id # id}
  /\ timers' = ClearTimer(id)
  /\ UNCHANGED <<nextToast, mounted, departed, orphans, ctx_vars>>

\* The timer of an unmounted instance: its dismiss finds nothing to remove.
OrphanFires(id) ==
  /\ id \in orphans /\ orphans' = orphans \ {id}
  /\ UNCHANGED <<toasts, timers, nextToast, mounted, departed, ctx_vars>>

\* Unmounting clears every timer; a later mount starts with no toasts.
Unmount ==
  /\ mounted
  /\ mounted' = FALSE /\ departed' = TRUE /\ toasts' = {} /\ timers' = {}
  /\ UNCHANGED <<nextToast, orphans, ctx_vars>>
Mount ==
  /\ ~mounted /\ mounted' = TRUE
  /\ UNCHANGED <<toasts, timers, nextToast, departed, orphans, ctx_vars>>

HookStep ==
  \/ Unmount \/ Mount
  \/ \E type \in TOAST_TYPES : show(type) \/ LateShow(type)
  \/ \E id \in ToastIds : dismiss(id) \/ OrphanFires(id)
-----------------------------------------------------------------------------
(* ToastContext.tsx                                                        *)

Scheduled_SuccessOnly(type) == type = "success"
\* notify arms a timer for every type but pending.
Scheduled(type) == type # "pending"

\* The reducer numbers the toast with its own nextId; the id that notify
\* returns, and that its timer removes, is that of the render whose notify is
\* called: the last one, or an earlier one that an async caller kept.
notify(type, id) ==
  /\ ctxNext < MaxToasts
  /\ ctxToasts' = ctxToasts \cup {[id |-> ctxNext, type |-> type, fresh |-> id = ctxNext]}
  /\ ctxNext' = ctxNext + 1
  /\ removals' = IF Scheduled(type) THEN removals \cup {id} ELSE removals
  /\ UNCHANGED <<closures, hook_vars>>

Render ==
  /\ ctxNext \notin closures /\ closures' = closures \cup {ctxNext}
  /\ UNCHANGED <<ctxToasts, ctxNext, removals, hook_vars>>

\* dismiss, by the cross: its timer stays armed.
Removed(id) == {t \in ctxToasts : t.id # id}
DismissCtx(id) ==
  /\ \E t \in ctxToasts : t.id = id
  /\ ctxToasts' = Removed(id)
  /\ UNCHANGED <<ctxNext, closures, removals, hook_vars>>

\* A second timer with the same id would find nothing.
RemovalFires(id) ==
  /\ id \in removals
  /\ removals' = removals \ {id}
  /\ ctxToasts' = Removed(id)
  /\ UNCHANGED <<ctxNext, closures, hook_vars>>

CtxStep ==
  \/ Render
  \/ \E type \in TOAST_TYPES : \E id \in closures : notify(type, id)
  \/ \E id \in ToastIds : DismissCtx(id) \/ RemovalFires(id)

ToastSpec == ToastInit /\ [][HookStep \/ CtxStep]_toast_vars
-----------------------------------------------------------------------------
(* Exactly the toasts on screen that are to go by themselves have a timer  *)
(* of their instance: none stays for ever, and the timers that a late show *)
(* leaves behind belong to no toast on screen, whichever instance is       *)
(* mounted by then (Toast.tsx show, dismiss and the cleanup effect).       *)
TimersMatchToasts ==
  /\ timers = {t.id : t \in {u \in toasts : u.type # "pending"}}
  /\ \A t \in toasts : t.id \notin orphans

(* A success or error toast of the provider goes by itself if its notify   *)
(* was of the render that preceded it, although other callers' stale       *)
(* notifies arm removals at the same time; and no removal is armed for a   *)
(* toast still to come, which it would cut short (ToastContext.tsx notify).*)
ToastsGoAway ==
  /\ \A t \in ctxToasts : t.fresh /\ t.type # "pending" => t.id \in removals
  /\ \A id \in removals : id < ctxNext

(* No toast that should go by itself stays for ever and no timer meets a   *)
(* toast it was not meant for before that is shown, in both                *)
(* implementations (Toast.tsx, ToastContext.tsx).                          *)
ToastsEnd == TimersMatchToasts /\ ToastsGoAway
=============================================================================
