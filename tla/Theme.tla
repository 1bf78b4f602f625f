-------------------------------- MODULE Theme --------------------------------
(***************************************************************************)
(* frontend/src/useTheme.ts in several tabs.  A tab writes its theme to    *)
(* localStorage whenever the theme changes; the browser then tells the     *)
(* other tabs, which adopt the value and write it themselves.  Writing the *)
(* value that is stored already tells nobody.                              *)
(***************************************************************************)
EXTENDS Integers, Sequences

CONSTANTS
  ThemeTabs,   \* browser tabs
  MaxToggles   \* bound on the user's toggles

THEMES == {"light", "dark"}
Other(th) == IF th = "dark" THEN "light" ELSE "dark"

VARIABLES
  theme,       \* theme[t], or "closed"
  saved,       \* localStorage: a theme or "none"
  events,      \* events[t]: storage events on their way to t
  toggles,
  raced        \* history: a tab changed the theme while events were on their way

theme_vars == <<theme, saved, events, toggles, raced>>

ThemeInit ==
  /\ theme = [t \in ThemeTabs |-> "closed"] /\ saved = "none"
  /\ events = [t \in ThemeTabs |-> <<>>] /\ toggles = 0 /\ raced = FALSE

OnTheirWay == \E t \in ThemeTabs : events[t] # <<>>

\* The effect on [theme]: persistTheme, and the events it causes.
PersistTheme(t, th, ev) ==
  /\ saved' = th
  /\ events' = [u \in ThemeTabs |->
       IF u # t /\ theme[u] # "closed" /\ saved # th THEN Append(ev[u], th) ELSE ev[u]]

resolveInitialTheme_System(os) == os
\* The saved theme, else what the system prefers.
resolveInitialTheme(os) == IF saved \in THEMES THEN saved ELSE os

OpenTab(t, os) ==
  /\ theme[t] = "closed"
  /\ theme' = [theme EXCEPT ![t] = resolveInitialTheme(os)]
  /\ PersistTheme(t, resolveInitialTheme(os), events)
  /\ UNCHANGED <<toggles, raced>>

CloseTab(t) ==
  /\ theme[t] # "closed"
  /\ theme' = [theme EXCEPT ![t] = "closed"]
  /\ events' = [events EXCEPT ![t] = <<>>]
  /\ UNCHANGED <<saved, toggles, raced>>

toggleTheme(t) ==
  /\ theme[t] # "closed" /\ toggles < MaxToggles
  /\ theme' = [theme EXCEPT ![t] = Other(@)]
  /\ PersistTheme(t, Other(theme[t]), events)
  /\ toggles' = toggles + 1
  /\ raced' = (raced \/ OnTheirWay)

HandlerAdopts_Never(t, th) == theme[t]
\* The storage listener sets the theme it is told.
HandlerAdopts(t, th) == th

\* The effect runs only if that changed the tab's theme.
StorageEvent(t) ==
  /\ events[t] # <<>>
  /\ LET th == HandlerAdopts(t, Head(events[t]))
         rest == [events EXCEPT ![t] = Tail(@)]
     IN  /\ theme' = [theme EXCEPT ![t] = th]
         /\ IF th # theme[t] THEN PersistTheme(t, th, rest)
            ELSE events' = rest /\ UNCHANGED saved
  /\ UNCHANGED <<toggles, raced>>

ThemeNext ==
  \E t \in ThemeTabs :
    \/ \E os \in THEMES : OpenTab(t, os)
    \/ CloseTab(t) \/ toggleTheme(t) \/ StorageEvent(t)
ThemeSpec == ThemeInit /\ [][ThemeNext]_theme_vars
-----------------------------------------------------------------------------
(* Once every storage event has been delivered, all open tabs show the     *)
(* saved theme, whatever was toggled where and in which order (useTheme.ts *)
(* effect and storage listener).                                           *)
QuietTabsAgree ==
  ~OnTheirWay => \A t \in ThemeTabs : theme[t] \in {"closed", saved}

(* The events on their way carry the theme that is saved, so that the tab  *)
(* they reach adopts it and writes nothing new, unless a theme was toggled *)
(* while events were on their way: then two tabs can go on telling each    *)
(* other the other's last theme for ever (useTheme.ts storage listener).   *)
NoEcho == ~raced => \A t \in ThemeTabs : \A i \in DOMAIN events[t] : events[t][i] = saved

(* Tabs converge to the saved theme and do not echo it (useTheme.ts).      *)
TabsAgree == QuietTabsAgree /\ NoEcho
=============================================================================
