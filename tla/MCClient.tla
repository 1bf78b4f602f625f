------------------------------ MODULE MCClient -------------------------------
(***************************************************************************)
(* The stateful parts of the web client.  The wallet store and the two     *)
(* views that follow it are composed; the other parts share no state with  *)
(* them or with each other, so a behaviour follows one part, chosen in the *)
(* initial state: the wallet, the proposal list, the votes of an account,  *)
(* the vote preview, the polling hook, the two kinds of toasts, analytics  *)
(* and theme in several tabs, the paged list, or the service worker.       *)
(***************************************************************************)
EXTENDS WalletViews, ProposalStore, VotePreview, Polling,
        Toasts, Analytics, Theme, Paging, ServiceWorker

VARIABLE part
data_vars == <<wallet_vars, view_vars, store_vars, preview_vars, polling_vars>>
browser_vars == <<toast_vars, analytics_vars, theme_vars, paging_vars, sw_vars>>
all_vars == <<part, data_vars, browser_vars>>

MCDelegation == [alice |-> "carol", bob |-> "none"]

\* Votes are loaded once the list has been.
LoadedInit ==
  /\ onChain = [i \in Ids |-> 1] /\ ballots = {}
  /\ proposals = {<<i, 1>> : i \in Ids} /\ loading = FALSE /\ failed = FALSE
  /\ pload = [l \in Loads |-> NoLoad]
  /\ votedMap = NoVotes /\ vload = [l \in VoteLoads |-> NoVoteLoad]
  /\ asked = Nobody /\ overlap = FALSE /\ voteOverlap = FALSE

Init ==
  /\ part \in {"wallet", "list", "votes", "preview", "polling",
               "hook", "provider", "analytics", "theme", "paging", "worker"}
  /\ WalletInit /\ ViewsInit /\ PreviewInit /\ PollingInit
  /\ part # "wallet" => view = "delegation"
  /\ IF part = "votes" THEN LoadedInit ELSE StoreInit
  /\ ToastInit /\ AnalyticsInit /\ ThemeInit /\ PagingInit /\ WorkerInit
  /\ part # "analytics" => endpoint

WalletTurn ==
  /\ part = "wallet" /\ ViewsNext
  /\ UNCHANGED <<store_vars, preview_vars, polling_vars>>
StoreTurn ==
  /\ \/ part = "list" /\ (ListStep \/ ProposalMoves)
     \/ part = "votes" /\ (VoteStep \/ BallotMoves)
  /\ UNCHANGED <<wallet_vars, view_vars, preview_vars, polling_vars>>
PreviewTurn ==
  /\ part = "preview" /\ PreviewNext
  /\ UNCHANGED <<wallet_vars, view_vars, store_vars, polling_vars>>
PollingTurn ==
  /\ part = "polling" /\ PollingNext
  /\ UNCHANGED <<wallet_vars, view_vars, store_vars, preview_vars>>

ToastTurn ==
  /\ \/ part = "hook" /\ HookStep
     \/ part = "provider" /\ CtxStep
  /\ UNCHANGED <<analytics_vars, theme_vars, paging_vars, sw_vars>>
AnalyticsTurn ==
  /\ part = "analytics" /\ AnalyticsNext
  /\ UNCHANGED <<toast_vars, theme_vars, paging_vars, sw_vars>>
ThemeTurn ==
  /\ part = "theme" /\ ThemeNext
  /\ UNCHANGED <<toast_vars, analytics_vars, paging_vars, sw_vars>>
PagingTurn ==
  /\ part = "paging" /\ PagingNext
  /\ UNCHANGED <<toast_vars, analytics_vars, theme_vars, sw_vars>>
WorkerTurn ==
  /\ part = "worker" /\ WorkerNext
  /\ UNCHANGED <<toast_vars, analytics_vars, theme_vars, paging_vars>>

DataTurn ==
  /\ WalletTurn \/ StoreTurn \/ PreviewTurn \/ PollingTurn
  /\ UNCHANGED <<part, browser_vars>>
BrowserTurn ==
  /\ ToastTurn \/ AnalyticsTurn \/ ThemeTurn \/ PagingTurn \/ WorkerTurn
  /\ UNCHANGED <<part, data_vars>>

Next == DataTurn \/ BrowserTurn
Spec == Init /\ [][Next]_all_vars

(* Flags and results of overlapping requests are honest: a spinner stands  *)
(* for a load in flight, the votes shown are those asked for last and      *)
(* one verdict at a time is on screen (proposalStore.ts,                   *)
(* VoteSimulationPreview.tsx).                                             *)
RequestsHonest == SpinnerHonest /\ VotesOfAskedUser /\ OneVerdict
=============================================================================
