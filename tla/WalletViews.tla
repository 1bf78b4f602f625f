----------------------------- MODULE WalletViews -----------------------------
(***************************************************************************)
(* Two views that follow the connected wallet: components/                 *)
(* DelegationPanel.tsx, mounted while a wallet is connected, and           *)
(* components/ProposalDetail.tsx with its vote status.  Each asks the      *)
(* chain about the address in an effect that neither cancels nor labels    *)
(* its requests: an answer is shown whatever address it was for.           *)
(***************************************************************************)
EXTENDS WalletStore, FiniteSets

CONSTANTS
  Outsiders,   \* other valid Stellar addresses a user may type
  Delegation   \* Delegation[u]: u's delegate on chain, or NoOne

\* Nobody is their own delegate: the token contract refuses it.
ASSUME DelegationAssumption ==
  /\ NoOne \notin Users
  /\ Delegation \in [Users -> Users \cup Outsiders \cup {NoOne}]
  /\ \A u \in Users : Delegation[u] # u

Typed == Users \cup Outsiders \cup {"", "malformed"}

VARIABLES
  view,      \* which of the two views the behaviour follows
  panel,     \* the DelegationPanel's state
  detail,    \* the ProposalDetail's state
  crossed    \* history: the address changed while a request was in flight

view_vars == <<view, panel, detail, crossed>>

(* asks: the addresses whose delegation is being asked for.  History: of is *)
(* the address currentDelegate was loaded or entered for, switched says    *)
(* that the address changed under an open form.                            *)
NoPanel ==
  [currentDelegate |-> NoOne, loading |-> TRUE, state |-> "idle", input |-> "",
   error |-> FALSE, success |-> FALSE, asks |-> {}, of |-> NoOne, switched |-> FALSE]

(* voted: the address whose vote status is shown, NoOne while checking.    *)
(* History: failed says that a request failed (an unhandled rejection).    *)
NoDetail == [open |-> FALSE, voted |-> NoOne, asks |-> {}, failed |-> FALSE]

ViewsInit ==
  /\ view \in {"delegation", "detail"} /\ crossed = FALSE
  /\ panel = NoPanel /\ detail = NoDetail
-----------------------------------------------------------------------------
(* DelegationPanel.                                                        *)

\* The effect on [walletAddress].
DelegationEffect_OnMountOnly(new) ==
  IF walletAddress = NoOne THEN [panel EXCEPT !.asks = {new}] ELSE panel
DelegationEffect(new) == [panel EXCEPT !.loading = TRUE, !.asks = @ \cup {new}]

\* What a change of the address does to the panel: it is mounted afresh,
\* unmounted (answers in flight are then lost), or only its effect runs.
PanelFollows ==
  IF walletAddress' = walletAddress THEN UNCHANGED <<panel, crossed>>
  ELSE IF walletAddress' = NoOne THEN panel' = NoPanel /\ UNCHANGED crossed
  ELSE /\ panel' = [DelegationEffect(walletAddress') EXCEPT
                      !.switched = @ \/ panel.state # "idle"]
       /\ crossed' = (crossed \/ panel.asks # {})

\* fetchDelegation never rejects: a failed call is no delegation.
fetchDelegation(u, ok) ==
  /\ u \in panel.asks
  /\ panel' = [panel EXCEPT !.asks = @ \ {u}, !.of = u, !.loading = FALSE,
                            !.currentDelegate = IF ok THEN Delegation[u] ELSE NoOne]

Ready == walletAddress # NoOne /\ ~panel.loading

OpenDelegateForm ==
  /\ Ready /\ panel.state = "idle" /\ panel.currentDelegate = NoOne
  /\ panel' = [panel EXCEPT !.state = "delegating", !.success = FALSE]

OpenRevokeForm ==
  /\ Ready /\ panel.state = "idle" /\ panel.currentDelegate # NoOne
  /\ panel' = [panel EXCEPT !.state = "revoking", !.success = FALSE]

TypeDelegate(x) ==
  /\ Ready /\ panel.state = "delegating"
  /\ panel' = [panel EXCEPT !.input = x]

ValidDelegate(x) == x \in Users \cup Outsiders /\ x # walletAddress

\* The panel shows the new delegate at once; nothing is sent to the chain.
handleDelegate ==
  /\ Ready /\ panel.state = "delegating"
  /\ panel' = IF ValidDelegate(panel.input)
              THEN [panel EXCEPT !.currentDelegate = panel.input, !.of = walletAddress,
                                 !.input = "", !.state = "idle",
                                 !.success = TRUE, !.error = FALSE]
              ELSE [panel EXCEPT !.error = TRUE]

Revoked_KeepsForm ==
  [panel EXCEPT !.currentDelegate = NoOne, !.of = walletAddress,
                !.success = TRUE, !.error = FALSE]
Revoked ==
  [panel EXCEPT !.currentDelegate = NoOne, !.of = walletAddress, !.state = "idle",
                !.success = TRUE, !.error = FALSE]

handleRevoke == Ready /\ panel.state = "revoking" /\ panel' = Revoked

CancelForm ==
  /\ Ready /\ panel.state # "idle"
  /\ panel' = [panel EXCEPT !.state = "idle", !.error = FALSE,
                            !.input = IF panel.state = "delegating" THEN "" ELSE @]

PanelStep ==
  \/ \E u \in Users, ok \in BOOLEAN : fetchDelegation(u, ok)
  \/ OpenDelegateForm \/ OpenRevokeForm \/ handleDelegate \/ handleRevoke \/ CancelForm
  \/ \E x \in Typed : TypeDelegate(x)
-----------------------------------------------------------------------------
(* ProposalDetail.                                                         *)

\* The effect on [p.id, walletAddress]: without a wallet nothing is asked.  The
\* component at this commit names onAnnounce, expired, isAdmin and onToast
\* without declaring them, and throws; the effect is taken as written for
\* props of those names.
VoteStatusEffect_OnMountOnly(asks, new) == IF detail.open THEN asks ELSE {new} \ {NoOne}
VoteStatusEffect(asks, new) == asks \cup ({new} \ {NoOne})

DetailFollows ==
  IF walletAddress' = walletAddress \/ ~detail.open THEN UNCHANGED <<detail, crossed>>
  ELSE /\ detail' = [detail EXCEPT !.asks = VoteStatusEffect(@, walletAddress')]
       /\ crossed' = (crossed \/ detail.asks # {})

OpenDetail ==
  /\ ~detail.open
  /\ detail' = [NoDetail EXCEPT !.open = TRUE, !.asks = VoteStatusEffect({}, walletAddress)]

\* Escape, the backdrop or the close button: the dialog is unmounted.
CloseDetail == detail.open /\ detail' = NoDetail

\* fetchHasVoted and fetchVoteRecord are answered together, or the first
\* rejects and nothing is stored.
VoteStatusAnswered(u, ok) ==
  /\ u \in detail.asks
  /\ detail' = [detail EXCEPT !.asks = @ \ {u}, !.voted = IF ok THEN u ELSE @,
                              !.failed = @ \/ ~ok]

DetailStep ==
  \/ OpenDetail \/ CloseDetail
  \/ \E u \in Users, ok \in BOOLEAN : VoteStatusAnswered(u, ok)
-----------------------------------------------------------------------------
ViewsNext ==
  \/ WalletStep /\ view = "delegation" /\ PanelFollows /\ UNCHANGED <<view, detail>>
  \/ WalletStep /\ view = "detail" /\ DetailFollows /\ UNCHANGED <<view, panel>>
  \/ PanelStep /\ view = "delegation" /\ UNCHANGED <<view, wallet_vars, detail, crossed>>
  \/ DetailStep /\ view = "detail" /\ UNCHANGED <<view, wallet_vars, panel, crossed>>
ViewsSpec == WalletInit /\ ViewsInit /\ [][ViewsNext]_<<wallet_vars, view_vars>>
-----------------------------------------------------------------------------
(* The delegation shown is the connected wallet's and never names the      *)
(* wallet itself, unless the address changed while a delegation request    *)
(* was in flight (DelegationPanel.tsx effect, handleDelegate).             *)
DelegationOfWallet ==
  (Ready /\ ~crossed) =>
     panel.of = walletAddress /\ panel.currentDelegate # walletAddress

(* The form on screen fits the delegation on screen: the delegate form     *)
(* without one, the revoke confirmation with one, unless the address       *)
(* changed while a form was open (DelegationPanel.tsx:116-189).            *)
FormFitsDelegation ==
  (Ready /\ ~crossed /\ ~panel.switched) =>
     /\ panel.state = "delegating" => panel.currentDelegate = NoOne
     /\ panel.state = "revoking" => panel.currentDelegate # NoOne

(* Once every request is answered the vote status shown is the connected   *)
(* wallet's, unless a request failed or the address changed under one      *)
(* (ProposalDetail.tsx:29-42).                                             *)
VoteStatusOfWallet ==
  (detail.open /\ walletAddress # NoOne /\ detail.asks = {} /\ ~detail.failed /\ ~crossed)
     => detail.voted = walletAddress

(* What the wallet's dialog and views show is the connected wallet's and   *)
(* waits only for calls of its own: balance, connect dialog, delegation    *)
(* with its forms, and vote status, whatever answers come late, fail or    *)
(* belong to a wallet that is gone (walletStore.ts, ConnectWalletModal.tsx,*)
(* DelegationPanel.tsx, ProposalDetail.tsx).                               *)
ShownForWallet ==
  /\ BalanceOfWallet /\ ModalWaitsForItsOwnCall
  /\ DelegationOfWallet /\ FormFitsDelegation /\ VoteStatusOfWallet
=============================================================================
