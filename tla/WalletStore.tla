----------------------------- MODULE WalletStore -----------------------------
(***************************************************************************)
(* frontend/src/store/walletStore.ts and the dialog that drives it,        *)
(* components/ConnectWalletModal.tsx.  Connecting asks a browser extension *)
(* and waits; the balance of the address is asked for afterwards and its   *)
(* answer is stored whoever is connected by then.  The dialog disables its *)
(* buttons while it waits, but that flag dies with the dialog, so closing  *)
(* and reopening it allows a second connect beside the first.              *)
(***************************************************************************)
EXTENDS Integers

CONSTANTS
  Users,      \* wallet addresses
  NoOne,      \* null
  Calls,      \* slots for connect calls in flight
  MaxAsks     \* bound on balance requests in flight per address

VARIABLES
  walletAddress,
  tokenBalance,   \* the address whose balance is shown, or NoOne for null
  showModal, modalLoading, modalError,
  conn,           \* conn[k]: "none", "mine" (the open dialog's) or "orphan"
  balanceAsks,    \* balanceAsks[u]: requests for u's balance in flight
  mixed           \* history: the address changed under an answer in flight
                  \* or without a disconnect

wallet_vars == <<walletAddress, tokenBalance, showModal, modalLoading, modalError,
                 conn, balanceAsks, mixed>>

WalletInit ==
  /\ walletAddress = NoOne /\ tokenBalance = NoOne
  /\ showModal = FALSE /\ modalLoading = FALSE /\ modalError = FALSE
  /\ conn = [k \in Calls |-> "none"]
  /\ balanceAsks = [u \in Users |-> 0] /\ mixed = FALSE

\* Unmounting the dialog: calls in flight go on, but no longer report to it.
Orphaned(c) == [k \in Calls |-> IF c[k] = "mine" THEN "orphan" ELSE c[k]]

\* A newly mounted dialog has neither an error nor the waiting flag.
openModal ==
  /\ walletAddress = NoOne /\ ~showModal
  /\ showModal' = TRUE /\ modalLoading' = FALSE /\ modalError' = FALSE
  /\ UNCHANGED <<walletAddress, tokenBalance, conn, balanceAsks, mixed>>

closeModal ==
  /\ showModal
  /\ showModal' = FALSE /\ modalLoading' = FALSE /\ modalError' = FALSE
  /\ conn' = Orphaned(conn)
  /\ UNCHANGED <<walletAddress, tokenBalance, balanceAsks, mixed>>

\* handleConnect: a wallet button, both disabled while one is waited for.
handleConnect(k) ==
  /\ showModal /\ ~modalLoading /\ conn[k] = "none"
  /\ modalLoading' = TRUE /\ modalError' = FALSE
  /\ conn' = [conn EXCEPT ![k] = "mine"]
  /\ UNCHANGED <<walletAddress, tokenBalance, showModal, balanceAsks, mixed>>

\* connect, once the extension has named an address.
connect(k, a) ==
  /\ conn[k] # "none" /\ balanceAsks[a] < MaxAsks
  /\ walletAddress' = a
  /\ showModal' = FALSE /\ modalLoading' = FALSE /\ modalError' = FALSE
  /\ conn' = [Orphaned(conn) EXCEPT ![k] = "none"]
  /\ balanceAsks' = [balanceAsks EXCEPT ![a] = @ + 1]
  /\ mixed' = (mixed \/ walletAddress \notin {NoOne, a}
                     \/ \E b \in Users \ {a} : balanceAsks[b] > 0)
  /\ UNCHANGED tokenBalance

AfterFailure_Waits(k) == modalLoading
AfterFailure(k) == IF conn[k] = "mine" THEN FALSE ELSE modalLoading

\* connect throws (no extension, refused), or the address is empty and
\* connect returns without a trace.
ConnectFails(k, threw) ==
  /\ conn[k] # "none"
  /\ modalError' = (modalError \/ (threw /\ conn[k] = "mine"))
  /\ modalLoading' = AfterFailure(k)
  /\ conn' = [conn EXCEPT ![k] = "none"]
  /\ UNCHANGED <<walletAddress, tokenBalance, showModal, balanceAsks, mixed>>

disconnect_KeepsBalance ==
  /\ walletAddress # NoOne
  /\ walletAddress' = NoOne
  /\ mixed' = (mixed \/ \E b \in Users : balanceAsks[b] > 0)
  /\ UNCHANGED <<tokenBalance, showModal, modalLoading, modalError, conn, balanceAsks>>
disconnect ==
  /\ walletAddress # NoOne
  /\ walletAddress' = NoOne /\ tokenBalance' = NoOne
  /\ mixed' = (mixed \/ \E b \in Users : balanceAsks[b] > 0)
  /\ UNCHANGED <<showModal, modalLoading, modalError, conn, balanceAsks>>

refreshBalance ==
  /\ walletAddress # NoOne /\ balanceAsks[walletAddress] < MaxAsks
  /\ balanceAsks' = [balanceAsks EXCEPT ![walletAddress] = @ + 1]
  /\ UNCHANGED <<walletAddress, tokenBalance, showModal, modalLoading, modalError, conn, mixed>>

\* fetchTokenBalance(u) is answered, or fails and null is stored.
fetchTokenBalance(u, ok) ==
  /\ balanceAsks[u] > 0
  /\ balanceAsks' = [balanceAsks EXCEPT ![u] = @ - 1]
  /\ tokenBalance' = IF ok THEN u ELSE NoOne
  /\ UNCHANGED <<walletAddress, showModal, modalLoading, modalError, conn, mixed>>

WalletStep ==
  \/ openModal \/ closeModal \/ disconnect \/ refreshBalance
  \/ \E k \in Calls : \/ handleConnect(k)
                      \/ \E a \in Users : connect(k, a)
                      \/ \E threw \in BOOLEAN : ConnectFails(k, threw)
  \/ \E u \in Users, ok \in BOOLEAN : fetchTokenBalance(u, ok)
-----------------------------------------------------------------------------
(* The balance shown is the connected wallet's, and none is shown when no  *)
(* wallet is connected, unless the address changed while a balance request *)
(* was in flight or a second connect replaced the first                    *)
(* (walletStore.ts connect, disconnect).                                   *)
BalanceOfWallet == ~mixed => tokenBalance \in {NoOne, walletAddress}

(* The dialog says it is waiting exactly while a connect that it started   *)
(* itself is in flight, also when it is closed and reopened under older    *)
(* connects (ConnectWalletModal.tsx handleConnect).                        *)
ModalWaitsForItsOwnCall == modalLoading <=> \E k \in Calls : conn[k] = "mine"
=============================================================================
