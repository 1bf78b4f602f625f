# CosmosVote: a TLA+ development

CosmosVote is token-weighted governance on Stellar/Soroban: three Rust contracts
(governance, token, treasury), two notification services that poll the contract's
events (TypeScript), a React frontend, and operations scripts. This directory holds
TLA+ modules translated from that code, TLC configurations that check them on
small instances, and TLAPS proofs of central invariants.

## 1. Inventory

| Component | State | Operations | Interacts with |
|---|---|---|---|
| governance contract `contracts/governance/src` | configuration, admin and pending admin, pause flag, counters, proposals, per-voter flag and vote record, time of each proposer's last proposal | initialize, create, amend, cast / retract / change vote, finalise, execute, cancel, update_quorum, two-step admin transfer, pause, setters, update_voting_token | asks the token for supply, balance and delegation; calls the treasury |
| token contract `contracts/token/src` | supply, balances, allowances with an expiry ledger (temporary storage), delegations, admin, pause | initialize, transfer, transfer_from, approve, mint, burn, burn_self, delegate, undelegate, admin transfer, pause | called by users, governance (queries) and treasury (transfer) |
| treasury contract `contracts/treasury/src` | address of its governance | initialize, disburse | called by governance in execute; calls the token |
| notification service `notification-service/src` | a JSON file with subscribers and cursor, shared by two processes | watcher: poll, fetch, deliver, save cursor; command line: subscribe, unsubscribe | Horizon, e-mail, webhooks, Slack, Discord |
| notification backend `backend/src` | running flag, timer, failure counter | start, stop, poll, deliver, shutdown | RPC, one webhook |
| monitors `scripts/admin_monitor.js`, `scripts/monitor.js` | event cursors | poll, detect, alert | Horizon / RPC, Slack |
| inspection `scripts/inspect-state.js` | none | list proposals, show one | view calls of the contract |
| keeper `scripts/finalise-expired-proposals.sh`, deployment scripts | none | finalise expired proposals; deploy | the contracts |
| frontend stores `frontend/src/store`, `hooks/usePolling.ts`, `api.ts` | wallet address and balance, proposal list, votes of the user, polling timers | connect, disconnect, refresh, load, poll | wallet extension, RPC |
| frontend views `App.tsx`, `components/` | what each panel shows, open dialogs, page and filters | open, close, delegate, revoke, simulate, page | the stores, RPC |
| proposal forms `CreateProposalForm.tsx`, `NewProposalForm.tsx` | fields, errors, submission in flight | type, blur, submit, sign, confirm, close | wallet, RPC, the proposal list |
| toasts, analytics, theme `Toast.tsx`, `ToastContext.tsx`, `analytics.ts`, `useTheme.ts` | toasts and timers; event queue; theme | notify, dismiss; track, flush; toggle | timers, `localStorage` shared by tabs |
| service worker `frontend/public/sw.js` | caches | install, activate, fetch | network, the pages |

What is hard here. On chain, every call is atomic, so the difficulty is not in torn
updates but in *sequences*: anybody's calls interleave in any order, several
of them share one ledger time, tallies and counters are maintained by increments
spread over many functions, and the answers of another contract change between
two calls. A trap in a callee must undo the caller. Off chain, the usual hazards
appear: crash between delivery and saving the cursor, two processes rewriting one
file, answers that arrive after the state they belong to is gone, timers that
outlive their owner. `PROJECT.json` lists each hazard at its line.

What makes each component correct:

* governance: tallies are the recorded ballots; decisions are what the ballots
  say and stay so; a decided proposal is never touched; the active counter is
  exact; the token does not change under an open vote; cooldowns hold; payloads
  are paid at most once; expired proposals get decided if somebody has them finalised;
* token: supply = sum of balances; neither grants nor balances are overdrawn; a pause stops inflow;
* treasury: money leaves only for an executed proposal;
* services and monitors: no tracked event is passed over by the program, whatever crashes, fails or
  overlaps; nothing is delivered twice without a fault; the file holds what the completed
  commands left in it; at most one polling loop; a stopped service comes to rest;
* frontend: what is on screen belongs to the wallet, the proposal and the request it
  claims to belong to; every spinner, toast and loop ends; queued events are lost only
  where the code gives them up;
* forms: an error reported is final, a form waits for its own submission, a created
  proposal is listed, the errors shown are those of the text shown;
* service worker: a navigation is answered offline, with the version seen last.

## 2. Modules

| Module | Models |
|---|---|
| `Governance` | the governance contract, for *every* token |
| `Token` | the token contract |
| `CosmosVote` | the treasury contract, and governance, token and treasury composed |
| `Finaliser` | the keeper: its script, and the workflow that runs it, around `Governance` |
| `BallotBox` | abstract: what `Governance` promises to voters, without its mechanism |
| `GovernanceProofs`, `TokenProofs` | theorems about the two contracts, checked by TLAPS |
| `CosmosVoteProofs` | the composition refines both contracts; payments |
| `Watcher` | the notification service: watcher, command line, shared file, crashes |
| `WatcherProofs` | theorems about `Watcher` |
| `Backend` | the notification backend and its process |
| `AdminMonitor`, `ChainMonitor` | the two monitoring scripts |
| `InspectState` | the listing of the inspection script |
| `MonitorProofs` | theorems about `Backend`, the monitors and `InspectState` |
| `WalletStore` | wallet store and connect dialog |
| `WalletViews` | delegation panel and vote status, composed with `WalletStore` |
| `ProposalStore` | proposal list and the user's votes, with the api calls they await |
| `Polling`, `VotePreview`, `Toasts`, `Analytics`, `Theme`, `Paging`, `ServiceWorker` | the hook, component or script of that name |
| `FormInputs` | the fields of the two forms and the contract's limits on their values |
| `CreateProposal`, `NewProposal` | the two proposal forms, the first with the network it submits to |
| `CreateProposalProofs`, `FormProofs` | theorems about the first and the second form |
| `ClientProofs` | theorems about the other modules of the frontend |
| `MCGovernance`, `MCToken`, `MCCosmosVote`, `MCWatcher`, `MCMonitors`, `MCClient`, `MCForms` | symmetry sets, inputs, constraints and compositions for TLC |

**How code and actions correspond: contracts.** A Soroban invocation is atomic, and an `Err` or a
panic reverts it. So one contract function is one action with the function's name:
its early returns (and overflow panics, since the release profile sets
`overflow-checks`) form the guard, its storage writes the primed variables.
`require_auth` becomes the choice of the caller. Variables carry the names of the
storage keys; a missing key is `None` (or the accessor's `unwrap_or` default). A title
with its description is one value of `Text`, of which `ValidText` passes the length
checks. The per-choice tallies `votes_yes/no/abstain` are one function `votes`. The
proposal `link` is left out: it is checked once, stored, and never read.

In `Governance` the token's answers (supply, balance, weight, delegated) are
*parameters* of the calling action, chosen freely by `Next`. What holds there holds
whatever the token does. `CosmosVote` binds the parameters to the state of `Token`
(`T == INSTANCE Token`) and makes execute, disburse and transfer one step. Its
property `ContractsImplemented` says that each step of the composition is a step (or a
stutter) of each of the two contract specifications, so their
theorems and invariants carry over; and, as stutters would allow one contract to move without the
other, that a step which makes a proposal Executed has its payload on the token's ledger in the same
step (`SettledWith`). A trap anywhere in execute disables the step.

`BallotBox` is the specification a voter would write: polls with at most one ballot per
voter, a verdict read off the ballots after the end, a wording that the first ballot settles, one
currency per poll, and one payment at most. It knows no tallies, voted flags, counters, roles, cooldowns or
pause. `Governance` implements it (`BallotBoxImplemented`) under the mapping `Polls`, which shows of each
proposal its text, quorum, end, state, records and payments. The refinements form a
chain: the composition implements the contract, and the contract implements the box.

`Token` identifies a ledger by its close time. Two variables are not in the code:
`disbursements` counts the treasury calls each proposal has made, and `grants` records
the last approve of each pair and what was drawn on it. Neither is read by an action.

**How code and actions correspond: services and frontend.** JavaScript runs a callback to its
next `await` without interruption, so one action is the code between two awaits, and
whatever else the event loop may run happens between two actions. An answer is an action
of its own that may come late, come in another order than asked, fail, or (for posts and
sent transactions) fail although the request arrived. Timers fire at any time after they
were set; only `CreateProposal` counts time, because there one time limit is compared with
another. A process that can be killed loses everything but its file; `writeFileSync` is two
steps, since it truncates before it writes and another process may read in between.
Requests, loops, toasts and the like live in slots whose number is a constant: it
bounds how many overlap, not how many happen one after another (the history of
`Analytics`, `Theme` and `Toasts`, which number what they create, is bounded too).

Variables marked *history* are read by properties only. Several of them record that a
race the code does not guard against has happened (`overlap`, `mixed`, `crossed`,
`cleanedInFlight`, `lossy`, `raced`...). A property of the form `~raced => P` says that P
holds in every behaviour without the named race; what happens under the race is not claimed.

`MCMonitors`, `MCClient` and `MCForms` run programs or parts that share no state in one
model: the initial state chooses one of them. Each part also has a specification of its own
(`AdminSpec`, `PollingSpec`, `ViewsSpec`...), which is what the proofs are about; a behaviour of the
composed model is one of that part, with the others at rest. Parts that do share state are composed:
`WalletViews` extends `WalletStore`, and `CreateProposal` includes list and network.

**Deviations forced by the source.** At this commit the governance crate does not compile:
`finalise` and `cancel` use fields (`choices`, `winning_choice`,
`cancellation_reason`) that `Proposal` does not have, `Vote::Choice` is not matched
by the tally updates, and `upgrade` is defined twice. No function creates a
proposal with choices, so the model takes `choices` as always empty and votes as
Yes, No or Abstain. `GovernanceStorage::has_voted` extends the TTL of a key that may be
missing; the model follows the tests, in which a first ballot succeeds. `frontend/src/App.tsx`
is an unresolved merge: `connect`, `decimals` and `handleProposalCreated` are declared twice and
neither form is imported. `CreateProposal` takes the handler that refreshes the list (line
163), the one the form's `onSuccess` is written for. `ProposalDetail.tsx` names `onAnnounce` (line 31), `expired`
and `isAdmin` (97-99) and `onToast` (103) without declaring them, so the component throws when it is rendered;
`WalletViews` takes its effect, and `Toasts` its vote handler, as written for props of those names.
`CreateProposalForm` sends five arguments where create_proposal takes seven (governance `lib.rs:143-152`):
against the contract of this repository every simulation fails and every submission ends in `GivesUp`.
`CreateProposal` models the form against a contract that takes its five arguments and checks them
as create_proposal does. `App.tsx:322-335` passes no `onPage`, so that the page
numbers of `Pagination` are there for other callers only. The catch of `NewProposalForm`'s submission cannot be reached while
the call is a placeholder.

## 3. Runs

Deadlock is checked in the contract runs: every reachable state has a step, because the
setters of the admin stay enabled. It is not checked in the other runs: their programs may
stop for good (a process that exited, all slots and bounded events used up).

| Run | Instance | Checks |
|---|---|---|
| `gov_voting` | 2 accounts (symmetric), 1 proposal, weights and quorum up to 2, durations 1-2, 4 instants, 2 texts | `TypeOK`, `TallyExact`, `DecisionMatchesBallots`, `LifecycleRespected`, `TextFixedUnderBallots`, `BallotBoxImplemented` |
| `gov_proposals` | 2 accounts (symmetric), 2 tokens, 3 proposals for 2 slots, cooldown 0 or 2, 6 instants, no ballots | `ActiveCountExact`, `TokenFixedWhileActive`, `CooldownHonoured` |
| `gov_live` | 2 accounts, 2 proposals, ballots of weight 1 that overflow in sum, lists of the expired ids or of one id | `EventuallyDecided` under `FairSpec` |
| `token_ledger` | 3 accounts (symmetric), amounts up to 3, an initial supply of -1 or 2, 3 ledgers, one grant or delegation at a time | `SupplyExact`, `AllowanceHonoured`, `NoInflowWhilePaused`, `NoOverdraft` |
| `cosmos_treasury` | 1 account, 1 treasury, a payload in the voting token and one in the native asset, amounts up to 2 | `DisbursedOnce`, `ContractsImplemented`, `TreasuryPaysExecutedProposals` |
| `watcher` | 2 kinds of event (one untracked), log of 3, pages of 2, a subscriber with an own and an environment channel, 1 crash | `CursorBehindDelivery`, `StoreExact`, `NoDuplicateWithoutFault`, `EventuallyDelivered` under `LiveSpec` |
| `monitors` | logs of 3 in pages of 2 (`admin_monitor.js`), two logs of 2 in pages of 1 (`monitor.js`), 2 overlapping requests, 2 chains of ticks, 5 proposals for a limit of 3 | `AdminAlertsRight`, `LogsExamined`, `SingleLoop`, `ListingIsRecent`, `StopQuiesces`, `EventuallyPosted` |
| `client` | 2 wallets, 2 overlapping calls of each kind, 2 proposals in 2 versions, 3 toasts, 2 tabs, 3 tracked events in batches of 2 with 3 accidents, lists of 15 in pages of 2, 3 deploys | `ShownForWallet`, `RequestsHonest`, `ListNeverGoesBack`, `OneLoopInStep`, `ToastsEnd`, `QueueIntact`, `TabsAgree`, `PagesRight`, `OfflineServes` |
| `forms` | 2 submissions, 2 refreshes, 1 foreign transaction, validity of 2 intervals against 3 attempts, inputs on both sides of every limit and of i128 (1000 here) | `ErrorIsFinal`, `OneOwnSubmission`, `ReportedIsListed`, `NewFormInStep` |

What the properties mean (several are conjunctions of parts that the modules define and
comment one by one, each with a mutant of its own in `PROJECT.json`):

* `TallyExact`: the tallies kept by increments equal the total weight of the recorded
  ballots (`Weight`, a cardinality that shares nothing with the code's
  arithmetic), and flag and record agree.
* `DecisionMatchesBallots`: Passed/Executed iff quorum reached and Yes > No, judged from the
  ballots and in all later states too.
* `LifecycleRespected`: only the transitions of the lifecycle happen, a vote is decided
  only after its end, and a proposal that left Active keeps its ballots, tallies,
  quorum and text.
* `TextFixedUnderBallots`: no amendment under a recorded ballot, including abstentions.
* `BallotBoxImplemented`: refinement of `BallotBox`. It says in one formula what the properties above say
  one by one, and what none of them says: that nothing else happens to a poll. A ballot comes or goes
  only within the voting period and keeps its weight when it changes, each step concerns one
  poll and one voter, and a wording changes only while the poll is open and empty.
* `ActiveCountExact`, `TokenFixedWhileActive`: the counter is the number of Active
  proposals, hence the guard of update_voting_token does what it is for.
* `CooldownHonoured`: relates a new proposal to *all* earlier ones of its proposer.
* `EventuallyDecided`: see fairness.
* `SupplyExact`: supply = sum of the balances, negative ones included, counted in units from i128's
  minimum; the self-transfer through `transfer_from` is the case that a wrong read order would break.
* `NoOverdraft`: initialize accepts a negative supply (token `lib.rs:37-60`), nothing later makes a
  balance negative.
* `AllowanceHonoured`: drawn + remaining never exceeds the last grant, through re-approval,
  expiry and eviction.
* `NoInflowWhilePaused`: under a pause no balance rises.
* `ContractsImplemented`: a transaction that spans the contracts is one step of each, and an execution
  and its payment are the same step.
* `TreasuryPaysExecutedProposals`: tokens leave a treasury bound to governance only in the
  step that takes a Passed proposal to Executed, in the payload's amount, or by an
  admin's burn.
* `CursorBehindDelivery`: at least once. The cursor in the file never passes a tracked event
  whose sends have not all settled, under crashes, failures, torn reads and lost updates.
* `StoreExact`: file = completed commands and polls, unless load-change-save of two
  processes overlapped. `NoDuplicateWithoutFault`: at most once in a run without faults.
* `EventuallyDelivered`: through crashes and failing fetches, *unless* a full page holds no
  tracked event: then the cursor never moves again (`DeadPage`; 50 such events in a row).
* `AdminAlertsRight`: overlapping callbacks of `setInterval` share one
  cursor and may move it back; this repeats alerts but never skips one.
* `LogsExamined`: `monitor.js` sends the cursor of the last answer as `startLedger`, so what page comes back is
  up to the RPC, and the model lets it be any. Of a contract none of whose pages began after the cursor sent, every event behind
  the cursor was examined (once, if none began before it either), although half of a round may fail, be
  refused under HTTP 200 or bring no cursor; and every decoded mint that was examined is alerted.
* `SingleLoop`, `StopQuiesces`, `EventuallyPosted`: see section 1; a `start` before a poll in flight
  has noticed the `stop` is the one way to two loops.
* `ListingIsRecent`: what is listed is consecutive, at most the limit, and reaches the latest proposal
  although count and proposals are read one by one (with `--limit 1` it may be empty, see
  section 4).
* `ShownForWallet` (balance, connect dialog, delegation and its forms, vote status),
  `RequestsHonest` (spinner, the user's votes, vote preview) and `ListNeverGoesBack`: late and
  failed answers never show one account's data under another, nor an older list after a
  newer one, except when the asked-for thing changed while a request was in flight.
* `OneLoopInStep`: one polling loop whose delay follows the failures, unless a cleanup came during a call.
* `ToastsEnd`: in the hook one timer per toast that is to go, and timers armed after an unmount meet no
  toast; in the provider a toast notified from the latest render goes by itself, whatever removals
  stale closures arm, and none is armed for a toast to come.
* `QueueIntact`: an analytics event is received, in flight or stored, or it is one that the code gives
  up (no endpoint, an answer with an error status, an unreadable key, a page that closed before a save or
  during a post); not doubled and in order outside the accidents the parts name. `TabsAgree`: themes of tabs converge.
* `PagesRight`: every item on exactly one reachable page; page numbers against their
  description.
* `OfflineServes`: the cache through installs, activations and late writes.
* `ErrorIsFinal`: after a reported error (other than a broken connection) the transaction can no
  longer be included, because 20 attempts 2 s apart outlast its validity of 30 s; so
  submitting again cannot create a second proposal. The validity is set by the client's clock and judged by the
  ledger's: the model has one clock, which stands for two that agree within the 10 s between the two limits.
* `OneOwnSubmission`, `NewFormInStep`: the forms' flags and errors in any order of typing, closing,
  reopening and answers.
* `ReportedIsListed`: a proposal reported as created is on the list once the refresh has ended, unless a refresh
  failed, two overlapped, or the fetch of this one failed: fetchAllProposals drops it then without a word
  (`api.ts:115-126`).

**Bounds.** `MaxTime`, `MaxProposals` and the amounts are bounds; the constants 60 s, 30 days,
50 slots and 10 000 bps are parameters given small values so that their limits are
reached: all slots taken, a duration at and beyond its range, a quorum above the supply,
a tally at `MaxI128`, a cooldown that ends exactly now, the admin's window of a
division that rounds down. Two accounts suffice for the conflicts between a
proposer, another voter and the admin; proposals interact only through the counter, the
cooldown and the id, which three proposals for two slots exercise. In `cosmos_treasury`
`Quiet` lets the token's pause, delegation, admin transfer and allowances happen one at a
time before governance is initialized, and keeps governance unpaused, since
the other runs explore those; the run is about the calls between contracts.

In the off-chain runs two of everything (requests, loops, tabs, wallets, submissions) is what a
race needs, and slots are reused, so that a third follows the first two. Page sizes of
2 with logs of 3 give full, partial and empty pages and a page without tracked events. In
`forms` the validity (2) and the number of attempts (3) keep the order of the real values
(15 intervals, 20 attempts), and i128 ends at the quorum the form starts with, so that one
keystroke passes it. In `monitor.js`'s logs two events in pages of one give pages before, at and after the cursor. `Paging` takes lists up to 15 in pages of 2, so that both
ellipses appear.

**Fairness.** Nothing on chain calls finalise. `docs/lifecycle.md:45` asks for a keeper, which is
`scripts/finalise-expired-proposals.sh`. What the repository does with it is less than that: the cron of
`auto-finalise.yml` passes no ids, so that a scheduled run ends with the usage message (`Schedule`), and under `set -e`
the script drops all ids behind the first call that fails (`Abort`). `FairSpec` therefore asks of the program only that
ledgers close and a run ends (weak fairness), and of people and the network what nothing in the repository sees to:
whenever proposals are expired somebody keeps dispatching the workflow with their ids, and a call the contract
would accept does not fail for ever (strong fairness). `EventuallyDecided` has two premises: the contract does
not stay paused, and neither the tallies of the proposal nor those of an earlier one, which the list names
first, overflow when they are added. An overflowing proposal stays Active for ever unless the admin cancels it, and keeps the
script from the ids behind it.
In `watcher` the event loop runs what is ready (weak fairness of `WatcherStep`; every send has a
timeout or is caught), a supervisor restarts a dead watcher (weak fairness of
`startWatcher`), and neither Horizon nor the disk fails for ever (strong fairness of
`fetchNewEvents` and of the write); events, commands and crashes are never obliged.
In `monitors` the same holds of the backend: weak fairness of `Loop(k)`, strong fairness of
`PollOk(k)`; `start`, `stop`, signals and failures are never obliged.

**Where the code and its documentation disagree.** Three runs expect a violation:

| Run | Statement | What the code does |
|---|---|---|
| `claim_votes_supply` | "total votes can never exceed total_supply" (governance `lib.rs:428`) | `balance_at` is the live balance, so transferred tokens vote again |
| `claim_no_replay` | "resumes without replaying events on restart" (`docs/notification-service.md:12`) | the cursor is saved after the page was delivered, so a crash in between delivers it again |
| `claim_inspect` | "List proposals (default: last 10)" (`scripts/inspect-state.js:13`) | the ids asked for are 1..count, the contract's are 0..count - 1 |

Noticed in the contracts while modelling, without a run: change_vote does not test
`restrict_admin_vote` ("admin cannot vote on own proposals", `lib.rs:90`); update_quorum ignores the
`min_quorum_bps` floor (`lib.rs:89`); without a treasury, execute records Executed and pays nothing
(`types.rs:133`); burn_self works under a pause ("Pause all token operations", token `lib.rs:377`).
Noticed and visible from one line of code, so without a run: votes are called immutable
(`docs/governance-model.md:145`) but can be retracted and changed; finalise is said to work from
`end_time` on (`docs/governance-model.md:70`) but needs a later time; update_quorum is said to be
allowed only before any vote (`docs/api/governance.md:301`) but tests the time alone;
ADR-007 blocks a restricted admin from all proposals, the code only from the admin's own;
ADR-003 line 36 fixes voting power at creation, the token does not; the pause is said to stop all
state changes (`docs/api/governance.md:336`) but not cancel, execute and update_quorum.

Noticed in the services and scripts: a failed delivery is never retried; the backend keeps no
cursor and posts every event again at each poll; most topics that `monitor.js` matches are not
the tags the contracts emit (`created`, `voted`, `final`, `exec`, `cancel`, `quorum`, `admin`, `paused`,
`xfer`, `mint`...), so that of its rules only the mint alert can fire (`MintsAlerted`); it sends a
cursor where a start ledger is expected, which a strict RPC refuses under HTTP 200, and
the monitor then stays silent for ever, as it does for topics it cannot decode; `admin_monitor.js` waits for `unpaused` and `admin_trans`, the
contract emits `unpause` and `admin`.

Noticed in the frontend: the comment "restarts cleanly" of `usePolling.ts` does not hold for a call in
flight; the pending toast of a vote is never dismissed (`ProposalDetail.tsx:112`); two `notify` calls
in one render share an id, and a `notify` called after an await (`ProposalDetail.tsx:108`) arms the removal of an older toast, so that
the success toast stays for ever; `docs/analytics-policy.md:35` and `:38` describe a write-ahead
buffer whose key is cleared after a successful flush, but the key is cleared before the post, an answer with an error status
counts as success, and a reload under a flush in flight loses a batch that fails; two tabs
overwrite each other's queue; toggles that cross between two tabs can echo for ever; after the list
shrank, a click on Previous may show nothing new; `sw.js` caches error responses;
`CreateProposalForm` sends five arguments, create_proposal takes seven; both forms count
UTF-16 units, the contract bytes; a quorum of 0.4 is sent as 0, and one beyond i128 passes validation and fails when
it is encoded; a late `onSuccess` closes whatever
form is open by then; `NewProposalForm`'s header says its button is disabled whenever the form is
invalid, which is so only after the first attempt, and it focuses `np-description`, an id
that does not exist.

## 4. Proofs

Every safety property of the passing runs is a theorem for every value of the constants. The theorems, with the inductive invariant behind each:

| Module | Theorems | Invariant |
|---|---|---|
| `GovernanceProofs` | `TypeCorrect`, `ActiveCountCorrect`, `TallyCorrect`, `DecisionCorrect`, `LifecycleCorrect`, `TokenFixed`, `DisbursementCorrect`, `TextFixed`, `CooldownCorrect`, `BallotBoxRefined` | `GInv` |
| `TokenProofs` | `TokenTypeCorrect`, `SupplyCorrect`, `OverdraftCorrect`, `AllowanceCorrect`, `PauseCorrect` | `TInv` |
| `CosmosVoteProofs` | `GovernanceRefined`, `TokenRefined`, `ContractsRefined`, `BallotBoxInComposition`, `LedgerInComposition`, `TreasuryCorrect`, `PaidOnce` | `JointInv` |
| `WatcherProofs` | `CursorCorrect`, `StoreCorrect`, `AtMostOnce` | `WInv`, `SInv`, `OInv` |
| `MonitorProofs` | `AdminAlertsCorrect`, `LogsCorrect`, `SingleLoopCorrect`, `ListingCorrect` | `AdminInv`, `ChainInv`, `BackendInv`, `InspectInv` |
| `CreateProposalProofs` | `ErrorsAreFinal`, `OwnSubmissionCorrect`, `ReportedCorrect` | `CInv`, `OwnInv`, `ListInv` |
| `FormProofs` | `NewFormCorrect` | `NInv` |
| `ClientProofs` | `PollingCorrect`, `ToastsCorrect`, `OfflineCorrect`, `ThemeCorrect`, `ListCorrect`, `RequestsCorrect`, `WalletCorrect`, `AnalyticsCorrect`, `PagesCorrect` | `PollingInv`, `ToastInv`, `WorkerInv`, `ThemeInv`, `ListInv`, `VotesInv` and `PreviewInv`, `ViewsInv`, `AnalyticsInv`, `PagingInv` |

*Assumptions.* Every ASSUME stands in the module whose constants it is about, and TLC evaluates it
in the runs of that module. Most say that numeric constants are naturals (page sizes, limits and divisors
positive), that the sets that are counted are finite, and that a value standing for "none" is none of the others.
The ones with content:

* `SetsAssumption`: the zero account cannot sign. `AddressAssumption`: users, treasuries and the
  governance contract have different addresses (a contract has an address of its own).
* `ActionAssumption`: payloads go to users, not back to a treasury.
* `SubmissionAssumption`: `TxTimeout < MaxAttempts` (15 and 20 intervals in the code).
* `WatcherAssumption`: every subscriber has a channel of its own, as addSubscriber checks.
* `TokenAssumption`: in the composition the initial supply is one that `Governance` lets a token answer.
* `DelegationAssumption`: nobody is their own delegate, as the token's `delegate` checks.
* `WorkerAssumption`: the offline page is in the shell that install caches.
* `InputAssumption`: the two text fields hold texts and the two number fields integers.

**Governance.** None of `TypeOK`, `ActiveCountExact` and `TallyExact` is inductive alone. `TypeOK` needs the
other two: a retraction keeps a tally in `0..MaxI128` only if the tally contains the record's weight
(`TallyExact`), and creation keeps the counter within its limit because of its guard.
`ActiveCountExact` needs to know that a proposal leaving Active was counted, so that the
`if active_count > 0` of finalise and cancel never skips the decrement. And
`initialize` resets `proposal_count`, which is harmless only because no proposal exists
before it: `EmptyUntilReady`. The inductive invariant is

    GInv == TypeOK /\ ActiveCountExact /\ TallyExact /\ EmptyUntilReady

`Weight` is the cardinality of a set with one element per unit of weight, so
sums become disjoint unions: `AddBallot` and `RemoveBallot` say that adding or
removing a record changes exactly one choice's cardinality by the record's weight.
`TallyFrame` and `ActiveFrame` carry the invariants over steps that leave ballots or states
alone. One lemma per kind of action (create, edit, ballot, leave Active, execute,
configure) shows that `GInv` is preserved; `NextGInv` combines them.

For the other theorems, `QuietStep`, `ActiveStep` and `LeaveStep` sort the actions by what
they do to a given proposal (nothing; edit it while it stays Active; change its state only).
Each yields `LifecycleStep` and `DecidedStep` (a new Passed or Rejected is the outcome of the
tallies, which stay). A decision then agrees with the ballots when it is taken because of
`TallyExact`, and later because its inputs are frozen; a new proposal is Active
(`NewIsActive`). `TokenFixed` follows from the exact counter: zero means no Active proposal.
`TextFixed` follows from exact tallies and positive weights: if all tallies are zero there is no
ballot. `DisbursedOnce` is inductive, since it ties a payment to the state Executed, which `execute` refuses
and nothing leaves. `CooldownCorrect` needs `ProposerTimes`: the one time kept per proposer is not before
the creation of any of its proposals, and not in the future.

**The ballot box.** `BallotBoxRefined` shows each action of `Governance` to be an action of `BallotBox` on the
mapped state, or a stutter, with one lemma per action of the box. The box has weaker state and stronger guards,
so each lemma has to find a guard of the box in the contract's bookkeeping, and that is where the
invariants are used:

* `CloseStep`: the verdict of the ballots is the outcome of the tallies (`VerdictIsOutcome`, from `TallyExact`).
* `RewordStep`: tallies of zero mean no ballot (`BallotShows`).
* `OpenStep`: the counter below 50 means that fewer than `MaxOpen` polls are open (`ActiveCountExact`), and ids have no gaps.
* `FillStep`: the flag that `cast_vote` tests is unset only where there is no record, and `change_vote` keeps the weight.
* `OtherStep`: the token changes between polls only (`TokenStep`), and `initialize` finds no poll (`EmptyUntilReady`).
* `CarryOutStep`: a Passed proposal has not been paid for (`DisbursedOnce`).

With `GovernanceRefined` the result holds of the composition (`BallotBoxInComposition`).

**Token.** `TInv` adds to types, supply and allowances that before `initialize` there is no admin, no
pause and no balance (`UntouchedBefore`), since `initialize` sets supply and balance without looking. The supply is the sum of the balances, and each stays within
`i128` because the code's additions trap otherwise. Sums are cardinalities again, of units counted from
i128's minimum as a balance may be negative: a credit or debit adds or removes a block of units.

**Composition.** `CosmosVote` takes the token's answers from the token's state, so that a step refines
`Governance` only if those answers have the types `Governance` lets its parameters have: `TInv`. Hence
`JointInv == GInv /\ P!TInv`, where `P` is `TokenProofs` with users and treasuries as accounts.
Governance calls leave the token's variables alone but for the payment in `execute`, which is shown to be the
token's `transfer`. `TreasuryCorrect` goes through the token's actions: only
users sign them, so a treasury neither transfers nor approves, and only a payment and a burn lower its balance.
`LedgerInComposition` carries the token's two invariants over, by way of `TokenRefined`.

**Notification service.** `CursorBehindDelivery` speaks of the cursor in the file; it is inductive only
together with every value that may still become that cursor. `WInv`
says that all tracked events are settled up to the file's cursor, up to the cursor of each
update under way (a process may write back an old store over a newer one, so this must hold of
stale ones too), and up to the cursor a fetch started from; and up to the end of the page being
delivered, but for the events still in its queue. An event moves from the queue to the settled ones
in one step, and `saveCursor` waits for the queue to be empty. `SInv`, for behaviours without torn reads
or overtaken updates, adds that an update which has truncated the file holds its latest content, that
there is one such update, and that each process changes its own half of the store. `OInv`, for behaviours
without any fault, says that the page starts where the saved cursor stands, so what was sent lies
at or below that cursor or in the part of the page that has left the queue.

**Monitors, backend, inspection.** `AdminInv` covers every position to which a late answer may still set
the shared cursor back; each is one the alerts have reached. `ChainInv` adds to the property that an answer's cursor is
its page's end or the old cursor, and that a contract none of whose pages was skipped or repeated has
nothing examined beyond its cursor (`AnswersOK`, `NoneAhead`). `BackendInv`: the chain that sleeps is the one `this.timer` remembers, so `stop`
clears the right one, and a chain that is alive after `stop` was in flight then. `InspectInv`
says which ids have been listed at each point of the loop.

**Forms.** `CInv` says of each submission: before it is sent the network does not know it; while it
is polled for, the validity left plus the attempts made (one more if the next is due) is at most
`TxTimeout`, as long as any is left; and after an error it is not included and, if pending, not valid.
The second part is what ties the clock to the loop: a `Tick` takes one from the validity and makes one
attempt due, so the last attempt that finds nothing finds the validity at zero. `OwnInv`: the
flag is set iff the open form has a submission of its own, which closing turns into somebody
else's. `ListInv`: a success was included before it was reported, so a refresh that starts then reads it or
fails to fetch it, and what it failed to fetch goes along with the list it gives.
`NInv`: the form on screen is the only one whose flag and call must agree.

**Frontend.** Each property of the form `~raced => P` needs the reason why P survives a late answer:

* `PollingInv`: one loop, whose timer is the remembered one, and a first call finds the counter reset.
* `WorkerInv`: no page is served before the worker is active, the offline page is cached from the installation on,
  and the one write in flight carries what was served last.
* `ThemeInv`: a tab shows the saved theme or the last event on its way to it carries it. Whoever
  wrote last told all others, so this is inductive while *all events agree with the saved theme* is not.
* `ListInv`, `VotesInv`, `PreviewInv`: one request in flight, for what is asked for now, with nothing older
  than what is shown; versions on chain only grow.
* `ViewsInv`: each request of panel, detail and balance that is in flight is the connected wallet's, and a
  delegation form was opened on the delegation shown.
* `ToastInv`: ids only grow, so that neither a late show nor a stale removal has the id of a toast to come.
* `AnalyticsInv`: with one tab, its queue is what is stored or unsaved (`OneTab`), and an event not given up is
  received, in flight or queued (`Accounted`); received, stored, queues and posts are disjoint and without repetition
  (`HeldOnce`) and in order one after the other (`HeldInOrder`).
* `PagingInv`: types. The content of `PagesCorrect` is arithmetic and the loop that builds the page numbers.
  Pages: ceiling division, clamping and slices. Page numbers: the window has at most five numbers, which seven
  cases put in order (`WindowInOrder`); `RowRight` is the invariant of the loop, and as it has at most five turns,
  `OneTurn` applied one turn after another takes the place of an induction (`FiveTurns`).

**What the attempts showed.** With `--limit 1` the inspection script asks for the one id `count`, which no
proposal has, and so may print nothing: `ListingIsRecent` had claimed a non-empty list whenever two
proposals exist, true for the limits TLC had tried and false for 1. In `Backend`, the chains that outlive `stop`
were recorded too coarsely to be inductive: a chain whose timer `stop` itself clears does not outlive it
(`Cleared`). `RequestsHonest` and `ListNeverGoesBack` needed that a logged-out user is not an account
(`StoreAssumption`), `FormFitsDelegation` that nobody delegates to themselves.

*Only model-checked.* Liveness (`EventuallyDecided`, `EventuallyDelivered`, `StopQuiesces`, `EventuallyPosted`):
fairness and `ENABLED` are beyond the prover. The three statements of section 3 that are false.

## 5. Plan

Done: the three contracts and their composition, the services, monitors, scripts and the stateful
parts of the frontend, with the theorems of section 4. Left, in order of importance:

1. Read-only queries against reference definitions: `get_proposals_by_state` paging,
   `get_delegated_weight`.
2. An abstract ledger for `Token`, as `BallotBox` is for `Governance`.

## 6. Not modelled

`upgrade` (replaces the code under verification), events and read-only queries of the
contracts, token metadata, storage archival (it blocks a call until the entry is restored, and
loses nothing), log masking (`notification/src/secure_log.rs`, stateless string redaction),
`auth.ts` (a pure lookup no path uses), error texts, event names and formatting (`errors.ts`, `events.ts`,
`utils.ts`), rendering, translations and styling of the frontend, header menus, the placeholder
behind the vote buttons, and the deployment, rollback and infrastructure scripts (sequences of
CLI calls without a state of their own).

## 7. Running

    tlc -config GovVoting.cfg MCGovernance      # likewise the other runs in PROJECT.json
    tlapm GovernanceProofs.tla                  # likewise the other *Proofs modules
