--------------------------- MODULE CreateProposal ----------------------------
(***************************************************************************)
(* frontend/src/components/CreateProposalForm.tsx: the form that signs and *)
(* sends a create_proposal transaction and waits for it to be confirmed.   *)
(* The transaction is valid for 30 s from when it is built; the form asks  *)
(* for it 20 times, 2 s apart.  Time is counted in those 2 s intervals.    *)
(*                                                                         *)
(* The overlay and the cross close the form at any time.  A submission in  *)
(* flight goes on: its later setState calls reach nobody, but its          *)
(* onSuccess still closes whatever form the application shows by then.     *)
(*                                                                         *)
(* External: the wallet's account, the ledger, and the contract deployed   *)
(* at config.governanceContractId.  The form sends five arguments, and the *)
(* create_proposal of this repository takes seven: against that contract   *)
(* every simulation fails and every submission ends in GivesUp.  The later *)
(* steps are those against a contract that takes the form's five.          *)
(*                                                                         *)
(* The transaction's validity is set by the client's clock and judged by   *)
(* the ledger's: the two are taken to agree within the slack between       *)
(* TxTimeout and MaxAttempts.                                              *)
(***************************************************************************)
EXTENDS FormInputs

CONSTANTS
  Subs,        \* submissions, each made once
  Refreshes,   \* slots for list refreshes in flight
  InitialForm, \* INITIAL_FORM
  TxTimeout,   \* setTimeout(30), in intervals, rounded up
  MaxAttempts, \* the bound of the confirmation loop
  MaxSeq       \* bound on the account's sequence number

ASSUME SubmissionAssumption ==
  /\ TxTimeout \in Nat /\ MaxAttempts \in Nat \ {0} /\ MaxSeq \in Nat
  /\ TxTimeout < MaxAttempts
  /\ InitialForm \in Form

VARIABLES
  form, touched, submitting, submitError,
  open,        \* the form is on screen
  sub,         \* sub[s]: how far handleSubmit has come
  left,        \* left[s]: intervals until the transaction is no longer valid
  ledger,      \* ledger[s]: what the network knows of the transaction
  accountSeq,  \* the wallet account's sequence number
  listed,      \* the submissions whose proposal is on the list shown
  refresh,     \* refresh[r]: its stage, the list it has read, what it missed
  missing,     \* history: what the refresh that gave the list could not fetch
  listAtRisk   \* history: a refresh failed, or two overlapped

form_vars == <<form, touched, submitting, submitError, open>>
net_vars == <<left, ledger, accountSeq>>
list_vars == <<listed, refresh, missing, listAtRisk>>
create_vars == <<form_vars, sub, net_vars, list_vars>>

Phases == {"none", "account", "simulate", "prompt", "send", "poll", "done"}
Unused == [phase |-> "none", mine |-> FALSE, args |-> Args(InitialForm), seq |-> 0,
           attempts |-> 0, due |-> FALSE, outcome |-> "none"]

Idle == [stage |-> "idle", list |-> {}, missed |-> {}]

CreateInit ==
  /\ form = InitialForm /\ touched = {} /\ submitting = FALSE
  /\ submitError = FALSE /\ open = FALSE
  /\ sub = [s \in Subs |-> Unused]
  /\ left = [s \in Subs |-> 0] /\ ledger = [s \in Subs |-> "absent"]
  /\ accountSeq = 0
  /\ listed = {} /\ refresh = [r \in Refreshes |-> Idle]
  /\ missing = {} /\ listAtRisk = FALSE
-----------------------------------------------------------------------------
(* The form.                                                               *)

fieldError(f) ==
  {n \in FieldNames :
     \/ n = "title" /\ (Blank(f.title) \/ f.title.units > 128)
     \/ n = "description" /\ (Blank(f.description) \/ f.description.units > 1024)
     \/ n = "quorum" /\ f.quorum <= 0
     \/ n = "duration" /\ (f.duration < 600 \/ f.duration > 25920000)}

\* window.prompt blocks the page: nothing else runs until it is answered.
Prompting == \E s \in Subs : sub[s].phase = "prompt"

\* The state a form is mounted with; an unmounted one has none of its own.
Fresh ==
  /\ form' = InitialForm /\ touched' = {}
  /\ submitting' = FALSE /\ submitError' = FALSE

OpenForm ==
  /\ ~open /\ ~Prompting
  /\ open' = TRUE /\ Fresh
  /\ UNCHANGED <<sub, net_vars, list_vars>>

\* The fields stay editable while a submission is in flight.
handleChange(n, v) ==
  /\ open /\ ~Prompting /\ Typable(n, v)
  /\ form' = [form EXCEPT ![n] = v]
  /\ UNCHANGED <<touched, submitting, submitError, open, sub, net_vars, list_vars>>

handleBlur(n) ==
  /\ open /\ ~Prompting
  /\ touched' = touched \cup {n}
  /\ UNCHANGED <<form, submitting, submitError, open, sub, net_vars, list_vars>>

InFlight(s) == sub[s].phase \notin {"none", "done"}

\* The submissions in flight lose the form they would report to.
Orphaned == [s \in Subs |-> [sub[s] EXCEPT !.mine = @ /\ ~InFlight(s)]]

\* The overlay or the cross; the Cancel button is the same while it is enabled.
onCancel ==
  /\ open /\ ~Prompting
  /\ open' = FALSE /\ Fresh /\ sub' = Orphaned
  /\ UNCHANGED <<net_vars, list_vars>>
-----------------------------------------------------------------------------
(* handleSubmit, one step per await.                                       *)

SubmitEnabled_Always == TRUE
SubmitEnabled == ~submitting

handleSubmit(s) ==
  /\ open /\ ~Prompting /\ SubmitEnabled /\ sub[s].phase = "none"
  /\ touched' = FieldNames
  /\ IF fieldError(form) # {} THEN UNCHANGED <<submitting, submitError, sub>>
     ELSE /\ submitting' = TRUE /\ submitError' = FALSE
          /\ sub' = [sub EXCEPT ![s].phase = "account", ![s].mine = TRUE,
                                ![s].args = Args(form)]
  /\ UNCHANGED <<form, open, net_vars, list_vars>>

\* Leaving handleSubmit through its catch: what the form shows of it.
Leave(s, outcome) ==
  /\ sub' = [sub EXCEPT ![s].phase = "done", ![s].outcome = outcome]
  /\ submitError' = (submitError \/ sub[s].mine)
  /\ submitting' = (submitting /\ ~sub[s].mine)
  /\ UNCHANGED <<form, touched, open, list_vars>>

Validity_Doubled == 2 * TxTimeout
Validity == TxTimeout

\* getAccount is answered: the arguments are encoded, the transaction is built
\* on the next sequence number, and its validity starts to run.
getAccount(s) ==
  /\ sub[s].phase = "account" /\ ~Prompting /\ Encodable(sub[s].args)
  /\ sub' = [sub EXCEPT ![s].phase = "simulate", ![s].seq = accountSeq + 1]
  /\ left' = [left EXCEPT ![s] = Validity]
  /\ UNCHANGED <<form_vars, ledger, accountSeq, list_vars>>

\* simulateTransaction is answered without an error, and the prompt opens.
simulateTransaction(s) ==
  /\ sub[s].phase = "simulate" /\ ~Prompting /\ ContractLimits(sub[s].args)
  /\ sub' = [sub EXCEPT ![s].phase = "prompt"]
  /\ UNCHANGED <<form_vars, net_vars, list_vars>>

\* A request before the send fails, the quorum cannot be encoded, the contract
\* rejects the simulation, or the prompt is cancelled or answered with
\* something that is no secret key.
GivesUp(s) ==
  /\ sub[s].phase \in {"account", "simulate", "prompt"}
  /\ sub[s].phase # "prompt" => ~Prompting
  /\ Leave(s, "error")
  /\ UNCHANGED net_vars

\* The transaction is signed and posted.
Signed(s) ==
  /\ sub[s].phase = "prompt"
  /\ sub' = [sub EXCEPT ![s].phase = "send"]
  /\ UNCHANGED <<form_vars, net_vars, list_vars>>

\* The network takes a transaction while it is valid and next in sequence.
Acceptable(s) == left[s] > 0 /\ sub[s].seq = accountSeq + 1

\* sendTransaction: the node takes the transaction or not, and answers
\* ERROR, something else (PENDING, or TRY_AGAIN_LATER if it was not taken),
\* or the answer is lost and the call throws.
sendTransaction(s, taken, answer) ==
  /\ sub[s].phase = "send" /\ ~Prompting
  /\ taken => Acceptable(s)
  /\ answer = "ERROR" => ~taken
  /\ ledger' = [ledger EXCEPT ![s] = IF taken THEN "pending" ELSE @]
  /\ CASE answer = "ok" ->
            /\ sub' = [sub EXCEPT ![s].phase = "poll"]
            /\ UNCHANGED <<form_vars, list_vars>>
       [] answer = "ERROR" -> Leave(s, "error")
       [] answer = "lost" -> Leave(s, "unknown")
  /\ UNCHANGED <<left, accountSeq>>

handleProposalCreated_NoRefresh(s) ==
  open' = FALSE /\ UNCHANGED <<refresh, listAtRisk>>
\* onSuccess: the application closes the form and asks for the list again.
handleProposalCreated(s) ==
  /\ open' = FALSE
  /\ \E r \in Refreshes :
       /\ refresh[r] = Idle
       /\ refresh' = [refresh EXCEPT ![r].stage = "asked"]
       /\ listAtRisk' = (listAtRisk \/ \E q \in Refreshes : refresh[q] # Idle)

\* getTransaction answers, at least one interval after the last answer.
Confirmed(s) ==
  /\ sub[s].phase = "poll" /\ sub[s].due /\ ~Prompting /\ ledger[s] = "included"
  /\ sub' = [Orphaned EXCEPT ![s].phase = "done", ![s].outcome = "success"]
  /\ handleProposalCreated(s) /\ Fresh
  /\ UNCHANGED <<net_vars, listed, missing>>

FailedOnChain(s) ==
  /\ sub[s].phase = "poll" /\ sub[s].due /\ ~Prompting /\ ledger[s] = "failed"
  /\ Leave(s, "error")
  /\ UNCHANGED net_vars

NotFound(s) ==
  /\ sub[s].phase = "poll" /\ sub[s].due /\ ~Prompting
  /\ ledger[s] \notin {"included", "failed"}
  /\ IF sub[s].attempts + 1 < MaxAttempts
     THEN /\ sub' = [sub EXCEPT ![s].attempts = @ + 1, ![s].due = FALSE]
          /\ UNCHANGED <<form_vars, list_vars>>
     ELSE Leave(s, "error")
  /\ UNCHANGED net_vars

\* getTransaction throws: the form reports an error it knows nothing about.
PollThrows(s) ==
  /\ sub[s].phase = "poll" /\ sub[s].due /\ ~Prompting
  /\ Leave(s, "unknown")
  /\ UNCHANGED net_vars

\* fetchAllProposals reads the count and then every proposal by itself; one
\* that cannot be fetched is left out of the list without a word.
RefreshReads(r, missed) ==
  LET included == {s \in Subs : ledger[s] = "included"}
  IN  /\ refresh[r].stage = "asked" /\ missed \subseteq included
      /\ refresh' = [refresh EXCEPT ![r] =
           [stage |-> "read", list |-> included \ missed, missed |-> missed]]
      /\ UNCHANGED <<form_vars, sub, net_vars, listed, missing, listAtRisk>>

\* Its answer replaces the list; the whole refresh fails with its count.
RefreshEnds(r, ok) ==
  /\ refresh[r].stage = "read" /\ ~Prompting
  /\ refresh' = [refresh EXCEPT ![r] = Idle]
  /\ listed' = IF ok THEN refresh[r].list ELSE listed
  /\ missing' = IF ok THEN refresh[r].missed ELSE missing
  /\ listAtRisk' = (listAtRisk \/ ~ok)
  /\ UNCHANGED <<form_vars, sub, net_vars>>
-----------------------------------------------------------------------------
(* The network and the clock.                                              *)

Executes(s, ok) ==
  /\ ledger[s] = "pending" /\ Acceptable(s)
  /\ ledger' = [ledger EXCEPT ![s] = IF ok THEN "included" ELSE "failed"]
  /\ accountSeq' = accountSeq + 1
  /\ UNCHANGED <<form_vars, sub, left, list_vars>>

Dropped(s) ==
  /\ ledger[s] = "pending"
  /\ ledger' = [ledger EXCEPT ![s] = "absent"]
  /\ UNCHANGED <<form_vars, sub, left, accountSeq, list_vars>>

\* The wallet's owner sends another transaction elsewhere.
OtherTransaction ==
  /\ accountSeq < MaxSeq
  /\ accountSeq' = accountSeq + 1
  /\ UNCHANGED <<form_vars, sub, left, ledger, list_vars>>

Tick ==
  /\ left' = [s \in Subs |-> IF left[s] > 0 THEN left[s] - 1 ELSE 0]
  /\ sub' = [s \in Subs |-> [sub[s] EXCEPT !.due = (sub[s].phase = "poll")]]
  /\ UNCHANGED <<form_vars, ledger, accountSeq, list_vars>>

\* Everything but the user's typing.
SubmissionStep ==
  \/ OpenForm \/ onCancel \/ OtherTransaction \/ Tick
  \/ \E s \in Subs :
       \/ handleSubmit(s) \/ getAccount(s) \/ simulateTransaction(s) \/ GivesUp(s)
       \/ Signed(s) \/ Confirmed(s) \/ FailedOnChain(s) \/ NotFound(s) \/ PollThrows(s)
       \/ \E taken \in BOOLEAN, answer \in {"ok", "ERROR", "lost"} :
            sendTransaction(s, taken, answer)
       \/ \E ok \in BOOLEAN : Executes(s, ok)
       \/ Dropped(s)
  \/ \E r \in Refreshes : \/ \E missed \in SUBSET Subs : RefreshReads(r, missed)
                          \/ \E ok \in BOOLEAN : RefreshEnds(r, ok)

CreateNext ==
  \/ SubmissionStep
  \/ \E n \in FieldNames : handleBlur(n) \/ \E v \in Inputs(n) : handleChange(n, v)
CreateSpec == CreateInit /\ [][CreateNext]_create_vars
-----------------------------------------------------------------------------
(* An error the form reports is final: unless the connection broke after   *)
(* the send, a submission that was cancelled, rejected, failed or timed    *)
(* out never creates a proposal afterwards, so that submitting again is    *)
(* safe (CreateProposalForm.tsx: the confirmation loop outlasts the        *)
(* transaction's validity, as the client's clock and the ledger's agree).  *)
ErrorIsFinal == \A s \in Subs : sub[s].outcome = "error" => ledger[s] # "included"

(* An open form shows that it is submitting exactly while one submission   *)
(* of its own, and no more than one, is in flight, also when it was opened *)
(* over the submissions of a form closed earlier (handleSubmit's flag and  *)
(* the disabled button).                                                   *)
OneOwnSubmission ==
  LET own == {s \in Subs : sub[s].mine /\ InFlight(s)}
  IN  open => Cardinality(own) = IF submitting THEN 1 ELSE 0

(* A proposal reported as created is on the list once the refresh has been *)
(* answered, unless that refresh could not fetch this proposal, an earlier *)
(* refresh failed or two of them overlapped (App.tsx handleProposalCreated *)
(* and api.ts fetchAllProposals).                                          *)
ReportedIsListed ==
  (~listAtRisk /\ \A r \in Refreshes : refresh[r] = Idle)
    => {s \in Subs : sub[s].outcome = "success"} \subseteq listed \cup missing
=============================================================================
