------------------------ MODULE CreateProposalProofs ------------------------
(***************************************************************************)
(* Theorems about the form that creates proposals, for any number of       *)
(* submissions and every validity that is shorter than the confirmation    *)
(* loop.                                                                   *)
(***************************************************************************)
EXTENDS CreateProposal, FiniteSetTheorems, TLAPS

Submission ==
  [phase : Phases, mine : BOOLEAN, args : Arguments, seq : Nat, attempts : Nat,
   due : BOOLEAN, outcome : {"none", "error", "unknown", "success"}]

CTypeOK ==
  /\ form \in Form
  /\ sub \in [Subs -> Submission]
  /\ left \in [Subs -> Nat]
  /\ ledger \in [Subs -> {"absent", "pending", "included", "failed"}]
  /\ accountSeq \in Nat

\* Attempts made and validity left share the time since the send.
Spent(s) == sub[s].attempts + (IF sub[s].due THEN 1 ELSE 0)

\* Before it is sent a transaction is unknown to the network; while it is
\* polled for, its validity runs out before the attempts do; and once an
\* error was reported it is not included and, if pending, no longer valid.
Timely(s) ==
  /\ sub[s].phase \notin {"poll", "done"} =>
        ledger[s] = "absent" /\ sub[s].attempts = 0 /\ ~sub[s].due
  /\ left[s] <= TxTimeout
  /\ (sub[s].phase = "poll" /\ left[s] > 0) => left[s] + Spent(s) <= TxTimeout
  /\ sub[s].outcome = "error" =>
        /\ sub[s].phase = "done" /\ ledger[s] # "included"
        /\ ledger[s] = "pending" => left[s] = 0

CInv == CTypeOK /\ \A s \in Subs : Timely(s)

-----------------------------------------------------------------------------
\* The arguments that a form stands for are numbers.
LEMMA ArgsType ==
  ASSUME NEW f \in Form
  PROVE  Args(f) \in Arguments
BY DEF Form, Text, Args, Round, Arguments

\* Nothing has been submitted.
LEMMA InitCInv == CreateInit => CInv
<1>1. SUFFICES ASSUME CreateInit PROVE CInv
  OBVIOUS
<1>2. Unused \in Submission
  BY ArgsType, SubmissionAssumption DEF Unused, Submission, Phases
<1>3. CTypeOK
  BY <1>1, <1>2, SubmissionAssumption DEF CreateInit, CTypeOK
<1>4. ASSUME NEW s \in Subs PROVE Timely(s)
  BY <1>1, SubmissionAssumption DEF CreateInit, Timely, Spent, Unused
<1>5. QED
  BY <1>3, <1>4 DEF CInv

\* Whether a submission is timely depends on six values of it only: steps that
\* keep them keep the invariant.
LEMMA FrameCInv ==
  ASSUME CInv, CTypeOK', UNCHANGED <<left, ledger>>,
         \A s \in Subs : /\ sub'[s].phase = sub[s].phase
                         /\ sub'[s].attempts = sub[s].attempts
                         /\ sub'[s].due = sub[s].due
                         /\ sub'[s].outcome = sub[s].outcome
  PROVE  CInv'
BY DEF CInv, Timely, Spent

\* A step of one submission: the others are as they were, and this one is
\* timely again.
LEMMA OneCInv ==
  ASSUME CInv, CTypeOK', NEW s \in Subs, Timely(s)',
         \A t \in Subs \ {s} : sub'[t] = sub[t] /\ left'[t] = left[t] /\ ledger'[t] = ledger[t]
  PROVE  CInv'
BY DEF CInv, Timely, Spent

\* The form: typing, opening, closing.
LEMMA FormCInv ==
  ASSUME CInv,
         \/ OpenForm \/ onCancel
         \/ \E n \in FieldNames : handleBlur(n) \/ \E v \in Inputs(n) : handleChange(n, v)
  PROVE  CInv'
<1>1. UNCHANGED <<left, ledger, accountSeq>>
  BY DEF OpenForm, onCancel, handleBlur, handleChange, net_vars
<1>2. form' \in Form
  <2>1. CASE OpenForm \/ onCancel
    BY <2>1, SubmissionAssumption DEF OpenForm, onCancel, Fresh
  <2>2. CASE \E n \in FieldNames : handleBlur(n)
    BY <2>2 DEF handleBlur, CInv, CTypeOK
  <2>3. CASE \E n \in FieldNames : \E v \in Inputs(n) : handleChange(n, v)
    BY <2>3, InputAssumption DEF handleChange, FieldNames, Form, CInv, CTypeOK
  <2>4. QED
    BY <2>1, <2>2, <2>3
<1>3. sub' = sub \/ sub' = Orphaned
  BY DEF OpenForm, onCancel, handleBlur, handleChange
<1>4. Orphaned \in [Subs -> Submission]
      /\ \A s \in Subs : /\ Orphaned[s].phase = sub[s].phase
                         /\ Orphaned[s].attempts = sub[s].attempts
                         /\ Orphaned[s].due = sub[s].due
                         /\ Orphaned[s].outcome = sub[s].outcome
  BY DEF Orphaned, InFlight, CInv, CTypeOK, Submission
<1>5. CTypeOK'
  BY <1>1, <1>2, <1>3, <1>4 DEF CInv, CTypeOK
<1>6. QED
  BY <1>1, <1>3, <1>4, <1>5, FrameCInv

\* From the click to the signature: nothing is sent, so an error is final.
LEMMA BeforeSendCInv ==
  ASSUME CInv, NEW s \in Subs,
         \/ handleSubmit(s) \/ getAccount(s) \/ simulateTransaction(s)
         \/ GivesUp(s) \/ Signed(s)
  PROVE  CInv'
<1>0. /\ Timely(s) /\ sub \in [Subs -> Submission] /\ sub[s] \in Submission
      /\ Args(form) \in Arguments
  BY ArgsType DEF CInv, CTypeOK
<1>1. UNCHANGED <<form, ledger, accountSeq>>
  BY DEF handleSubmit, getAccount, simulateTransaction, GivesUp, Signed, Leave,
         net_vars, form_vars
<1>2. CASE handleSubmit(s)
  <2>1. UNCHANGED left /\ sub[s].phase = "none"
    BY <1>2 DEF handleSubmit, net_vars
  <2>2. \/ sub' = sub
        \/ sub' = [sub EXCEPT ![s].phase = "account", ![s].mine = TRUE, ![s].args = Args(form)]
    BY <1>2 DEF handleSubmit
  <2>3. CTypeOK'
    BY <1>0, <1>1, <2>1, <2>2 DEF CInv, CTypeOK, Submission, Phases
  <2>4. Timely(s)'
    BY <1>0, <1>1, <2>1, <2>2 DEF Timely, Spent, Submission
  <2>5. \A t \in Subs \ {s} : sub'[t] = sub[t] /\ left'[t] = left[t] /\ ledger'[t] = ledger[t]
    BY <1>0, <1>1, <2>1, <2>2
  <2>6. QED
    BY <2>3, <2>4, <2>5, OneCInv
<1>3. CASE getAccount(s)
  <2>1. /\ sub[s].phase = "account"
        /\ sub' = [sub EXCEPT ![s].phase = "simulate", ![s].seq = accountSeq + 1]
        /\ left' = [left EXCEPT ![s] = TxTimeout]
    BY <1>3 DEF getAccount, Validity
  <2>2. CTypeOK'
    <3>1. accountSeq + 1 \in Nat /\ left' \in [Subs -> Nat]
      BY <2>1, SubmissionAssumption DEF CInv, CTypeOK
    <3>2. ASSUME NEW n \in Nat
          PROVE  [sub EXCEPT ![s].phase = "simulate", ![s].seq = n] \in [Subs -> Submission]
      BY <1>0 DEF Submission, Phases
    <3>3. sub' \in [Subs -> Submission]
      BY <2>1, <3>1, <3>2
    <3>4. QED
      BY <1>1, <3>1, <3>3 DEF CInv, CTypeOK
  <2>3. Timely(s)'
    BY <1>0, <1>1, <2>1, SubmissionAssumption DEF CInv, CTypeOK, Timely, Spent, Submission
  <2>4. \A t \in Subs \ {s} : sub'[t] = sub[t] /\ left'[t] = left[t] /\ ledger'[t] = ledger[t]
    BY <1>0, <1>1, <2>1 DEF CInv, CTypeOK
  <2>5. QED
    BY <2>2, <2>3, <2>4, OneCInv
<1>4. CASE simulateTransaction(s) \/ Signed(s)
  <2>1. PICK ph \in {"prompt", "send"} :
           /\ sub[s].phase \in {"simulate", "prompt"}
           /\ sub' = [sub EXCEPT ![s].phase = ph]
           /\ UNCHANGED left
    BY <1>4 DEF simulateTransaction, Signed, net_vars
  <2>2. CTypeOK'
    BY <1>0, <1>1, <2>1 DEF CInv, CTypeOK, Submission, Phases
  <2>3. Timely(s)'
    BY <1>0, <1>1, <2>1 DEF Timely, Spent, Submission
  <2>4. \A t \in Subs \ {s} : sub'[t] = sub[t] /\ left'[t] = left[t] /\ ledger'[t] = ledger[t]
    BY <1>0, <1>1, <2>1 DEF CInv, CTypeOK
  <2>5. QED
    BY <2>2, <2>3, <2>4, OneCInv
<1>5. CASE GivesUp(s)
  <2>1. /\ sub[s].phase \in {"account", "simulate", "prompt"}
        /\ sub' = [sub EXCEPT ![s].phase = "done", ![s].outcome = "error"]
        /\ UNCHANGED left
    BY <1>5 DEF GivesUp, Leave, net_vars
  <2>2. CTypeOK'
    BY <1>0, <1>1, <2>1 DEF CInv, CTypeOK, Submission, Phases
  <2>3. Timely(s)'
    BY <1>0, <1>1, <2>1 DEF Timely, Spent, Submission
  <2>4. \A t \in Subs \ {s} : sub'[t] = sub[t] /\ left'[t] = left[t] /\ ledger'[t] = ledger[t]
    BY <1>0, <1>1, <2>1 DEF CInv, CTypeOK
  <2>5. QED
    BY <2>2, <2>3, <2>4, OneCInv
<1>6. QED
  BY <1>2, <1>3, <1>4, <1>5

\* The send: an ERROR answer means that the transaction was not taken, and
\* otherwise polling starts with the whole of the validity that is left.
LEMMA SendCInv ==
  ASSUME CInv, NEW s \in Subs, NEW taken \in BOOLEAN,
         NEW answer \in {"ok", "ERROR", "lost"}, sendTransaction(s, taken, answer)
  PROVE  CInv'
<1>0. Timely(s) /\ sub \in [Subs -> Submission] /\ sub[s] \in Submission
  BY DEF CInv, CTypeOK
<1>1. /\ UNCHANGED <<form, left, accountSeq>>
      /\ sub[s].phase = "send"
      /\ ledger' = [ledger EXCEPT ![s] = IF taken THEN "pending" ELSE @]
      /\ answer = "ERROR" => ~taken
  BY DEF sendTransaction, form_vars, Leave
<1>2. \/ sub' = [sub EXCEPT ![s].phase = "poll"]
      \/ answer = "ERROR" /\ sub' = [sub EXCEPT ![s].phase = "done", ![s].outcome = "error"]
      \/ sub' = [sub EXCEPT ![s].phase = "done", ![s].outcome = "unknown"]
  BY DEF sendTransaction, Leave
<1>3. CTypeOK'
  BY <1>0, <1>1, <1>2 DEF CInv, CTypeOK, Submission, Phases
<1>4. Timely(s)'
  BY <1>0, <1>1, <1>2, SubmissionAssumption DEF CInv, CTypeOK, Timely, Spent, Submission
<1>5. \A t \in Subs \ {s} : sub'[t] = sub[t] /\ left'[t] = left[t] /\ ledger'[t] = ledger[t]
  BY <1>0, <1>1, <1>2 DEF CInv, CTypeOK
<1>6. QED
  BY <1>3, <1>4, <1>5, OneCInv

\* An attempt: when the last one finds nothing, the validity has run out.
LEMMA PollCInv ==
  ASSUME CInv, NEW s \in Subs,
         FailedOnChain(s) \/ NotFound(s) \/ PollThrows(s)
  PROVE  CInv'
<1>0. Timely(s) /\ sub \in [Subs -> Submission] /\ sub[s] \in Submission
  BY DEF CInv, CTypeOK
<1>1. /\ UNCHANGED <<form, left, ledger, accountSeq>>
      /\ sub[s].phase = "poll" /\ sub[s].due
  BY DEF FailedOnChain, NotFound, PollThrows, Leave, net_vars, form_vars
<1>2. \/ sub' = [sub EXCEPT ![s].attempts = @ + 1, ![s].due = FALSE]
      \/ /\ sub' = [sub EXCEPT ![s].phase = "done", ![s].outcome = "error"]
         /\ \/ ledger[s] = "failed"
            \/ ledger[s] # "included" /\ ~(sub[s].attempts + 1 < MaxAttempts)
      \/ sub' = [sub EXCEPT ![s].phase = "done", ![s].outcome = "unknown"]
  BY DEF FailedOnChain, NotFound, PollThrows, Leave
<1>3. CTypeOK'
  BY <1>0, <1>1, <1>2 DEF CInv, CTypeOK, Submission, Phases
<1>4. left[s] \in Nat /\ sub[s].attempts \in Nat
  BY <1>0 DEF CInv, CTypeOK, Submission
<1>5. ~(sub[s].attempts + 1 < MaxAttempts) => left[s] = 0
  BY <1>0, <1>1, <1>4, SubmissionAssumption DEF Timely, Spent
<1>6. Timely(s)'
  BY <1>0, <1>1, <1>2, <1>4, <1>5, SubmissionAssumption DEF Timely, Spent, Submission
<1>7. \A t \in Subs \ {s} : sub'[t] = sub[t] /\ left'[t] = left[t] /\ ledger'[t] = ledger[t]
  BY <1>0, <1>1, <1>2
<1>8. QED
  BY <1>3, <1>6, <1>7, OneCInv

\* A confirmation reports a success, and leaves the other submissions without
\* the form they would report to.
LEMMA ConfirmedCInv ==
  ASSUME CInv, NEW s \in Subs, Confirmed(s)
  PROVE  CInv'
<1>0. Timely(s) /\ sub \in [Subs -> Submission]
  BY DEF CInv, CTypeOK
<1>1. /\ UNCHANGED <<left, ledger, accountSeq>>
      /\ sub[s].phase = "poll" /\ form' = InitialForm
      /\ sub' = [Orphaned EXCEPT ![s].phase = "done", ![s].outcome = "success"]
  BY DEF Confirmed, Fresh, net_vars
<1>2. Orphaned \in [Subs -> Submission]
  BY <1>0 DEF Orphaned, InFlight, Submission
<1>3. CTypeOK'
  <2>1. sub' \in [Subs -> Submission]
    BY <1>1, <1>2 DEF Submission, Phases
  <2>2. QED
    BY <1>1, <2>1, SubmissionAssumption DEF CInv, CTypeOK
<1>4. \A t \in Subs \ {s} : /\ sub'[t].phase = sub[t].phase
                            /\ sub'[t].attempts = sub[t].attempts
                            /\ sub'[t].due = sub[t].due
                            /\ sub'[t].outcome = sub[t].outcome
  BY <1>0, <1>1 DEF Orphaned, Submission
<1>5. sub'[s].phase = "done" /\ sub'[s].outcome = "success"
  BY <1>1, <1>2 DEF Submission
<1>6. ASSUME NEW t \in Subs PROVE Timely(t)'
  <2>1. Timely(t)
    BY DEF CInv
  <2>2. CASE t = s
    BY <1>1, <1>5, <2>1, <2>2 DEF Timely
  <2>3. CASE t # s
    BY <1>1, <1>4, <2>1, <2>3 DEF Timely, Spent
  <2>4. QED
    BY <2>2, <2>3
<1>7. QED
  BY <1>3, <1>6 DEF CInv

\* The network includes what is pending and valid: nothing that was reported
\* as an error.
LEMMA NetworkCInv ==
  ASSUME CInv, NEW s \in Subs, Dropped(s) \/ \E ok \in BOOLEAN : Executes(s, ok)
  PROVE  CInv'
<1>0. Timely(s) /\ left[s] \in Nat
  BY DEF CInv, CTypeOK
<1>1. UNCHANGED <<form, sub, left>> /\ ledger[s] = "pending"
  BY DEF Dropped, Executes, form_vars
<1>2. PICK x \in {"absent", "included", "failed"} :
         /\ ledger' = [ledger EXCEPT ![s] = x]
         /\ x # "absent" => left[s] > 0
  BY DEF Dropped, Executes, Acceptable
<1>3. accountSeq' \in Nat
  BY DEF Dropped, Executes, CInv, CTypeOK
<1>4. CTypeOK'
  BY <1>1, <1>2, <1>3 DEF CInv, CTypeOK
<1>5. Timely(s)'
  BY <1>0, <1>1, <1>2 DEF CInv, CTypeOK, Timely, Spent
<1>6. QED
  BY <1>1, <1>2, <1>4, <1>5, OneCInv

\* An interval passes: what the validity loses, the attempts may gain.
LEMMA TickCInv ==
  ASSUME CInv, Tick
  PROVE  CInv'
<1>1. /\ UNCHANGED <<form, ledger, accountSeq>>
      /\ left' = [s \in Subs |-> IF left[s] > 0 THEN left[s] - 1 ELSE 0]
      /\ sub' = [s \in Subs |-> [sub[s] EXCEPT !.due = (sub[s].phase = "poll")]]
  BY DEF Tick, form_vars
<1>2. CTypeOK'
  <2>1. ASSUME NEW r \in Submission, NEW b \in BOOLEAN
        PROVE  [r EXCEPT !.due = b] \in Submission
    BY DEF Submission
  <2>2. sub' \in [Subs -> Submission]
    BY <1>1, <2>1 DEF CInv, CTypeOK
  <2>3. left' \in [Subs -> Nat]
    BY <1>1 DEF CInv, CTypeOK
  <2>4. QED
    BY <1>1, <2>2, <2>3 DEF CInv, CTypeOK
<1>3. ASSUME NEW s \in Subs PROVE Timely(s)'
  <2>1. /\ sub[s] \in Submission /\ left[s] \in Nat /\ Timely(s)
        /\ left'[s] = IF left[s] > 0 THEN left[s] - 1 ELSE 0
        /\ sub'[s].phase = sub[s].phase /\ sub'[s].attempts = sub[s].attempts
        /\ sub'[s].outcome = sub[s].outcome
        /\ sub'[s].due = (sub[s].phase = "poll")
    BY <1>1 DEF CInv, CTypeOK, Submission
  <2>2. QED
    BY <1>1, <2>1, SubmissionAssumption DEF Timely, Spent, Submission
<1>4. QED
  BY <1>2, <1>3 DEF CInv

\* The invariant is inductive.
LEMMA NextCInv ==
  ASSUME CInv, [CreateNext]_create_vars
  PROVE  CInv'
<1>1. CASE OtherTransaction \/ \E r \in Refreshes :
              \/ \E missed \in SUBSET Subs : RefreshReads(r, missed)
              \/ \E ok \in BOOLEAN : RefreshEnds(r, ok)
  <2>1. UNCHANGED <<form, sub, left, ledger>> /\ accountSeq' \in Nat
    BY <1>1 DEF OtherTransaction, RefreshReads, RefreshEnds, form_vars, net_vars, CInv, CTypeOK
  <2>2. CTypeOK'
    BY <2>1 DEF CInv, CTypeOK
  <2>3. QED
    BY <2>1, <2>2, FrameCInv
<1>2. CASE UNCHANGED create_vars
  <2>1. UNCHANGED <<form, sub, left, ledger, accountSeq>>
    BY <1>2 DEF create_vars, form_vars, net_vars
  <2>2. QED
    BY <2>1, FrameCInv DEF CInv, CTypeOK
<1>3. CASE SubmissionStep
  BY <1>1, <1>3, FormCInv, BeforeSendCInv, SendCInv, PollCInv, ConfirmedCInv,
     NetworkCInv, TickCInv DEF SubmissionStep
<1>4. QED
  BY <1>2, <1>3, FormCInv DEF CreateNext

-----------------------------------------------------------------------------
\* An error that the form reports, other than a broken connection, is final:
\* the transaction can no longer create a proposal, however the network, the
\* clock and the user interleave (CreateProposalForm.tsx:148-174).
THEOREM ErrorsAreFinal == CreateSpec => []ErrorIsFinal
<1>1. CreateInit => CInv
  BY InitCInv
<1>2. CInv /\ [CreateNext]_create_vars => CInv'
  BY NextCInv
<1>3. CInv => ErrorIsFinal
  BY DEF CInv, Timely, ErrorIsFinal
<1>4. QED
  BY <1>1, <1>2, <1>3, PTL DEF CreateSpec

-----------------------------------------------------------------------------
(* The form's waiting flag and its own submissions.                        *)

Own(s) == sub[s].mine /\ InFlight(s)

\* A form has at most one submission of its own in flight, its flag says
\* whether it has one, and a form that is closed has none.
OwnInv ==
  /\ \A s, t \in Subs : Own(s) /\ Own(t) => s = t
  /\ submitting => \E s \in Subs : Own(s)
  /\ (\E s \in Subs : Own(s)) => submitting
  /\ ~open => \A s \in Subs : ~Own(s)

\* Steps that leave the form and everyone's ownership alone.
LEMMA FrameOwn ==
  ASSUME OwnInv, UNCHANGED <<open, submitting>>,
         \A s \in Subs : Own(s)' <=> Own(s)
  PROVE  OwnInv'
BY DEF OwnInv

\* A submission goes on to another phase in flight.
LEMMA AdvanceOwn ==
  ASSUME OwnInv, UNCHANGED <<open, submitting>>,
         \A s \in Subs : /\ sub'[s].mine = sub[s].mine
                         /\ sub'[s].phase \in {"none", "done"} <=> sub[s].phase \in {"none", "done"}
  PROVE  OwnInv'
<1>1. \A s \in Subs : Own(s)' <=> Own(s)
  BY DEF Own, InFlight
<1>2. QED
  BY <1>1, FrameOwn

\* The catch of handleSubmit: the form's own submission clears the flag, an
\* orphaned one does not touch it.
LEMMA LeaveOwn ==
  ASSUME CInv, OwnInv, NEW s \in Subs, NEW outcome, Leave(s, outcome), InFlight(s)
  PROVE  OwnInv'
<1>1. /\ sub' = [sub EXCEPT ![s].phase = "done", ![s].outcome = outcome]
      /\ submitting' = (submitting /\ ~sub[s].mine) /\ open' = open
  BY DEF Leave
<1>2. \A t \in Subs : Own(t)' <=> (Own(t) /\ t # s)
  BY <1>1 DEF Own, InFlight, CInv, CTypeOK, Submission
<1>3. CASE sub[s].mine
  <2>1. Own(s) /\ submitting' = FALSE
    BY <1>1, <1>3 DEF Own
  <2>2. \A t \in Subs : ~Own(t)'
    BY <1>2, <2>1 DEF OwnInv
  <2>3. QED
    BY <2>1, <2>2 DEF OwnInv
<1>4. CASE ~sub[s].mine
  <2>1. ~Own(s) /\ (submitting' <=> submitting)
    BY <1>1, <1>4 DEF Own
  <2>2. \A t \in Subs : Own(t)' <=> Own(t)
    BY <1>2, <2>1
  <2>3. QED
    BY <1>1, <2>1, <2>2 DEF OwnInv
<1>5. QED
  BY <1>3, <1>4

\* A form that opens, closes or is closed starts without a submission.
LEMMA FreshOwn ==
  ASSUME CInv, OwnInv, OpenForm \/ onCancel \/ \E s \in Subs : Confirmed(s)
  PROVE  OwnInv'
<1>1. submitting' = FALSE
  BY DEF OpenForm, onCancel, Confirmed, Fresh
<1>2. \A t \in Subs : ~Own(t)'
  <2>1. CASE OpenForm
    BY <2>1 DEF OpenForm, OwnInv, Own, InFlight
  <2>2. CASE onCancel
    BY <2>2 DEF onCancel, Orphaned, Own, InFlight, CInv, CTypeOK, Submission
  <2>3. ASSUME NEW s \in Subs, Confirmed(s) PROVE \A t \in Subs : ~Own(t)'
    <3>1. sub' = [Orphaned EXCEPT ![s].phase = "done", ![s].outcome = "success"]
      BY <2>3 DEF Confirmed
    <3>2. /\ Orphaned \in [Subs -> Submission]
          /\ \A t \in Subs : Orphaned[t].phase = sub[t].phase
                             /\ (Orphaned[t].mine <=> (sub[t].mine /\ ~InFlight(t)))
      BY DEF Orphaned, InFlight, CInv, CTypeOK, Submission
    <3>3. /\ sub'[s].phase = "done"
          /\ \A t \in Subs \ {s} : sub'[t] = Orphaned[t]
      BY <3>1, <3>2 DEF Submission
    <3>4. QED
      BY <3>2, <3>3 DEF Own, InFlight
  <2>4. QED
    BY <2>1, <2>2, <2>3
<1>3. QED
  BY <1>1, <1>2 DEF OwnInv

\* The click: the button is enabled only while the flag is down.
LEMMA SubmitOwn ==
  ASSUME CInv, OwnInv, NEW s \in Subs, handleSubmit(s)
  PROVE  OwnInv'
<1>1. CASE fieldError(form) # {}
  BY <1>1, AdvanceOwn DEF handleSubmit
<1>2. CASE fieldError(form) = {}
  <2>1. /\ sub' = [sub EXCEPT ![s].phase = "account", ![s].mine = TRUE, ![s].args = Args(form)]
        /\ submitting' = TRUE /\ ~submitting /\ open /\ open' = open
    BY <1>2 DEF handleSubmit, SubmitEnabled
  <2>2. /\ sub'[s].phase = "account" /\ sub'[s].mine = TRUE
        /\ \A t \in Subs \ {s} : sub'[t] = sub[t]
    BY <2>1 DEF CInv, CTypeOK, Submission
  <2>3. \A t \in Subs : Own(t)' <=> t = s
    BY <2>1, <2>2 DEF OwnInv, Own, InFlight
  <2>4. QED
    BY <2>1, <2>3 DEF OwnInv
<1>3. QED
  BY <1>1, <1>2

\* The steps of one submission after the click.
LEMMA StepOwn ==
  ASSUME CInv, OwnInv, NEW s \in Subs,
         \/ getAccount(s) \/ simulateTransaction(s) \/ GivesUp(s) \/ Signed(s)
         \/ FailedOnChain(s) \/ NotFound(s) \/ PollThrows(s)
         \/ \E taken \in BOOLEAN, answer \in {"ok", "ERROR", "lost"} :
              sendTransaction(s, taken, answer)
  PROVE  OwnInv'
<1>1. CASE getAccount(s) \/ simulateTransaction(s) \/ Signed(s)
  <2>1. /\ UNCHANGED <<open, submitting>>
        /\ sub[s].phase \in {"account", "simulate", "prompt"}
        /\ \/ sub' = [sub EXCEPT ![s].phase = "simulate", ![s].seq = accountSeq + 1]
           \/ sub' = [sub EXCEPT ![s].phase = "prompt"]
           \/ sub' = [sub EXCEPT ![s].phase = "send"]
    BY <1>1 DEF getAccount, simulateTransaction, Signed, form_vars
  <2>2. /\ \A t \in Subs : sub'[t].mine = sub[t].mine
        /\ sub'[s].phase \in {"simulate", "prompt", "send"}
        /\ \A t \in Subs \ {s} : sub'[t] = sub[t]
    BY <2>1 DEF CInv, CTypeOK, Submission
  <2>3. QED
    BY <2>1, <2>2, AdvanceOwn
<1>2. CASE GivesUp(s) \/ FailedOnChain(s) \/ PollThrows(s)
  <2>1. InFlight(s) /\ \E outcome \in {"error", "unknown"} : Leave(s, outcome)
    BY <1>2 DEF GivesUp, FailedOnChain, PollThrows, InFlight
  <2>2. QED
    BY <2>1, LeaveOwn
<1>3. CASE NotFound(s)
  <2>1. CASE sub[s].attempts + 1 < MaxAttempts
    <3>1. /\ UNCHANGED <<open, submitting>> /\ sub[s].phase = "poll"
          /\ sub' = [sub EXCEPT ![s].attempts = sub[s].attempts + 1, ![s].due = FALSE]
      BY <1>3, <2>1 DEF NotFound, form_vars
    <3>2. \A t \in Subs : sub'[t].mine = sub[t].mine /\ sub'[t].phase = sub[t].phase
      BY <3>1 DEF CInv, CTypeOK, Submission
    <3>3. QED
      BY <3>1, <3>2, AdvanceOwn
  <2>2. CASE ~(sub[s].attempts + 1 < MaxAttempts)
    <3>1. InFlight(s) /\ Leave(s, "error")
      BY <1>3, <2>2 DEF NotFound, InFlight
    <3>2. QED
      BY <3>1, LeaveOwn
  <2>3. QED
    BY <2>1, <2>2
<1>4. ASSUME NEW taken \in BOOLEAN, NEW answer \in {"ok", "ERROR", "lost"},
             sendTransaction(s, taken, answer)
      PROVE  OwnInv'
  <2>1. sub[s].phase = "send" /\ InFlight(s)
    BY <1>4 DEF sendTransaction, InFlight
  <2>2. CASE answer = "ok"
    <3>1. UNCHANGED <<open, submitting>> /\ sub' = [sub EXCEPT ![s].phase = "poll"]
      BY <1>4, <2>2 DEF sendTransaction, form_vars
    <3>2. /\ \A t \in Subs : sub'[t].mine = sub[t].mine
          /\ sub'[s].phase = "poll"
          /\ \A t \in Subs \ {s} : sub'[t] = sub[t]
      BY <3>1 DEF CInv, CTypeOK, Submission
    <3>3. QED
      BY <2>1, <3>1, <3>2, AdvanceOwn
  <2>3. CASE answer = "ERROR"
    BY <1>4, <2>1, <2>3, LeaveOwn DEF sendTransaction
  <2>4. CASE answer = "lost"
    BY <1>4, <2>1, <2>4, LeaveOwn DEF sendTransaction
  <2>5. QED
    BY <2>2, <2>3, <2>4
<1>5. QED
  BY <1>1, <1>2, <1>3, <1>4

\* The clock, the network, the list and the keyboard.
LEMMA OtherOwn ==
  ASSUME CInv, OwnInv,
         \/ OtherTransaction \/ Tick
         \/ (\E s \in Subs : Dropped(s) \/ \E ok \in BOOLEAN : Executes(s, ok))
         \/ (\E r \in Refreshes : \/ \E missed \in SUBSET Subs : RefreshReads(r, missed)
                                 \/ \E ok \in BOOLEAN : RefreshEnds(r, ok))
         \/ (\E n \in FieldNames : handleBlur(n) \/ \E v \in Inputs(n) : handleChange(n, v))
  PROVE  OwnInv'
<1>1. UNCHANGED <<open, submitting>>
  BY DEF OtherTransaction, Tick, Dropped, Executes, RefreshReads, RefreshEnds,
         handleBlur, handleChange, form_vars
<1>2. \A s \in Subs : sub'[s].mine = sub[s].mine /\ sub'[s].phase = sub[s].phase
  <2>1. CASE Tick
    BY <2>1 DEF Tick, CInv, CTypeOK, Submission
  <2>2. CASE ~Tick
    <3>1. UNCHANGED sub
      BY <2>2 DEF OtherTransaction, Dropped, Executes, RefreshReads, RefreshEnds,
                  handleBlur, handleChange
    <3>2. QED
      BY <3>1
  <2>3. QED
    BY <2>1, <2>2
<1>3. QED
  BY <1>1, <1>2, AdvanceOwn

\* OwnInv is inductive, given CInv.
LEMMA NextOwn ==
  ASSUME CInv, OwnInv, [CreateNext]_create_vars
  PROVE  OwnInv'
<1>1. CASE CreateNext
  BY <1>1, FreshOwn, SubmitOwn, StepOwn, OtherOwn DEF CreateNext, SubmissionStep
<1>2. CASE UNCHANGED create_vars
  BY <1>2, AdvanceOwn DEF create_vars, form_vars
<1>3. QED
  BY <1>1, <1>2

\* An open form shows that it is submitting exactly while one submission of
\* its own is in flight, whatever submissions of forms closed before it still
\* are (CreateProposalForm.tsx handleSubmit).
THEOREM OwnSubmissionCorrect == CreateSpec => []OneOwnSubmission
<1>1. CreateInit => CInv /\ OwnInv
  BY InitCInv DEF CreateInit, OwnInv, Own, InFlight, Unused
<1>2. CInv /\ OwnInv /\ [CreateNext]_create_vars => (CInv /\ OwnInv)'
  BY NextCInv, NextOwn
<1>3. OwnInv => OneOwnSubmission
  <2>1. SUFFICES ASSUME OwnInv
                 PROVE  Cardinality({s \in Subs : Own(s)}) = IF submitting THEN 1 ELSE 0
    BY DEF OneOwnSubmission, Own
  <2>2. CASE submitting
    <3>1. PICK s \in Subs : Own(s)
      BY <2>1, <2>2 DEF OwnInv
    <3>2. {t \in Subs : Own(t)} = {s}
      BY <2>1, <3>1 DEF OwnInv
    <3>3. QED
      BY <2>2, <3>2, FS_Singleton, Zenon
  <2>3. CASE ~submitting
    <3>1. {t \in Subs : Own(t)} = {}
      BY <2>1, <2>3 DEF OwnInv
    <3>2. QED
      BY <2>3, <3>1, FS_EmptySet
  <2>4. QED
    BY <2>2, <2>3
<1>4. QED
  BY <1>1, <1>2, <1>3, PTL DEF CreateSpec

-----------------------------------------------------------------------------
(* The list after a success.                                               *)

Successes == {s \in Subs : sub[s].outcome = "success"}
Included == {s \in Subs : ledger[s] = "included"}

RefreshState ==
  [stage : {"idle", "asked", "read"}, list : SUBSET Subs, missed : SUBSET Subs]
RefreshTypeOK ==
  /\ refresh \in [Refreshes -> RefreshState]
  /\ \A r \in Refreshes : refresh[r].stage = "idle" => refresh[r] = Idle

\* As long as the refreshes came one by one and none failed: the one under
\* way has read every success, failed to fetch it, or has still to read, and
\* with none under way the list shows those the last one fetched.
ListInStep ==
  /\ \A q, r \in Refreshes : refresh[q] # Idle /\ refresh[r] # Idle => q = r
  /\ \A r \in Refreshes : refresh[r].stage = "read" =>
                            Successes \subseteq refresh[r].list \cup refresh[r].missed
  /\ (\A r \in Refreshes : refresh[r] = Idle) => Successes \subseteq listed \cup missing

ListInv ==
  /\ RefreshTypeOK
  /\ \A s \in Successes : sub[s].phase = "done"
  /\ Successes \subseteq Included
  /\ ~listAtRisk => ListInStep

\* Nothing has been created.
LEMMA InitList == CreateInit => ListInv
<1>1. SUFFICES ASSUME CreateInit PROVE ListInv
  OBVIOUS
<1>2. Successes = {}
  BY <1>1 DEF CreateInit, Successes, Unused
<1>3. RefreshTypeOK
  BY <1>1 DEF CreateInit, RefreshTypeOK, RefreshState, Idle
<1>4. QED
  BY <1>1, <1>2, <1>3 DEF CreateInit, ListInv, ListInStep, Idle

\* Steps that leave the list alone, report no success and lose no proposal.
LEMMA FrameList ==
  ASSUME ListInv, UNCHANGED list_vars, Included \subseteq Included',
         \A s \in Subs : sub'[s].outcome = "success" =>
                           sub[s].outcome = "success" /\ sub'[s].phase = "done"
  PROVE  ListInv'
<1>1. Successes' \subseteq Successes
  BY DEF Successes
<1>2. \A s \in Successes' : sub'[s].phase = "done"
  BY DEF Successes
<1>3. UNCHANGED <<listed, refresh, missing, listAtRisk>>
  BY DEF list_vars
<1>4. RefreshTypeOK'
  BY <1>3 DEF ListInv, RefreshTypeOK
<1>5. ASSUME ~listAtRisk' PROVE ListInStep'
  BY <1>1, <1>3, <1>5 DEF ListInv, ListInStep
<1>6. Successes' \subseteq Included'
  BY <1>1 DEF ListInv
<1>7. QED
  BY <1>2, <1>4, <1>5, <1>6 DEF ListInv

\* A success: the proposal is on the ledger, and a refresh is asked for.
LEMMA ConfirmedList ==
  ASSUME CInv, ListInv, NEW s \in Subs, Confirmed(s)
  PROVE  ListInv'
<1>1. /\ ledger[s] = "included" /\ ledger' = ledger
      /\ sub' = [Orphaned EXCEPT ![s].phase = "done", ![s].outcome = "success"]
      /\ handleProposalCreated(s)
  BY DEF Confirmed, net_vars
<1>2. PICK r \in Refreshes :
         /\ refresh[r] = Idle /\ refresh' = [refresh EXCEPT ![r].stage = "asked"]
         /\ listAtRisk' = (listAtRisk \/ \E q \in Refreshes : refresh[q] # Idle)
  BY <1>1 DEF handleProposalCreated
<1>3. /\ Orphaned \in [Subs -> Submission]
      /\ \A t \in Subs : Orphaned[t].phase = sub[t].phase
                         /\ Orphaned[t].outcome = sub[t].outcome
  BY DEF Orphaned, InFlight, CInv, CTypeOK, Submission
<1>4. /\ sub'[s].phase = "done" /\ sub'[s].outcome = "success"
      /\ \A t \in Subs \ {s} : sub'[t] = Orphaned[t]
  BY <1>1, <1>3 DEF Submission
<1>5. Successes' = Successes \cup {s}
  BY <1>3, <1>4 DEF Successes
<1>6. \A t \in Successes' : sub'[t].phase = "done"
  BY <1>3, <1>4, <1>5 DEF ListInv, Successes
<1>7. Successes' \subseteq Included'
  BY <1>1, <1>5 DEF ListInv, Included
<1>8. /\ refresh'[r].stage = "asked"
      /\ \A q \in Refreshes \ {r} : refresh'[q] = refresh[q]
  BY <1>2 DEF ListInv, RefreshTypeOK
<1>9. RefreshTypeOK'
  <2>1. refresh' \in [Refreshes -> RefreshState]
    BY <1>2 DEF ListInv, RefreshTypeOK, RefreshState
  <2>2. QED
    BY <1>8, <2>1 DEF ListInv, RefreshTypeOK
<1>10. ASSUME ~listAtRisk' PROVE ListInStep'
  <2>1. \A q \in Refreshes : refresh[q] = Idle
    BY <1>2, <1>10
  <2>2. refresh'[r] # Idle /\ \A q \in Refreshes \ {r} : refresh'[q] = Idle
    BY <1>8, <2>1 DEF Idle
  <2>3. \A q \in Refreshes : refresh'[q].stage # "read"
    BY <1>8, <2>2 DEF Idle
  <2>4. QED
    BY <2>2, <2>3 DEF ListInStep
<1>11. QED
  BY <1>6, <1>7, <1>9, <1>10 DEF ListInv

\* A refresh reads what the ledger holds, but for what it cannot fetch, and
\* replaces the list with it.
LEMMA RefreshList ==
  ASSUME ListInv, NEW r \in Refreshes,
         \/ \E missed \in SUBSET Subs : RefreshReads(r, missed)
         \/ \E ok \in BOOLEAN : RefreshEnds(r, ok)
  PROVE  ListInv'
<1>1. UNCHANGED <<sub, ledger>>
  BY DEF RefreshReads, RefreshEnds, net_vars
<1>2. Successes' = Successes /\ Included' = Included
  BY <1>1 DEF Successes, Included
<1>3. \A s \in Successes' : sub'[s].phase = "done"
  BY <1>1, <1>2 DEF ListInv
<1>4. ASSUME NEW missed \in SUBSET Subs, RefreshReads(r, missed) PROVE ListInv'
  <2>1. PICK answer \in RefreshState :
          /\ answer.stage = "read" /\ answer.list = Included \ missed
          /\ answer.missed = missed
          /\ refresh' = [refresh EXCEPT ![r] = answer]
    <3>1. Included \ missed \in SUBSET Subs
      BY DEF Included
    <3>2. QED
      BY <1>4, <3>1 DEF RefreshReads, RefreshState, Included
  <2>2. refresh[r].stage = "asked" /\ UNCHANGED <<listed, missing, listAtRisk>>
    BY <1>4 DEF RefreshReads
  <2>3. refresh'[r] = answer /\ \A q \in Refreshes \ {r} : refresh'[q] = refresh[q]
    BY <2>1 DEF ListInv, RefreshTypeOK
  <2>4. RefreshTypeOK'
    <3>1. refresh' \in [Refreshes -> RefreshState]
      BY <2>1 DEF ListInv, RefreshTypeOK
    <3>2. QED
      BY <2>1, <2>3, <3>1 DEF ListInv, RefreshTypeOK
  <2>5. refresh[r] # Idle /\ refresh'[r] # Idle
    BY <2>1, <2>2, <2>3 DEF Idle
  <2>6. Successes \subseteq refresh'[r].list \cup refresh'[r].missed
    BY <2>1, <2>3 DEF ListInv
  <2>7. ASSUME ~listAtRisk' PROVE ListInStep'
    BY <1>2, <2>2, <2>3, <2>5, <2>6, <2>7 DEF ListInv, ListInStep
  <2>8. QED
    BY <1>2, <1>3, <2>4, <2>7 DEF ListInv
<1>5. ASSUME NEW ok \in BOOLEAN, RefreshEnds(r, ok) PROVE ListInv'
  <2>1. /\ refresh' = [refresh EXCEPT ![r] = Idle] /\ refresh[r].stage = "read"
        /\ listed' = IF ok THEN refresh[r].list ELSE listed
        /\ missing' = IF ok THEN refresh[r].missed ELSE missing
        /\ listAtRisk' = (listAtRisk \/ ~ok)
    BY <1>5 DEF RefreshEnds
  <2>2. \A q \in Refreshes : refresh'[q] = IF q = r THEN Idle ELSE refresh[q]
    BY <2>1 DEF ListInv, RefreshTypeOK
  <2>3. RefreshTypeOK'
    BY <2>1, <2>2 DEF ListInv, RefreshTypeOK, RefreshState, Idle
  <2>4. ASSUME ~listAtRisk' PROVE ListInStep'
    <3>1. ListInStep /\ listed' = refresh[r].list /\ missing' = refresh[r].missed
      BY <2>1, <2>4 DEF ListInv
    <3>2. Successes \subseteq listed' \cup missing'
      BY <2>1, <3>1 DEF ListInStep
    <3>3. Idle.stage = "idle"
      BY DEF Idle
    <3>4. QED
      BY <1>2, <2>2, <3>1, <3>2, <3>3 DEF ListInStep
  <2>5. QED
    BY <1>2, <1>3, <2>3, <2>4 DEF ListInv
<1>6. QED
  BY <1>4, <1>5

\* The other steps of a submission report no success.
LEMMA StepList ==
  ASSUME CInv, ListInv, NEW s \in Subs,
         \/ handleSubmit(s) \/ getAccount(s) \/ simulateTransaction(s) \/ GivesUp(s)
         \/ Signed(s) \/ FailedOnChain(s) \/ NotFound(s) \/ PollThrows(s)
         \/ \E taken \in BOOLEAN, answer \in {"ok", "ERROR", "lost"} :
              sendTransaction(s, taken, answer)
  PROVE  ListInv'
<1>1. UNCHANGED list_vars /\ sub[s].phase # "done"
  BY DEF handleSubmit, getAccount, simulateTransaction, GivesUp, Signed, FailedOnChain,
         NotFound, PollThrows, sendTransaction, Leave
<1>2. \A t \in Subs \ {s} : sub'[t] = sub[t]
  BY DEF handleSubmit, getAccount, simulateTransaction, GivesUp, Signed, FailedOnChain,
         NotFound, PollThrows, sendTransaction, Leave, CInv, CTypeOK
<1>3. sub'[s].outcome \in {sub[s].outcome, "error", "unknown"}
  <2>1. CASE handleSubmit(s) \/ getAccount(s) \/ simulateTransaction(s) \/ Signed(s)
    BY <2>1 DEF handleSubmit, getAccount, simulateTransaction, Signed, CInv, CTypeOK, Submission
  <2>2. CASE GivesUp(s) \/ FailedOnChain(s) \/ PollThrows(s)
    BY <2>2 DEF GivesUp, FailedOnChain, PollThrows, Leave, CInv, CTypeOK, Submission
  <2>3. CASE NotFound(s)
    BY <2>3 DEF NotFound, Leave, CInv, CTypeOK, Submission
  <2>4. CASE \E taken \in BOOLEAN, answer \in {"ok", "ERROR", "lost"} :
               sendTransaction(s, taken, answer)
    <3>1. \/ sub' = [sub EXCEPT ![s].phase = "poll"]
          \/ \E outcome \in {"error", "unknown"} :
               sub' = [sub EXCEPT ![s].phase = "done", ![s].outcome = outcome]
      BY <2>4 DEF sendTransaction, Leave
    <3>2. QED
      BY <3>1 DEF CInv, CTypeOK, Submission
  <2>5. QED
    BY <2>1, <2>2, <2>3, <2>4
<1>4. sub[s].outcome # "success"
  BY <1>1 DEF ListInv, Successes
<1>5. Included \subseteq Included'
  <2>1. \A t \in Subs : ledger[t] = "included" => ledger'[t] = "included"
    <3>1. ledger[s] = "included" => ledger'[s] = ledger[s]
      BY DEF handleSubmit, getAccount, simulateTransaction, GivesUp, Signed, FailedOnChain,
             NotFound, PollThrows, sendTransaction, net_vars, CInv, CTypeOK, Timely
    <3>2. \A t \in Subs \ {s} : ledger'[t] = ledger[t]
      BY DEF handleSubmit, getAccount, simulateTransaction, GivesUp, Signed, FailedOnChain,
             NotFound, PollThrows, sendTransaction, net_vars, CInv, CTypeOK
    <3>3. QED
      BY <3>1, <3>2
  <2>2. QED
    BY <2>1 DEF Included
<1>6. \A t \in Subs : sub'[t].outcome = "success" =>
                        sub[t].outcome = "success" /\ sub'[t].phase = "done"
  BY <1>2, <1>3, <1>4 DEF ListInv, Successes
<1>7. QED
  BY <1>1, <1>5, <1>6, FrameList

\* Nor do the form, the clock and the network.
LEMMA OtherList ==
  ASSUME CInv, ListInv,
         \/ OpenForm \/ onCancel \/ OtherTransaction \/ Tick
         \/ (\E s \in Subs : Dropped(s) \/ \E ok \in BOOLEAN : Executes(s, ok))
         \/ (\E n \in FieldNames : handleBlur(n) \/ \E v \in Inputs(n) : handleChange(n, v))
  PROVE  ListInv'
<1>1. UNCHANGED list_vars
  BY DEF OpenForm, onCancel, OtherTransaction, Tick, Dropped, Executes, handleBlur, handleChange
<1>2. Included \subseteq Included'
  <2>1. CASE \E s \in Subs : Dropped(s) \/ \E ok \in BOOLEAN : Executes(s, ok)
    BY <2>1 DEF Dropped, Executes, CInv, CTypeOK, Included
  <2>2. CASE ledger' = ledger
    BY <2>2 DEF Included
  <2>3. QED
    BY <2>1, <2>2
      DEF OpenForm, onCancel, OtherTransaction, Tick, handleBlur, handleChange, net_vars
<1>3. \A s \in Subs : sub'[s].outcome = sub[s].outcome /\ sub'[s].phase = sub[s].phase
  <2>1. CASE Tick
    BY <2>1 DEF Tick, CInv, CTypeOK, Submission
  <2>2. CASE onCancel
    BY <2>2 DEF onCancel, Orphaned, InFlight, CInv, CTypeOK, Submission
  <2>3. CASE ~Tick /\ ~onCancel
    <3>1. UNCHANGED sub
      BY <2>3 DEF OpenForm, OtherTransaction, Dropped, Executes, handleBlur, handleChange
    <3>2. QED
      BY <3>1
  <2>4. QED
    BY <2>1, <2>2, <2>3
<1>4. QED
  BY <1>1, <1>2, <1>3, FrameList DEF ListInv, Successes

\* ListInv is inductive, given CInv.
LEMMA NextList ==
  ASSUME CInv, ListInv, [CreateNext]_create_vars
  PROVE  ListInv'
<1>1. CASE CreateNext
  BY <1>1, ConfirmedList, RefreshList, StepList, OtherList DEF CreateNext, SubmissionStep
<1>2. CASE UNCHANGED create_vars
  BY <1>2, FrameList DEF create_vars, net_vars, Included, ListInv, Successes
<1>3. QED
  BY <1>1, <1>2

\* A proposal the form reported as created is on the list once no refresh is
\* under way, unless the refresh that gave the list could not fetch it, one
\* failed as a whole or two overlapped (App.tsx handleProposalCreated, api.ts
\* fetchAllProposals).
THEOREM ReportedCorrect == CreateSpec => []ReportedIsListed
<1>1. CreateInit => CInv /\ ListInv
  BY InitCInv, InitList
<1>2. CInv /\ ListInv /\ [CreateNext]_create_vars => (CInv /\ ListInv)'
  BY NextCInv, NextList
<1>3. ListInv => ReportedIsListed
  BY DEF ListInv, ListInStep, Successes, ReportedIsListed
<1>4. QED
  BY <1>1, <1>2, <1>3, PTL DEF CreateSpec
=============================================================================
