----------------------------- MODULE FormProofs -----------------------------
(***************************************************************************)
(* Theorems about the second proposal form, for every input the user may   *)
(* type.                                                                   *)
(***************************************************************************)
EXTENDS NewProposal, TLAPS

-----------------------------------------------------------------------------
(* NewProposalForm.tsx                                                     *)

\* A form not opened yet has no call, the one on screen was opened, and its
\* flag says whether it has its one call in flight.
CallsInStep ==
  /\ opened \in 0..MaxForms /\ shown \in 0..opened
  /\ calls \in [1..MaxForms -> {0, 1}]
  /\ \A k \in 1..MaxForms : k > opened => calls[k] = 0
  /\ shown # 0 => (newSubmitting <=> calls[shown] = 1)

NInv == newForm \in Form /\ CallsInStep /\ ErrorsAreCurrent

\* Nothing is open.
LEMMA InitNInv == NewInit => NInv
<1>1. SUFFICES ASSUME NewInit PROVE NInv
  OBVIOUS
<1>2. CallsInStep
  BY <1>1, NewAssumption DEF NewInit, CallsInStep
<1>3. QED
  BY <1>1, <1>2, NewAssumption DEF NewInit, NInv, ErrorsAreCurrent

\* Opening and closing, by the user or by the answer of any form's call.
LEMMA MountNInv ==
  ASSUME NInv, OpenNewForm \/ onClose \/ \E k \in 1..MaxForms : onSuccess(k)
  PROVE  NInv'
<1>1. /\ newForm' = Empty /\ newTouched' = {} /\ submitAttempted' = FALSE
      /\ newSubmitting' = FALSE
  BY DEF OpenNewForm, onClose, onSuccess, Mounted
<1>2. newForm' \in Form /\ ErrorsAreCurrent'
  BY <1>1, NewAssumption DEF ErrorsAreCurrent
<1>3. CallsInStep'
  <2>1. CASE OpenNewForm
    <3>1. shown' = opened + 1 /\ opened' = opened + 1 /\ opened < MaxForms /\ calls' = calls
      BY <2>1 DEF OpenNewForm
    <3>2. opened + 1 \in 1..MaxForms /\ calls[opened + 1] = 0
      BY <3>1, NewAssumption DEF NInv, CallsInStep
    <3>3. QED
      BY <1>1, <3>1, <3>2, NewAssumption DEF NInv, CallsInStep
  <2>2. CASE onClose
    BY <2>2 DEF onClose, NInv, CallsInStep
  <2>3. ASSUME NEW k \in 1..MaxForms, onSuccess(k) PROVE CallsInStep'
    <3>1. /\ calls[k] > 0 /\ calls' = [calls EXCEPT ![k] = calls[k] - 1]
          /\ shown' = 0 /\ opened' = opened
      BY <2>3 DEF onSuccess
    <3>2. calls[k] = 1
      BY <3>1 DEF NInv, CallsInStep
    <3>3. calls' = [calls EXCEPT ![k] = 0]
      BY <3>1, <3>2
    <3>4. calls' \in [1..MaxForms -> {0, 1}] /\ \A j \in 1..MaxForms : calls'[j] \in {0, calls[j]}
      BY <3>3 DEF NInv, CallsInStep
    <3>5. QED
      BY <3>1, <3>4 DEF NInv, CallsInStep
  <2>4. QED
    BY <2>1, <2>2, <2>3
<1>4. QED
  BY <1>2, <1>3 DEF NInv

\* The error of one field follows its value, the others are left alone.
LEMMA RevalidateField ==
  ASSUME NEW n, NEW v
  PROVE  /\ n \in revalidateField(n, v) <=> ~validateField(n, v)
         /\ \A m : m # n => (m \in revalidateField(n, v) <=> m \in errors)
BY DEF revalidateField

\* Typing and leaving a field.
LEMMA FieldNInv ==
  ASSUME NInv, NEW n \in FieldNames,
         handleNewBlur(n) \/ \E v \in Inputs(n) : handleNewChange(n, v)
  PROVE  NInv'
<1>1. UNCHANGED <<submitAttempted, newSubmitting, shown, opened, calls>>
  BY DEF handleNewBlur, handleNewChange
<1>2. CallsInStep'
  BY <1>1 DEF NInv, CallsInStep
<1>3. CASE handleNewBlur(n)
  <2>1. newTouched' = newTouched \cup {n} /\ errors' = revalidateField(n, newForm[n])
        /\ newForm' = newForm
    BY <1>3 DEF handleNewBlur
  <2>2. ErrorsAreCurrent'
    BY <1>1, <2>1, RevalidateField DEF NInv, ErrorsAreCurrent
  <2>3. QED
    BY <1>2, <2>1, <2>2 DEF NInv
<1>4. ASSUME NEW v \in Inputs(n), handleNewChange(n, v) PROVE NInv'
  <2>1. /\ newForm' = [newForm EXCEPT ![n] = v] /\ newTouched' = newTouched
        /\ errors' = IF RealTime(n) THEN revalidateField(n, v) ELSE errors
    BY <1>4 DEF handleNewChange
  <2>2. newForm' \in Form
    BY <1>4, <2>1, InputAssumption DEF NInv, FieldNames, Form
  <2>3. \A m \in FieldNames : newForm'[m] = IF m = n THEN v ELSE newForm[m]
    BY <2>1 DEF NInv, Form, FieldNames
  <2>4. ErrorsAreCurrent'
    BY <1>1, <2>1, <2>3, RevalidateField DEF NInv, ErrorsAreCurrent, RealTime
  <2>5. QED
    BY <1>2, <2>2, <2>4 DEF NInv
<1>5. QED
  BY <1>3, <1>4

\* The click, possible while no call of this form is in flight.
LEMMA SubmitNInv ==
  ASSUME NInv, handleNewSubmit
  PROVE  NInv'
<1>1. /\ shown # 0 /\ ~newSubmitting /\ errors' = validateAll(newForm)
      /\ UNCHANGED <<newForm, newTouched, shown, opened>>
  BY DEF handleNewSubmit, MaySubmit
<1>2. ErrorsAreCurrent'
  BY <1>1 DEF ErrorsAreCurrent, validateAll
<1>3. CallsInStep'
  <2>1. CASE validateAll(newForm) # {}
    BY <1>1, <2>1 DEF handleNewSubmit, NInv, CallsInStep
  <2>2. CASE validateAll(newForm) = {}
    <3>1. newSubmitting' = TRUE /\ calls' = [calls EXCEPT ![shown] = calls[shown] + 1]
      BY <2>2 DEF handleNewSubmit
    <3>2. /\ shown \in 1..MaxForms /\ shown <= opened /\ opened \in 0..MaxForms
          /\ calls[shown] = 0
      BY <1>1, NewAssumption DEF NInv, CallsInStep
    <3>3. calls' = [calls EXCEPT ![shown] = 1]
      BY <3>1, <3>2
    <3>4. QED
      BY <1>1, <3>1, <3>2, <3>3 DEF NInv, CallsInStep
  <2>3. QED
    BY <2>1, <2>2
<1>4. QED
  BY <1>1, <1>2, <1>3 DEF NInv

\* NInv is inductive.
LEMMA NextNInv ==
  ASSUME NInv, [NewNext]_new_vars
  PROVE  NInv'
<1>1. CASE NewNext
  BY <1>1, MountNInv, FieldNInv, SubmitNInv DEF NewNext, NewSubmitStep
<1>2. CASE UNCHANGED new_vars
  BY <1>2 DEF new_vars, NInv, CallsInStep, ErrorsAreCurrent
<1>3. QED
  BY <1>1, <1>2

\* The errors shown are those of the text shown, and a form has one call in
\* flight exactly while it waits, through every order of typing, leaving
\* fields, submitting, closing and late answers (NewProposalForm.tsx).
THEOREM NewFormCorrect == NewSpec => []NewFormInStep
<1>1. NewInit => NInv
  BY InitNInv
<1>2. NInv /\ [NewNext]_new_vars => NInv'
  BY NextNInv
<1>3. NInv => NewFormInStep
  BY DEF NInv, CallsInStep, NewFormInStep, OneCallPerForm
<1>4. QED
  BY <1>1, <1>2, <1>3, PTL DEF NewSpec
=============================================================================
