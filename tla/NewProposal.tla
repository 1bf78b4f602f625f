----------------------------- MODULE NewProposal -----------------------------
(***************************************************************************)
(* frontend/src/components/NewProposalForm.tsx: the second proposal form.  *)
(* Its errors are state of their own, recomputed by the handlers, and its  *)
(* submission is a placeholder that answers after 800 ms.  Closing it does *)
(* not stop the placeholder, whose onSuccess then closes whatever form is  *)
(* open.                                                                   *)
(***************************************************************************)
EXTENDS FormInputs

CONSTANTS
  Empty,       \* INITIAL
  MaxForms     \* bound on the forms opened

ASSUME NewAssumption == Empty \in Form /\ MaxForms \in Nat

VARIABLES
  newForm, errors, newTouched, submitAttempted, newSubmitting,
  shown,       \* the form on screen, or 0
  opened,      \* forms opened so far; each is numbered
  calls        \* calls[k]: placeholder calls of form k in flight

new_vars == <<newForm, errors, newTouched, submitAttempted, newSubmitting,
              shown, opened, calls>>

\* The state a form is mounted with; an unmounted one has none of its own.
Mounted ==
  /\ newForm' = Empty /\ errors' = {} /\ newTouched' = {}
  /\ submitAttempted' = FALSE /\ newSubmitting' = FALSE

NewInit ==
  /\ newForm = Empty /\ errors = {} /\ newTouched = {}
  /\ submitAttempted = FALSE /\ newSubmitting = FALSE
  /\ shown = 0 /\ opened = 0 /\ calls = [k \in 1..MaxForms |-> 0]

\* Is the value free of errors?  (Number.isInteger: a whole number of tenths.)
validateField(n, v) ==
  CASE n = "title" -> ~Blank(v) /\ v.units <= 128
    [] n = "description" -> ~Blank(v) /\ v.units <= 1024
    [] n = "quorum" -> v % 10 = 0 /\ v > 0
    [] n = "duration" -> v % 10 = 0 /\ v >= 600 /\ v <= 25920000

validateAll(f) == {n \in FieldNames : ~validateField(n, f[n])}

\* revalidateField: the error of one field is set or deleted.
revalidateField(n, v) == IF validateField(n, v) THEN errors \ {n} ELSE errors \cup {n}

OpenNewForm ==
  /\ shown = 0 /\ opened < MaxForms
  /\ opened' = opened + 1 /\ shown' = opened + 1
  /\ Mounted
  /\ UNCHANGED calls

onClose ==
  /\ shown # 0 /\ shown' = 0
  /\ Mounted
  /\ UNCHANGED <<opened, calls>>

RealTime_TouchedOnly(n) == n \in newTouched
\* Feedback on every keystroke only after a blur or a submit.
RealTime(n) == n \in newTouched \/ submitAttempted

handleNewChange(n, v) ==
  /\ shown # 0 /\ Typable(n, v)
  /\ newForm' = [newForm EXCEPT ![n] = v]
  /\ errors' = IF RealTime(n) THEN revalidateField(n, v) ELSE errors
  /\ UNCHANGED <<newTouched, submitAttempted, newSubmitting, shown, opened, calls>>

handleNewBlur(n) ==
  /\ shown # 0
  /\ newTouched' = newTouched \cup {n}
  /\ errors' = revalidateField(n, newForm[n])
  /\ UNCHANGED <<newForm, submitAttempted, newSubmitting, shown, opened, calls>>

MaySubmit_WhenValid == ~(submitAttempted /\ validateAll(newForm) # {})
\* The submit button is disabled while submitting, and after a first attempt
\* while the form has errors.
MaySubmit == ~newSubmitting /\ ~(submitAttempted /\ validateAll(newForm) # {})

handleNewSubmit ==
  /\ shown # 0 /\ MaySubmit
  /\ submitAttempted' = TRUE
  /\ errors' = validateAll(newForm)
  /\ IF validateAll(newForm) # {} THEN UNCHANGED <<newSubmitting, calls>>
     ELSE newSubmitting' = TRUE /\ calls' = [calls EXCEPT ![shown] = @ + 1]
  /\ UNCHANGED <<newForm, newTouched, shown, opened>>

\* The placeholder answers; onSuccess closes the form that is open, whose
\* state goes with it (newSubmitting is not cleared before that).  The
\* placeholder cannot fail, so the handler's catch is never reached.
onSuccess(k) ==
  /\ calls[k] > 0
  /\ calls' = [calls EXCEPT ![k] = @ - 1]
  /\ shown' = 0
  /\ Mounted
  /\ UNCHANGED opened

NewSubmitStep == OpenNewForm \/ onClose \/ handleNewSubmit \/ \E k \in 1..MaxForms : onSuccess(k)

NewNext ==
  \/ NewSubmitStep
  \/ \E n \in FieldNames : \/ handleNewBlur(n)
                           \/ \E v \in Inputs(n) : handleNewChange(n, v)
NewSpec == NewInit /\ [][NewNext]_new_vars
-----------------------------------------------------------------------------
(* The errors on screen are those of the text on screen: for every field   *)
(* the form gives feedback on, an error is recorded exactly if its current *)
(* value has one, through any order of typing, blurring and submitting     *)
(* (handleChange, handleBlur, handleSubmit and revalidateField).           *)
ErrorsAreCurrent ==
  shown # 0 => \A n \in FieldNames :
    (n \in newTouched \/ submitAttempted)
      => (n \in errors <=> ~validateField(n, newForm[n]))

(* One form has at most one submission in flight, and an open form waiting *)
(* for one holds no other form's: the button is disabled until the form is *)
(* gone (the disabled attribute; handleSubmit clears the flag only on a    *)
(* failure).                                                               *)
OneCallPerForm ==
  /\ \A k \in 1..MaxForms : calls[k] <= 1
  /\ shown # 0 => (newSubmitting <=> calls[shown] = 1)

(* The second form shows the errors of its current text and waits for one  *)
(* submission of its own (NewProposalForm.tsx).                            *)
NewFormInStep == ErrorsAreCurrent /\ OneCallPerForm
=============================================================================
