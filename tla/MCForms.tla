------------------------------- MODULE MCForms -------------------------------
(***************************************************************************)
(* The two proposal forms.  A behaviour follows one of three parts: the    *)
(* first form's submissions with few inputs, its fields with many inputs,  *)
(* and the second form.                                                    *)
(***************************************************************************)
EXTENDS CreateProposal, NewProposal

VARIABLE part
all_vars == <<part, create_vars, new_vars>>

Txt(u, t, b) == [units |-> u, trimmed |-> t, bytes |-> b]
NoText == Txt(0, 0, 0)

MCInitialForm == [title |-> NoText, description |-> NoText,
                  quorum |-> 10000, duration |-> 864000]
MCEmpty == [title |-> NoText, description |-> NoText, quorum |-> 0, duration |-> 0]

\* Both sides of every limit of the forms (longer text than the inputs take
\* included); blanks, surrounding blanks, multi-byte text.
MCInputs(n) ==
  CASE n = "title" -> {NoText, Txt(3, 0, 0), Txt(128, 128, 128), Txt(130, 128, 128),
                       Txt(129, 129, 129), Txt(100, 100, 200)}
    [] n = "description" -> {NoText, Txt(1024, 1024, 1024), Txt(1025, 1025, 1025)}
    [] n = "quorum" -> {0, 4, 5, 10}
    [] n = "duration" -> {594, 600, 605, 25920000, 25920001}

\* In the submission part the user fills the form in with accepted text or
\* clears the title, and may raise the quorum, at the limit of the i128 in the
\* instance, beyond it.
FewInputs(n) ==
  CASE n = "title" -> {NoText, Txt(128, 128, 128)}
    [] n = "description" -> {Txt(1024, 1024, 1024)}
    [] n = "quorum" -> {10 * MaxI128 + 5}
    [] OTHER -> {}

Init ==
  /\ part \in {"submit", "fields", "new"}
  /\ CreateInit /\ NewInit

SubmitTurn ==
  /\ part = "submit"
  /\ \/ SubmissionStep
     \/ \E n \in FieldNames : \E v \in FewInputs(n) : handleChange(n, v)
  /\ UNCHANGED <<part, new_vars>>
FieldsTurn ==
  /\ part = "fields"
  /\ \/ OpenForm
     \/ \E n \in FieldNames : \/ handleBlur(n)
                              \/ \E v \in Inputs(n) : handleChange(n, v)
  /\ UNCHANGED <<part, new_vars>>
NewTurn ==
  /\ part = "new" /\ NewNext
  /\ UNCHANGED <<part, create_vars>>

Next == SubmitTurn \/ FieldsTurn \/ NewTurn
Spec == Init /\ [][Next]_all_vars
=============================================================================
