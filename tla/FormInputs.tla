----------------------------- MODULE FormInputs ------------------------------
(***************************************************************************)
(* What the two proposal forms of the web client have in common: the four  *)
(* input fields, and the limits of the contract their input is meant for.  *)
(*                                                                         *)
(* A text is a record: its length as JavaScript counts it (units), that    *)
(* length once trimmed (trimmed), and the UTF-8 bytes of the trimmed text, *)
(* which is what the contract's String::len counts (bytes).  A number is   *)
(* given in tenths, so that 4 is "0.4"; values of 0 or less stand for an   *)
(* empty, a non-numeric and a non-positive input alike.                    *)
(***************************************************************************)
EXTENDS Integers, FiniteSets

CONSTANTS
  Inputs(_),   \* Inputs(n): what the user may type into field n
  MaxI128      \* i128::MAX, small in the instances

FieldNames == {"title", "description", "quorum", "duration"}

\* Trimming shortens, and a JavaScript unit takes at least a byte in UTF-8.
Text == {t \in [units : Nat, trimmed : Nat, bytes : Nat] :
           t.trimmed <= t.units /\ t.trimmed <= t.bytes}
Form == [title : Text, description : Text, quorum : Int, duration : Int]
ASSUME InputAssumption ==
  /\ \A n \in {"title", "description"} : Inputs(n) \subseteq Text
  /\ \A n \in {"quorum", "duration"} : Inputs(n) \subseteq Int
  /\ MaxI128 \in Nat \ {0}

Arguments == [title : Nat, description : Nat, quorum : Int, duration : Int]

Blank(text) == text.trimmed = 0

\* The inputs' maxLength attributes: the browser takes no longer text.
Typable(n, v) ==
  CASE n = "title" -> v.units <= 128
    [] n = "description" -> v.units <= 1024
    [] OTHER -> TRUE

\* Math.round of a positive number of tenths.
Round(n) == (n + 5) \div 10

\* The arguments of create_proposal that a form stands for.
Args(f) == [title |-> f.title.bytes, description |-> f.description.bytes,
            quorum |-> Round(f.quorum), duration |-> Round(f.duration)]

\* BigInt and nativeToScVal take what fits the contract's integer types and
\* throw otherwise; both forms bound the duration well below its u64.
Encodable(a) == a.quorum <= MaxI128

\* create_proposal's checks of its arguments alone.
ContractLimits(a) ==
  /\ a.title > 0 /\ a.title <= 128
  /\ a.description > 0 /\ a.description <= 1024
  /\ a.quorum > 0
  /\ a.duration >= 60 /\ a.duration <= 2592000
=============================================================================
