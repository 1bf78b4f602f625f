CONSTANTS
  Subs = {1, 2}
  Refreshes = {"r1", "r2"}
  Inputs <- MCInputs
  InitialForm <- MCInitialForm
  TxTimeout = 2
  MaxAttempts = 3
  MaxSeq = 1
  MaxI128 = 1000
  Empty <- MCEmpty
  MaxForms = 2
SPECIFICATION Spec
INVARIANTS ErrorIsFinal OneOwnSubmission ReportedIsListed NewFormInStep
CHECK_DEADLOCK FALSE
