SPECIFICATION TokenSpec
CONSTANTS
  Account = {a1, a2, a3}
  None = None
  MaxI128 = 3
  InitialSupplies <- MCSupplies
  MaxTime = 2
SYMMETRY AccountSymmetry
CONSTRAINT OneRelation
INVARIANTS SupplyExact AllowanceHonoured
PROPERTIES NoInflowWhilePaused NoOverdraft
