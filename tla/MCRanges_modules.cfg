CONSTANTS
  Clients = {a, b}
  BankSize = 5
  Banks = 1
  MaxLength = 6
SYMMETRY ClientSymmetry
CHECK_DEADLOCK FALSE
SPECIFICATION Spec
INVARIANTS LookupAgrees
PROPERTIES Refines
