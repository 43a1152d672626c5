SPECIFICATION Spec
CONSTANTS
  MaxTx = 4
  Counts = {0, 1, 2, 3, 4, 5, 7, 8, 9, 11, 14, 16, 18, 23, 31, 41}
  Addresses = {0, 1, 2, 4, 7}
  Faults = {"abort"}
INVARIANT MovesRequiredNumber
