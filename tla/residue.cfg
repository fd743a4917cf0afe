\* Three batches and a sale in tenths, on floats of 24 significant digits.
SPECIFICATION Spec
CONSTANTS
  Length = 3
  Stocks = {0, 1, 2, 3, 4, 5, 6, 7, 8, 9}
  Requests = {1, 2, 3, 4, 5, 6, 7, 8, 9, 10, 11, 12}
  Scale = 10
  Exponent = 27
  Precision = 24
INVARIANTS RefusedOnlyIfShort
CHECK_DEADLOCK FALSE
