SPECIFICATION Spec
CONSTANTS
  Backend = "mscapi"
  Bytes = {b1, b2}
  BlockSize = 2
  Faults = FALSE
  MaxPart = 3
  MaxBytes = 6
PROPERTY FinishDelivers
