\* Blocks of two bytes: a part is less than a block, a block, or more.
SPECIFICATION Spec
CONSTANTS
  Backend = "mscapi"
  Bytes = {b1, b2}
  BlockSize = 2
  Faults = TRUE
  MaxPart = 3
  MaxBytes = 6
SYMMETRY Symmetry
INVARIANTS TypeOK StreamKept WholeBlocks LastBlockHeld
PROPERTIES ResultCovers PipeSpec
