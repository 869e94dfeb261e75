\* One datum and no symmetry: OperationEnds is a liveness property.  That
\* results have the parts of many data in order is proved.
SPECIFICATION FairSpec
CONSTANTS
  Backend = "mscapi"
  Faults = TRUE
  Data = {d1}
  MaxParts = 2
INVARIANTS
  TypeOK
  AbsorbedIsPassed
PROPERTIES
  FirstResultCovers
  LengthKeepsOperation
  DroppedWithAnswer
  OperationEnds
  AbsorbedSpec
