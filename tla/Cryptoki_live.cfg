\* One session, two of whose objects have one handle; no symmetry, since the
\* property is a liveness property.
SPECIFICATION FairSpec
CONSTANTS
  Slots = {s1}
  SessionIds = {h1}
  ObjectIds = {o1, o2, o3}
  HandleOf <- MCTruncated
  Kinds <- MCKinds
  Templates <- MCTemplates
  NoTemplate = NoTemplate
  Outcome <- MCOutcome
  Settable <- MCSettable
  MaxLoaded = 2
  MaxBatch = 1
PROPERTY SearchEnds
