\* Two slots, as Module::slots allows (every build has one); two sessions
\* share the addresses of their objects.
SPECIFICATION Spec
CONSTANTS
  Slots = {s1, s2}
  SessionIds = {h1, h2}
  ObjectIds = {o1, o2, o3}
  HandleOf <- MCHandleOf
  Kinds <- MCKinds
  Templates <- MCTemplates
  NoTemplate = NoTemplate
  Outcome <- MCOutcome
  Settable <- MCSettable
  MaxLoaded = 2
  MaxBatch = 2
SYMMETRY Symmetry
INVARIANTS
  TypeOK
  ClosedHoldNothing
  ReportedBehindIndex
  SearchComplete
PROPERTIES NoRepeat ShortMeansAll SearchSpec
