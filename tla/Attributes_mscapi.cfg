\* A key and its copy, or a key and one the application has brought along;
\* a template may be refused at its second setting.
SPECIFICATION Spec
CHECK_DEADLOCK FALSE
CONSTANTS
  Backend = "mscapi"
  Objects = {o1, o2}
  Keys = {k1}
  Application = Application
  NoKey = NoKey
  Booleans = {"true", "false"}
  MaxTemplate = 2
SYMMETRY Symmetry
INVARIANTS TypeOK CopiesAgree AllOrNothing
PROPERTIES ReadsAgree
