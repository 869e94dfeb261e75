SPECIFICATION Spec
CHECK_DEADLOCK FALSE
CONSTANTS
  Backend = "mscapi"
  Objects = {o1}
  Keys = {k1}
  Application = Application
  NoKey = NoKey
  Booleans = {"true", "false"}
  MaxTemplate = 1
PROPERTY SecretsStay
