SPECIFICATION Spec
CONSTANTS
  Objects = {o1, o2}
  p8 = p8
  p16 = p16
  Curves = {p8, p16}
  Size <- MCSize
  Bytes = {0, 4}
  LongFrom = 5
  None = None
SYMMETRY Symmetry
INVARIANTS
  TypeOK
  ReadCreatesSame
  ImportedAsGiven
  SignatureVerifies
