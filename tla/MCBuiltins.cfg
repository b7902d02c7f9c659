CONSTANTS
  LogWidth = 3
  Operands = {0, 1, 8, 27, 127, 128, 240, 255}
  Addends = {0, 1, 255}
SPECIFICATION Spec
INVARIANT VectorsAgree ScalarsAgree FieldsAgree
CHECK_DEADLOCK FALSE
