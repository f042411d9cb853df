SPECIFICATION Spec
CONSTANTS
  Types = {"CONNECT", "LISTUSERS"}
  Byte = {0, 1}
  PayloadMax = 3
  Width = 8
  MaxPayload = 5
INVARIANT TypeOK ReadIsSent FittingIsRead
CHECK_DEADLOCK FALSE
