SPECIFICATION Spec
CONSTANTS
  Clients = {c1, c2}
  Admin = Admin
  Char = {" ", "/", "s", "h"}
  MaxLine = 6
  Packing = 1
  Envelope = 4
  PayloadMax = 6
  MaxPayload = 7
INVARIANT TypeOK TokensAreFields TextIsRest
PROPERTY ShortLinesHarmNobody SplitEnds
CHECK_DEADLOCK FALSE
