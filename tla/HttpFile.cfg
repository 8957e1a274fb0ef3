SPECIFICATION FairSpec
CONSTANTS
  Files = {f1, f2}
  MaxUnits = 3
  MaxChanges = 2
  BUF_SIZE = 2
  FILEBUF_SIZE = 3
INVARIANTS
  TypeOK
  LengthMatchesBody
  BodyIsOpenedFile
PROPERTY
  ResponseEnds
CHECK_DEADLOCK FALSE
