SPECIFICATION Spec
CONSTANTS
  WORD = 16
  EHDR_SIZE = 4
  PHDR_SIZE = 3
  PT_LOAD = PT_LOAD
  PT_NOTE = PT_NOTE
  PhdrTypes = {PT_LOAD, PT_NOTE}
  Null = Null
  Images <- MCImages
INVARIANTS
  ReadsInImage
  VerdictExact
CHECK_DEADLOCK FALSE
