SPECIFICATION Spec
CONSTANTS
  READ_BUF_SIZE = 1024
  MAX_BUF_SIZE = 4096
  Lengths = {1, 100}
INVARIANTS
  WholePackageRecognised
CHECK_DEADLOCK FALSE
