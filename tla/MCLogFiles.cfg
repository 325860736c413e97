\* Three rotated files, records that fit three times, once, and never.
SPECIFICATION Spec
CONSTANTS
  MaxFiles = 3
  MaxSize = 3
  Lengths = {1, 2, 4}
  MaxRecords = 6
  MaxFaults = 3
INVARIANTS
  TypeOK
  NewestKept
  FilesBounded
  EachFaultCostsOneFile
