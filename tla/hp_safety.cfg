SPECIFICATION Spec
CONSTANTS
  r1 = r1 r2 = r2 r3 = r3 w1 = w1 w2 = w2 a = a b = b c = c d = d
  NULL = NULL
  Readers = {r1, r2}
  Writers = {w1}
  Objects = {a, b, c}
  MaxRecords = 3
  MaxCount = 3
  SCAN_THRESHOLD = 1
  SCAN_MULT = 1
  RECORD_CACHE_SIZE = 1
SYMMETRY Symmetry
INVARIANTS ProtectedNotFreed RetiredOnce RecordExclusive RetiredCountCovers RecordsBounded
CHECK_DEADLOCK FALSE
