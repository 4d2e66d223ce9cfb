SPECIFICATION PrinterSpec
CONSTANTS
  t1 = t1
  t2 = t2
  Printers = {t1, t2}
  MaxElements = 4
  Modulus = 256
  MaxLength = 127
SYMMETRY Symmetric
INVARIANTS AloneIsClean OverlapsSpoil
CHECK_DEADLOCK FALSE
