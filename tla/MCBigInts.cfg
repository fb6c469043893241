SPECIFICATION Spec
CONSTANTS
  MaxNumber = 31
  Word = 16
  IntegerMax = 3
INVARIANTS
  TypeOK
  NumberPreserved
  OnlyForeignFormsFail
