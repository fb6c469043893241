SPECIFICATION Spec
CONSTANT Half = 8
INVARIANTS
  WindowAgrees
  EachBlockOnce
PROPERTY
  CursorAdvances
