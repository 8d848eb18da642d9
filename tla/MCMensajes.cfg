SPECIFICATION Spec
CONSTANTS
  a = a
  b = b
  nl = nl
  NUL = NUL
  Bytes = {a, b, nl, NUL}
  Fin = {nl, NUL}
  Textos <- MCTextos
  N = 3
  Muchos = 2
CONSTRAINT Pocos
CHECK_DEADLOCK FALSE
INVARIANTS
  MInv
PROPERTIES
  ImplementsBuzon
