SPECIFICATION FairCSpec
CONSTANTS
  Clientes = {c1, c2}
  Nombres = {n1}
  Puertos = {p1, p2}
  Backlog = 2
  Nada = Nada
  Mudo = Mudo
  Ido = Ido
INVARIANTS
  CTypeOK
  CallsMatch
  OneListener
PROPERTIES
  GetFileEnds
  QuitEnds
