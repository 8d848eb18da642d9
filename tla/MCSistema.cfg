SPECIFICATION SSpec
CONSTANTS
  n1 = n1
  n2 = n2
  Clientes = {c1, c2}
  Nombres <- MCNombres
  Puertos = {p1, p2}
  Backlog = 1
  Nada = Nada
  Mudo = Mudo
  Ido = Ido
  Hilos = {t1, t2}
  Usuarios <- MCUsuarios
  Blanco = Blanco
  Vacio = Vacio
  Mezcla = Mezcla
  Leido <- MCLeido
CONSTRAINT SinDudas
SYMMETRY Iguales
INVARIANTS
  STypeOK
  SessionHasRecord
PROPERTIES
  RemovedByOwner
  OrphansExplained
