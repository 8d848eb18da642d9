SPECIFICATION Spec
CONSTANTS
  h1 = h1  h2 = h2
  ana = ana  eva = eva
  p1 = p1  p2 = p2
  foto = foto  fotoDesc = fotoDesc  soloDesc = soloDesc
  Hilos <- MCHilos
  Usuarios <- MCUno
  Puertos <- MCPuertos
  Ficheros <- MCFicheros
  Descripcion <- MCDescripcion
  Carpetas <- MCCarpetas
  Blanco = Blanco
  Ausente = Ausente
  Vacio = Vacio
  Mezcla = Mezcla
  Peticiones <- DeUno
  Solapan = TRUE
  PilaReusada = FALSE
SYMMETRY SimetriaDeUno
INVARIANTS
  EmptyHasWriter
  DescriptionsSwept
