SPECIFICATION Spec
CONSTANTS
  h1 = h1  h2 = h2
  ana = ana  eva = eva
  p1 = p1  p2 = p2
  foto = foto  fotoDesc = fotoDesc  soloDesc = soloDesc
  Hilos <- MCHilos
  Usuarios <- MCUsuarios
  Puertos <- MCPuertos
  Ficheros <- MCFicheros
  Descripcion <- MCDescripcion
  Carpetas <- MCCarpetas
  Blanco = Blanco
  Ausente = Ausente
  Vacio = Vacio
  Mezcla = Mezcla
  Peticiones <- Cortadas
  Solapan = FALSE
  PilaReusada = TRUE
PROPERTY UnregistersWhoWasNamed
