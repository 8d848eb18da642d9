SPECIFICATION LSpec
CONSTANTS
  h1 = h1  l1 = l1
  ana = ana  eva = eva
  p1 = p1  p2 = p2
  foto = foto  fotoDesc = fotoDesc  soloDesc = soloDesc
  Hilos <- MCHilos
  Lectores <- MCLectores
  Usuarios <- MCUsuarios
  Puertos <- MCPuertos
  Ficheros <- MCFicheros
  Descripcion <- MCDescripcion
  Carpetas <- MCCarpetas
  Blanco = Blanco
  Ausente = Ausente
  Vacio = Vacio
  Mezcla = Mezcla
  Peticiones <- Conexiones
  Consultas <- Contenidos
  Solapan = FALSE
  PilaReusada = TRUE
INVARIANT ListingSucceeds
