------------------------------ MODULE Listados ------------------------------
(***************************************************************************)
(* The requests of tratar_peticion that read the server's tables:          *)
(* LIST_CONTENT, LIST_USERS and GET_FILE.                                  *)
(*                                                                         *)
(* Each goes through a directory with readdir while the threads of Servidor*)
(* create, write and remove its files.  What fscanf reads goes to a buffer *)
(* that is never reset: a file without a record leaves it as it was.       *)
(***************************************************************************)
EXTENDS Servidor

CONSTANTS Lectores,   \* threads that serve such requests
          Consultas   \* the requests clients send, whole

OpsLectura == {"LIST_CONTENT", "LIST_USERS", "GET_FILE"}

ASSUME ListadosAssumption ==
  Consultas \subseteq [op : OpsLectura, user : Cuentas, dato : Cuentas \cup Datos]

VARIABLE lector  \* per thread: pc, its request, its buffers, what it found

lvars == <<vars, lector>>

LectorPCs == {"libre", "rpc", "registro", "conexion", "remoto", "opendir",
              "readdir", "codigo", "numero", "entradas", "error",
              "get_conexion"}

\* leido is what the last fscanf left in its buffer; fijos the files that the
\* directory has had since opendir, with their contents then; vistos those
\* that readdir has returned; lista the entries found: a name with what was
\* read from its file.
LectorLibre == [pc |-> "libre", op |-> "", user |-> Blanco, dato |-> Blanco,
                ret |-> 0, leido |-> Blanco, fijos |-> <<>>, vistos |-> {},
                lista |-> {}]

LInit == Init /\ lector = [l \in Lectores |-> LectorLibre]

-----------------------------------------------------------------------------
\* Which of the tables l goes through, and the files in it.
Carpeta(l) == IF lector[l].op = "LIST_USERS" THEN "conectados"
              ELSE "publicaciones"
Tabla(l) == IF lector[l].op = "LIST_USERS" THEN conectados ELSE publicaciones
Presentes(l) == {n \in DOMAIN Tabla(l) : Tabla(l)[n] # Ausente}

\* Mutant: the result of fscanf is not used.
LeidosNunca(l, c) == {lector[l].leido}
\* Mutant: the buffer is emptied first, and an empty record listed like that.
LeidosVacios(l, c) == {c}
\* What fscanf may leave in the buffer.  In a publication of the empty user
\* the first word, if there is one, is of the description (Mezcla stands for
\* one that is nobody's name).
Leidos(l, c) ==
  IF c = Vacio THEN {lector[l].leido}
  ELSE IF c = Blanco /\ lector[l].op # "LIST_USERS"
  THEN Usuarios \cup {Mezcla, lector[l].leido}
  ELSE {c}

\* What local variables hold before they are written: zeros, or what an
\* earlier thread left on the stack.
RetViejos == IF PilaReusada THEN 0..3 ELSE {0}
NombresViejos == IF PilaReusada THEN Cuentas ELSE {Blanco}
PuertosViejos == IF PilaReusada THEN Puertos \cup {Blanco} ELSE {Blanco}

EnL(l, pc) == vivo /\ lector[l].pc = pc
Va(l, pc) == /\ lector' = [lector EXCEPT ![l].pc = pc]
             /\ UNCHANGED vars
Rechaza(l, ret) ==
  /\ lector' = [lector EXCEPT ![l] = [lector[l] EXCEPT !.pc = "error",
                                                       !.ret = ret]]
  /\ UNCHANGED vars
Acaba(l) == lector' = [lector EXCEPT ![l] = LectorLibre] /\ UNCHANGED vars

-----------------------------------------------------------------------------
\* GET_FILE does not tell the log server and does not ask who is registered.
Pregunta(l, c) ==
  /\ EnL(l, "libre")
  /\ \E r \in RetViejos,
        b \in IF c.op = "LIST_USERS" THEN PuertosViejos ELSE NombresViejos :
       lector' = [lector EXCEPT ![l] = [LectorLibre EXCEPT
         !.pc = IF c.op = "GET_FILE" THEN "get_conexion" ELSE "rpc",
         !.op = c.op, !.user = c.user, !.dato = c.dato,
         !.ret = r, !.leido = b]]
  /\ UNCHANGED vars

Avisa(l) == EnL(l, "rpc") /\ Va(l, "registro")

Comprueba(l) ==
  LET u == lector[l].user IN
  \/ EnL(l, "registro") /\ ~HayRegistro(u) /\ Rechaza(l, 1)
  \/ EnL(l, "registro") /\ HayRegistro(u) /\ Va(l, "conexion")
  \/ EnL(l, "conexion") /\ ~HayConexion(u) /\ Rechaza(l, 2)
  \/ EnL(l, "conexion") /\ HayConexion(u)
       /\ Va(l, IF lector[l].op = "LIST_CONTENT" THEN "remoto" ELSE "opendir")
  \/ EnL(l, "remoto") /\ ~HayRegistro(lector[l].dato) /\ Rechaza(l, 3)
  \/ EnL(l, "remoto") /\ HayRegistro(lector[l].dato) /\ Va(l, "opendir")

\* GET_FILE reads the address of the user it is asked for first of all.
BuscaConexion(l) ==
  LET u == lector[l].user IN
  \/ EnL(l, "get_conexion") /\ ~HayConexion(u) /\ Rechaza(l, 2)
  \/ /\ EnL(l, "get_conexion") /\ HayConexion(u)
     /\ \E p \in IF u = Blanco \/ conectados[u] = Vacio THEN PuertosViejos
                 ELSE {conectados[u]} :
          lector' = [lector EXCEPT ![l] = [lector[l] EXCEPT
                       !.pc = "opendir", !.lista = {<<u, p>>}]]
     /\ UNCHANGED vars

\* Without the directory a listing ends the server (Cae), and GET_FILE
\* closes the connection without an answer.
Opendir(l) ==
  \/ /\ EnL(l, "opendir") /\ Carpeta(l) \in carpetas
     /\ lector' = [lector EXCEPT ![l] = [lector[l] EXCEPT
          !.pc = "readdir",
          !.fijos = [n \in Presentes(l) |-> Tabla(l)[n]]]]
     /\ UNCHANGED vars
  \/ /\ EnL(l, "opendir") /\ Carpeta(l) \notin carpetas
     /\ lector[l].op = "GET_FILE"
     /\ Acaba(l)

\* Mutant: the loop ends at the first file that is listed.
AnotaYCierra(l, n, leido) ==
  [lector[l] EXCEPT
     !.vistos = @ \cup DOMAIN lector[l].fijos, !.leido = leido,
     !.ret = 0, !.lista = @ \cup {<<n, leido>>}]
\* An entry for the list: the file's name and what the buffer holds.
Anota(l, n, leido) ==
  [lector[l] EXCEPT
     !.vistos = @ \cup {n}, !.leido = leido,
     !.ret = 0, !.lista = @ \cup {<<n, leido>>}]
Salta(l, n, leido) ==
  [lector[l] EXCEPT !.vistos = @ \cup {n}, !.leido = leido]

\* readdir returns a file, which is opened and read.  One that is gone by then
\* is as good as not returned.
LeeEntrada(l) ==
  LET h == lector[l] IN
  /\ EnL(l, "readdir") /\ h.op # "GET_FILE"
  /\ \E n \in Presentes(l) \ h.vistos : \E x \in Leidos(l, Tabla(l)[n]) :
       lector' = [lector EXCEPT ![l] =
         IF h.op = "LIST_USERS" \/ x = h.dato THEN Anota(l, n, x)
         ELSE Salta(l, n, x)]
  /\ UNCHANGED vars

\* GET_FILE reads no file but the one it looks for, and stops if it is the
\* user's.
LeeFichero(l) ==
  LET h == lector[l] IN
  /\ EnL(l, "readdir") /\ h.op = "GET_FILE"
  /\ h.dato \in Presentes(l) \ h.vistos
  /\ \E x \in Leidos(l, Tabla(l)[h.dato]) :
       lector' = [lector EXCEPT ![l] =
         IF x = h.user THEN [h EXCEPT !.pc = "codigo", !.ret = 0]
         ELSE Salta(l, h.dato, x)]
  /\ UNCHANGED vars

\* readdir has no more files: it must have returned those that were in the
\* directory all the time.  GET_FILE has not found what it looked for.
Closedir(l) ==
  LET h == lector[l] IN
  \/ /\ EnL(l, "readdir") /\ h.op # "GET_FILE"
     /\ DOMAIN h.fijos \subseteq h.vistos
     /\ Va(l, "codigo")
  \/ /\ EnL(l, "readdir") /\ h.op = "GET_FILE"
     /\ h.dato \in DOMAIN h.fijos => h.dato \in h.vistos
     /\ Rechaza(l, 1)

\* The answer: a code; after a listing, the number of entries and the entries;
\* after GET_FILE the address.
Envia(l) ==
  \/ EnL(l, "error") /\ Acaba(l)
  \/ EnL(l, "codigo")
       /\ Va(l, IF lector[l].op = "GET_FILE" THEN "entradas" ELSE "numero")
  \/ EnL(l, "numero") /\ Va(l, "entradas")
  \/ EnL(l, "entradas") /\ Acaba(l)

\* A read, the log server or a write to a client that is gone fails, or
\* opendir does: the whole process ends.
Cae(l) ==
  /\ \/ lector[l].pc \in {"rpc", "get_conexion", "error", "codigo", "numero",
                          "entradas"}
     \/ /\ lector[l].pc = "opendir" /\ Carpeta(l) \notin carpetas
        /\ lector[l].op # "GET_FILE"
  /\ Muere
  /\ lector' = [m \in Lectores |-> LectorLibre]

\* A step of the other threads or of the process: it may remove files from
\* the directories that are being read, or end the readers.
Quedan(l) == {n \in DOMAIN lector[l].fijos :
                (IF lector[l].op = "LIST_USERS" THEN conectados'[n]
                 ELSE publicaciones'[n]) # Ausente}
Otros ==
  /\ Next
  /\ lector' = [l \in Lectores |->
       IF ~vivo' THEN LectorLibre
       ELSE [lector[l] EXCEPT !.fijos = [n \in Quedan(l) |-> @[n]]]]

Atiende(l) ==
  \/ Avisa(l) \/ Comprueba(l) \/ BuscaConexion(l) \/ Opendir(l)
  \/ LeeEntrada(l) \/ LeeFichero(l) \/ Closedir(l) \/ Envia(l)

LNext ==
  \/ \E l \in Lectores, c \in Consultas : Pregunta(l, c)
  \/ \E l \in Lectores : Atiende(l)
  \/ \E l \in Lectores : Cae(l)
  \/ Otros

LSpec == LInit /\ [][LNext]_lvars

-----------------------------------------------------------------------------
(* Properties *)

\* The types of what the readers keep.
LTypeOK ==
  \A l \in Lectores :
    /\ lector[l].pc \in LectorPCs
    /\ lector[l].op \in OpsLectura \cup {""}
    /\ lector[l].user \in Cuentas
    /\ lector[l].dato \in Cuentas \cup Datos
    /\ lector[l].ret \in 0..3
    /\ lector[l].leido \in Cuentas \cup Puertos \cup {Mezcla}
    /\ DOMAIN lector[l].fijos \subseteq Usuarios \cup Rutas
    /\ lector[l].vistos \subseteq Usuarios \cup Rutas
    /\ lector[l].lista \subseteq
         (Cuentas \cup Rutas) \X (Cuentas \cup Puertos \cup {Mezcla})

\* A file of l's directory that has held the same record since opendir.
Estable(l, n) == /\ n \in DOMAIN lector[l].fijos
                 /\ lector[l].fijos[n] \notin {Vacio, Blanco}
                 /\ Tabla(l)[n] = lector[l].fijos[n]

\* However the directory changes while it is read, a file that stays as it
\* was is listed rightly: each such connection once and with its port, each
\* such publication if it is the remote user's and only then
\* (servidor.c:656-684, 804-829).
StableListed ==
  \A l \in Lectores :
    LET h == lector[l]
        leidos(n) == {e[2] : e \in {d \in h.lista : d[1] = n}} IN
    h.op # "GET_FILE" /\ h.pc \in {"codigo", "numero", "entradas"} =>
      \A n \in {m \in DOMAIN h.fijos : Estable(l, m)} :
        leidos(n) = IF h.op = "LIST_USERS" \/ h.fijos[n] = h.dato
                    THEN {h.fijos[n]} ELSE {}

\* GET_FILE does not deny a file that its user has published all along, nor
\* grants one that another user has (servidor.c:911-953).
StableFound ==
  \A l \in Lectores :
    LET h == lector[l] IN
    h.op = "GET_FILE" /\ h.pc \in {"error", "codigo"} /\ Estable(l, h.dato)
      => h.ret = IF h.fijos[h.dato] = h.user THEN 0 ELSE 1

\* "Vamos a enviarle en primer lugar al cliente que se ha recopilado de forma
\* exitosa la operacion" (servidor.c:686, 831): a listing that gets as far as
\* that sends the code of success.
ListingSucceeds ==
  \A l \in Lectores : lector[l].pc = "codigo" => lector[l].ret = 0

\* "Obtener la IP y puerto impresos en cada identificador de usuario (fichero)"
\* (servidor.c:813; 655 says of publications "aquellos en los que este impreso
\* el nombre del usuario"): what a file is listed with is printed in that file.
RecordPrinted ==
  [][\A l \in Lectores : lector[l].op \in {"LIST_USERS", "LIST_CONTENT"} =>
       \A e \in lector'[l].lista \ lector[l].lista :
         e[2] \in Puertos \cup Usuarios => Tabla(l)[e[1]] = e[2]]_lvars
=============================================================================
