------------------------------ MODULE Servidor ------------------------------
(***************************************************************************)
(* The requests of tratar_peticion that change the server's tables:        *)
(* REGISTER, UNREGISTER, CONNECT, DISCONNECT, PUBLISH and DELETE.          *)
(*                                                                         *)
(* The tables are three directories with one file per user or publication; *)
(* they outlive the process.  Each request runs on a thread of its own,    *)
(* without any lock: what a thread finds with fopen(..., "r") may not hold *)
(* any more when it acts.  One step of a thread is one call on a file.     *)
(***************************************************************************)
EXTENDS Naturals, FiniteSets

CONSTANTS
  Hilos,        \* threads, and the stacks they run on
  Usuarios,     \* user names that are not empty
  Puertos,      \* ports on which clients listen: what CONNECT records
  Ficheros,     \* names under which clients publish
  Blanco,       \* the empty name, whose path is the directory itself
  Descripcion,  \* DELETE's other file: <name>-description, for each name
  Peticiones,   \* the requests clients send
  Solapan,      \* whether requests in progress may name the same user or file
  PilaReusada,  \* whether a thread may get the stack of one that has ended
  Carpetas,     \* the directories that exist to begin with
  Ausente,      \* no such file
  Vacio,        \* a file that is created or truncated but not written yet
  Mezcla        \* a record that two writers wrote over one another

\* A request as the client sends it.  llega is how much of it arrives before
\* the connection ends: 0 nothing, 1 the operation, 2 the user too, 3 all.
Operaciones == {"REGISTER", "UNREGISTER", "CONNECT", "DISCONNECT", "PUBLISH",
                "DELETE"}
Cuentas == Usuarios \cup {Blanco}
Rutas == Ficheros \cup {Descripcion[f] : f \in Ficheros \cup {Blanco}}
Datos == Puertos \cup Ficheros \cup {Blanco}

ASSUME ServidorAssumption ==
  /\ Blanco \notin Usuarios \cup Puertos \cup Rutas
  /\ DOMAIN Descripcion = Ficheros \cup {Blanco}
  /\ {Ausente, Vacio, Mezcla} \cap (Cuentas \cup Puertos) = {}
  /\ Ausente # Vacio /\ Vacio # Mezcla /\ Mezcla # Ausente
  /\ Puertos \cap Rutas = {}
  /\ Peticiones \subseteq [op : Operaciones, user : Cuentas, dato : Datos,
                           llega : 0..3]
  /\ Ausente \notin Peticiones
  /\ Solapan \in BOOLEAN /\ PilaReusada \in BOOLEAN
  /\ Carpetas \subseteq {"registrados", "conectados", "publicaciones"}

VARIABLES
  carpetas,       \* the directories that exist
  registrados,    \* the users with a file in usuarios-registrados/
  conectados,     \* per user, the record in usuarios-conectados/
  publicaciones,  \* per name, the publishing user in publicaciones/
  enlazados,      \* the threads whose file, open for writing, has its name
  hilo,           \* per thread: pc, its copy of the request, its answer
  vivo,           \* the process runs
  caido           \* history: it has ended at some time

disco == <<carpetas, registrados, conectados, publicaciones, enlazados>>
vars == <<carpetas, registrados, conectados, publicaciones, enlazados, hilo,
          vivo, caido>>

HiloPCs == {"libre", "rpc", "responde",
            "reg_existe", "reg_crea", "unreg_existe", "unreg_borra",
            "con_registro", "con_conexion", "con_crea", "con_escribe",
            "dis_registro", "dis_conexion", "dis_borra",
            "pub_registro", "pub_conexion", "pub_existe", "pub_crea",
            "pub_escribe",
            "del_registro", "del_conexion", "del_existe", "del_borra",
            "del_desc", "del_limpia"}

\* What a thread keeps on its stack, and where it is.
Marcos == [pc : HiloPCs, op : Operaciones \cup {""}, user : Cuentas,
           dato : Datos, llega : 0..3, ret : 0..3]

\* A stack that no thread has used yet is zero, so its strings are empty.
PilaNueva == [pc |-> "libre", op |-> "", user |-> Blanco, dato |-> Blanco,
              llega |-> 0, ret |-> 0]

Init ==
  /\ carpetas = Carpetas
  /\ registrados = {}
  /\ conectados = [u \in Usuarios |-> Ausente]
  /\ publicaciones = [r \in Rutas |-> Ausente]
  /\ enlazados = {}
  /\ hilo = [t \in Hilos |-> PilaNueva]
  /\ vivo = TRUE
  /\ caido = FALSE

-----------------------------------------------------------------------------
\* What fopen(path, "r") finds.  It opens a directory as well as a file.

HayRegistro(u) ==
  "registrados" \in carpetas /\ (u # Blanco => u \in registrados)
\* Mutant: a file without a record does not count.
HayConexionEscrita(u) ==
  "conectados" \in carpetas
    /\ (u # Blanco => conectados[u] \notin {Ausente, Vacio})
HayConexion(u) ==
  "conectados" \in carpetas /\ (u # Blanco => conectados[u] # Ausente)
HayPublicacion(f) ==
  "publicaciones" \in carpetas /\ (f # Blanco => publicaciones[f] # Ausente)

\* The threads that have a file open for writing and not flushed.  remove()
\* takes its name from the file, not the file from them.
Conectando(u) == {t \in Hilos : hilo[t].pc = "con_escribe" /\ hilo[t].user = u}
Publicando(r) == {t \in Hilos : hilo[t].pc = "pub_escribe" /\ hilo[t].dato = r}

\* fopen(path, "a") creates an empty file if there is none.
Abre(c) == IF c = Ausente THEN Vacio ELSE c

En(t, pc) == vivo /\ hilo[t].pc = pc
Sigue(t, pc) == hilo' = [hilo EXCEPT ![t].pc = pc]
\* Mutant: the codes start at 1.
ContestaDesdeUno(t, ret) ==
  hilo' = [hilo EXCEPT ![t] =
             [hilo[t] EXCEPT !.pc = "responde", !.ret = ret + 1]]
Contesta(t, ret) ==
  hilo' = [hilo EXCEPT ![t] = [hilo[t] EXCEPT !.pc = "responde", !.ret = ret]]

\* Ports written over one another, or over another record, may leave a mix.
SeMezclan(viejo, puertos) ==
  \E p \in puertos : (puertos \cup {viejo}) \ {p, Vacio} # {}

\* The process ends: exit() in any thread, SIGPIPE, SIGINT, a null FILE*.  All
\* the threads end with it; F are those whose buffered record still reaches
\* its file (exit() flushes them one after another), and M the users whose
\* record is a mix then.
Muere ==
  /\ vivo
  /\ vivo' = FALSE
  /\ caido' = TRUE
  /\ \E F \in SUBSET enlazados, M \in SUBSET Usuarios :
       /\ \A u \in M :
            SeMezclan(conectados[u], {hilo[t].dato : t \in F \cap Conectando(u)})
       /\ conectados' = [u \in Usuarios |->
            IF u \in M THEN Mezcla
            ELSE IF F \cap Conectando(u) = {} THEN conectados[u]
            ELSE hilo[CHOOSE t \in F \cap Conectando(u) : TRUE].dato]
       /\ publicaciones' = [r \in Rutas |->
            IF F \cap Publicando(r) = {} THEN publicaciones[r]
            ELSE hilo[CHOOSE t \in F \cap Publicando(r) : TRUE].user]
  /\ enlazados' = {}
  /\ hilo' = [t \in Hilos |-> PilaNueva]
  /\ UNCHANGED <<carpetas, registrados>>

-----------------------------------------------------------------------------
\* From the connection to the operation.

Chocan(p, h) ==
  /\ h.pc # "libre"
  /\ \/ p.user = h.user
     \/ p.dato \in Ficheros /\ p.dato = h.dato

\* The thread has read p: a field that did not arrive keeps what the stack
\* holds of an earlier request.  (The file name and the port are in buffers
\* that other calls reuse: they may hold anything.)
Recibe(t, p) ==
  /\ En(t, "libre")
  /\ Solapan \/ \A v \in Hilos : ~Chocan(p, hilo[v])
  /\ \E d \in IF p.llega = 3 THEN {p.dato} ELSE Ficheros \cup {Blanco} :
       hilo' = [hilo EXCEPT ![t] =
         [pc |-> "rpc", ret |-> hilo[t].ret,
          op   |-> IF p.llega >= 1 THEN p.op ELSE hilo[t].op,
          user |-> IF p.llega >= 2 THEN p.user ELSE hilo[t].user,
          dato |-> d, llega |-> p.llega]]
  /\ UNCHANGED <<disco, vivo, caido>>

\* Mutant: PUBLISH does not ask whether the user is registered.
ComienzoSinRegistro == [op \in Operaciones |->
  CASE op = "REGISTER"   -> "reg_existe"   [] op = "UNREGISTER" -> "unreg_existe"
    [] op = "CONNECT"    -> "con_registro" [] op = "DISCONNECT" -> "dis_registro"
    [] op = "PUBLISH"    -> "pub_conexion" [] op = "DELETE"     -> "del_registro"]

Comienzo == [op \in Operaciones |->
  CASE op = "REGISTER"   -> "reg_existe"   [] op = "UNREGISTER" -> "unreg_existe"
    [] op = "CONNECT"    -> "con_registro" [] op = "DISCONNECT" -> "dis_registro"
    [] op = "PUBLISH"    -> "pub_registro" [] op = "DELETE"     -> "del_registro"]

\* The operation is one of the known ones and the log server has answered.
Rpc(t) ==
  /\ En(t, "rpc")
  /\ hilo[t].op \in Operaciones
  /\ Sigue(t, Comienzo[hilo[t].op])
  /\ UNCHANGED <<disco, vivo, caido>>

\* No operation is known by that name: 2, without asking the log server.
Desconocida(t) ==
  /\ En(t, "rpc")
  /\ hilo[t].op \notin Operaciones
  /\ Contesta(t, 2)
  /\ UNCHANGED <<disco, vivo, caido>>

\* Mutant: a failure ends the thread, wherever it is, and not the process.
FallaSoloElHilo(t) ==
  /\ vivo /\ hilo[t].pc # "libre"
  /\ hilo' = [hilo EXCEPT ![t] = PilaNueva]
  /\ enlazados' = enlazados \ {t}
  /\ UNCHANGED <<carpetas, registrados, conectados, publicaciones, vivo, caido>>

\* A read from the client, the log server or the write of the answer fails:
\* the whole process exits.
Falla(t) ==
  /\ hilo[t].pc \in {"rpc", "con_conexion", "responde"}
  /\ Muere

\* The answer is sent, the connection closed, the thread gone; its stack, with
\* the operation and the user in it, stays for another thread.
Responde(t) ==
  /\ En(t, "responde")
  /\ hilo' = [hilo EXCEPT ![t] =
       IF PilaReusada
       THEN [pc |-> "libre", op |-> hilo[t].op, user |-> hilo[t].user,
             dato |-> Blanco, llega |-> 0, ret |-> hilo[t].ret]
       ELSE PilaNueva]
  /\ UNCHANGED <<disco, vivo, caido>>

-----------------------------------------------------------------------------
\* Looking at a file never changes the tables.

Mira(t, pc) == En(t, pc) /\ UNCHANGED <<disco, vivo, caido>>

Register(t) ==
  LET u == hilo[t].user IN
  \/ Mira(t, "reg_existe") /\ HayRegistro(u) /\ Contesta(t, 1)
  \/ Mira(t, "reg_existe") /\ ~HayRegistro(u) /\ Sigue(t, "reg_crea")
  \/ /\ En(t, "reg_crea")
     /\ "registrados" \in carpetas /\ u # Blanco
     /\ registrados' = registrados \cup {u}
     /\ Contesta(t, 0)
     /\ UNCHANGED <<carpetas, conectados, publicaciones, enlazados, vivo, caido>>
  \/ /\ En(t, "reg_crea")
     /\ "registrados" \notin carpetas \/ u = Blanco
     /\ Muere

\* remove() on the path of the empty name removes the directory, if it is
\* empty; it fails without effect otherwise.
Unregister(t) ==
  LET u == hilo[t].user IN
  \/ Mira(t, "unreg_existe") /\ ~HayRegistro(u) /\ Contesta(t, 1)
  \/ Mira(t, "unreg_existe") /\ HayRegistro(u) /\ Sigue(t, "unreg_borra")
  \/ /\ En(t, "unreg_borra")
     /\ registrados' = registrados \ {u}
     /\ carpetas' = IF u = Blanco /\ registrados = {}
                    THEN carpetas \ {"registrados"} ELSE carpetas
     /\ Contesta(t, 0)
     /\ UNCHANGED <<conectados, publicaciones, enlazados, vivo, caido>>

\* The record is visible, and empty, from fopen(..., "w") on; fclose writes
\* it at the start of whatever the file holds by then.
Connect(t) ==
  LET u == hilo[t].user
      puerto == IF hilo[t].dato \in Puertos THEN hilo[t].dato ELSE Blanco IN
  \/ Mira(t, "con_registro") /\ ~HayRegistro(u) /\ Contesta(t, 1)
  \/ Mira(t, "con_registro") /\ HayRegistro(u) /\ Sigue(t, "con_conexion")
  \/ Mira(t, "con_conexion") /\ HayConexion(u) /\ Contesta(t, 2)
  \/ Mira(t, "con_conexion") /\ ~HayConexion(u) /\ Sigue(t, "con_crea")
  \/ /\ En(t, "con_crea")
     /\ "conectados" \in carpetas /\ u # Blanco
     /\ conectados' = [conectados EXCEPT ![u] = Vacio]
     /\ hilo' = [hilo EXCEPT ![t] = [hilo[t] EXCEPT
                   !.pc = "con_escribe", !.dato = puerto]]
     /\ enlazados' = enlazados \cup {t}
     /\ UNCHANGED <<carpetas, registrados, publicaciones, vivo, caido>>
  \/ /\ En(t, "con_crea")
     /\ "conectados" \notin carpetas \/ u = Blanco
     /\ Muere
  \/ /\ En(t, "con_escribe")
     /\ IF t \in enlazados
        THEN \E c \in IF conectados[u] \in {Vacio, puerto} THEN {puerto}
                      ELSE {puerto, Mezcla} :
               conectados' = [conectados EXCEPT ![u] = c]
        ELSE UNCHANGED conectados
     /\ enlazados' = enlazados \ {t}
     /\ Contesta(t, 0)
     /\ UNCHANGED <<carpetas, registrados, publicaciones, vivo, caido>>

Disconnect(t) ==
  LET u == hilo[t].user IN
  \/ Mira(t, "dis_registro") /\ ~HayRegistro(u) /\ Contesta(t, 1)
  \/ Mira(t, "dis_registro") /\ HayRegistro(u) /\ Sigue(t, "dis_conexion")
  \/ Mira(t, "dis_conexion") /\ ~HayConexion(u) /\ Contesta(t, 2)
  \/ Mira(t, "dis_conexion") /\ HayConexion(u) /\ Sigue(t, "dis_borra")
  \/ /\ En(t, "dis_borra")
     /\ conectados' = [v \in Usuarios |->
                         IF v = u THEN Ausente ELSE conectados[v]]
     /\ carpetas' = IF u = Blanco /\ \A v \in Usuarios : conectados[v] = Ausente
                    THEN carpetas \ {"conectados"} ELSE carpetas
     /\ enlazados' = enlazados \ Conectando(u)
     /\ Contesta(t, 0)
     /\ UNCHANGED <<registrados, publicaciones, vivo, caido>>

\* As CONNECT, the publication is visible before its record is written; a
\* second record goes over the first, whose user's name it replaces.
Publish(t) ==
  LET u == hilo[t].user
      f == hilo[t].dato IN
  \/ Mira(t, "pub_registro") /\ ~HayRegistro(u) /\ Contesta(t, 1)
  \/ Mira(t, "pub_registro") /\ HayRegistro(u) /\ Sigue(t, "pub_conexion")
  \/ Mira(t, "pub_conexion") /\ ~HayConexion(u) /\ Contesta(t, 2)
  \/ Mira(t, "pub_conexion") /\ HayConexion(u) /\ Sigue(t, "pub_existe")
  \/ Mira(t, "pub_existe") /\ HayPublicacion(f) /\ Contesta(t, 3)
  \/ Mira(t, "pub_existe") /\ ~HayPublicacion(f) /\ Sigue(t, "pub_crea")
  \/ /\ En(t, "pub_crea")
     /\ "publicaciones" \in carpetas /\ f # Blanco
     /\ publicaciones' = [publicaciones EXCEPT ![f] = Vacio]
     /\ enlazados' = enlazados \cup {t}
     /\ Sigue(t, "pub_escribe")
     /\ UNCHANGED <<carpetas, registrados, conectados, vivo, caido>>
  \/ /\ En(t, "pub_crea")
     /\ "publicaciones" \notin carpetas \/ f = Blanco
     /\ Muere
  \/ /\ En(t, "pub_escribe")
     /\ publicaciones' = IF t \in enlazados
                         THEN [publicaciones EXCEPT ![f] = u]
                         ELSE publicaciones
     /\ enlazados' = enlazados \ {t}
     /\ Contesta(t, 0)
     /\ UNCHANGED <<carpetas, registrados, conectados, vivo, caido>>

\* Whoever is connected may delete any publication.  Its description file,
\* which nothing else writes, is created to be removed.
Delete(t) ==
  LET u == hilo[t].user
      f == hilo[t].dato
      d == Descripcion[f] IN
  \/ Mira(t, "del_registro") /\ ~HayRegistro(u) /\ Contesta(t, 1)
  \/ Mira(t, "del_registro") /\ HayRegistro(u) /\ Sigue(t, "del_conexion")
  \/ Mira(t, "del_conexion") /\ ~HayConexion(u) /\ Contesta(t, 2)
  \/ Mira(t, "del_conexion") /\ HayConexion(u) /\ Sigue(t, "del_existe")
  \/ Mira(t, "del_existe") /\ ~HayPublicacion(f) /\ Contesta(t, 3)
  \/ Mira(t, "del_existe") /\ HayPublicacion(f) /\ Sigue(t, "del_borra")
  \/ /\ En(t, "del_borra")
     /\ publicaciones' = [r \in Rutas |->
                            IF r = f THEN Ausente ELSE publicaciones[r]]
     /\ carpetas' = IF f = Blanco /\ \A r \in Rutas : publicaciones[r] = Ausente
                    THEN carpetas \ {"publicaciones"} ELSE carpetas
     /\ enlazados' = enlazados \ Publicando(f)
     /\ Sigue(t, "del_desc")
     /\ UNCHANGED <<registrados, conectados, vivo, caido>>
  \/ /\ En(t, "del_desc")
     /\ "publicaciones" \in carpetas
     /\ publicaciones' = [publicaciones EXCEPT ![d] = Abre(@)]
     /\ Sigue(t, "del_limpia")
     /\ UNCHANGED <<carpetas, registrados, conectados, enlazados, vivo, caido>>
  \/ /\ En(t, "del_desc")
     /\ "publicaciones" \notin carpetas
     /\ Muere
  \/ /\ En(t, "del_limpia")
     /\ publicaciones' = [publicaciones EXCEPT ![d] = Ausente]
     /\ enlazados' = enlazados \ Publicando(d)
     /\ Contesta(t, 0)
     /\ UNCHANGED <<carpetas, registrados, conectados, vivo, caido>>

-----------------------------------------------------------------------------
\* SIGINT in any state, and the server started again on the same directories.
Sigint == Muere

Reinicia ==
  /\ ~vivo
  /\ vivo' = TRUE
  /\ UNCHANGED <<disco, hilo, caido>>

Trata(t) ==
  \/ Rpc(t) \/ Desconocida(t) \/ Responde(t)
  \/ Register(t) \/ Unregister(t) \/ Connect(t) \/ Disconnect(t)
  \/ Publish(t) \/ Delete(t)

Next ==
  \/ \E t \in Hilos, p \in Peticiones : Recibe(t, p)
  \/ \E t \in Hilos : Trata(t)
  \/ \E t \in Hilos : Falla(t)
  \/ Sigint
  \/ Reinicia

Spec == Init /\ [][Next]_vars

-----------------------------------------------------------------------------
(* Properties *)

\* The types of the state.
TypeOK ==
  /\ carpetas \subseteq {"registrados", "conectados", "publicaciones"}
  /\ registrados \subseteq Usuarios
  /\ conectados \in [Usuarios -> Puertos \cup {Blanco, Ausente, Vacio, Mezcla}]
  /\ publicaciones \in [Rutas -> Cuentas \cup {Ausente, Vacio}]
  /\ enlazados \subseteq Hilos
  /\ hilo \in [Hilos -> Marcos]
  /\ vivo \in BOOLEAN
  /\ caido \in BOOLEAN

\* The threads that are about to remove description file r.
Limpiando(r) == {t \in Hilos : /\ hilo[t].pc = "del_limpia"
                               /\ Descripcion[hilo[t].dato] = r}

\* A record that another request can see but not yet read is about to be
\* written, or removed, as long as the server has not fallen: a thread has
\* the very file open (servidor.c:268-272, 437-439, 530-538).
EmptyHasWriter ==
  caido \/
  /\ \A u \in Usuarios : conectados[u] = Vacio =>
       Conectando(u) \cap enlazados # {}
  /\ \A r \in Rutas : publicaciones[r] = Vacio =>
       (Publicando(r) \cap enlazados) \cup Limpiando(r) # {}

\* DELETE leaves no description file behind, even when several run at once,
\* unless the server falls between servidor.c:530 and 538.
DescriptionsSwept ==
  caido \/
  \A r \in Rutas \ Ficheros : publicaciones[r] # Ausente => Limpiando(r) # {}

\* "El archivo no existe, lo creamos y enviamos un retorno de exito 0"
\* (servidor.c:123; 257 and 356 say the same): a file is created, and the
\* request answered 0, only for a name that has none.
CreatesOnlyNew ==
  [][\A t \in Hilos : hilo'[t] # hilo[t] /\ vivo' =>
       /\ hilo[t].pc = "reg_crea" => hilo[t].user \notin registrados
       /\ hilo[t].pc = "con_crea" => conectados[hilo[t].user] = Ausente
       /\ hilo[t].pc = "pub_crea" => publicaciones[hilo[t].dato] = Ausente]_vars

\* "Funcion de borrar registro para un username" (client.py:98): a user's
\* registration is removed only for a request that brought that user's name.
UnregistersWhoWasNamed ==
  [][\A u \in registrados \ registrados' : \E t \in Hilos :
       hilo[t].pc = "unreg_borra" /\ hilo[t].user = u /\ hilo[t].llega >= 2]_vars

-----------------------------------------------------------------------------
(* The server implements Directorio *)

\* A request counts as served from the call that decides it: the one that
\* finds a file or does not, the creation of the record, its removal.
Servida(t) == hilo[t].pc \in {"con_escribe", "pub_escribe", "del_desc",
                              "del_limpia", "responde"}

\* A file that its writer still has open is as good as written; an empty one
\* that nobody has open is lost.
Conexion(u) ==
  IF conectados[u] = Vacio /\ Conectando(u) \cap enlazados # {}
  THEN hilo[CHOOSE t \in Conectando(u) \cap enlazados : TRUE].dato
  ELSE conectados[u]
Publicacion(f) ==
  IF publicaciones[f] = Vacio /\ Publicando(f) \cap enlazados # {}
  THEN hilo[CHOOSE t \in Publicando(f) \cap enlazados : TRUE].user
  ELSE publicaciones[f]

\* What Directorio sees of the server.
ConectadoDir == [u \in Usuarios |-> Conexion(u)]
PublicadoDir == [f \in Ficheros |-> Publicacion(f)]
Enviada(t) == [op |-> hilo[t].op, user |-> hilo[t].user,
               dato |-> hilo[t].dato, llega |-> hilo[t].llega]
PeticionDir ==
  [t \in Hilos |-> IF hilo[t].pc = "libre" THEN Ausente ELSE Enviada(t)]
CodigoDir == [t \in Hilos |->
  IF hilo[t].pc = "responde" THEN hilo[t].ret
  ELSE IF Servida(t) THEN 0 ELSE 9]

Dir == INSTANCE Directorio WITH
  Nada <- Ausente, Perdido <- Vacio,
  conectado <- ConectadoDir, publicado <- PublicadoDir,
  peticion <- PeticionDir, codigo <- CodigoDir

\* As long as requests in progress concern different users and publications,
\* the server answers each as if it were served in one step, and a fall loses
\* no more than the record that was being written (servidor.c:73-552).
ImplementsDirectorio == Dir!Spec
=============================================================================
