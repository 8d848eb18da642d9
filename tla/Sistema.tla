------------------------------ MODULE Sistema -------------------------------
(***************************************************************************)
(* The clients and the server together.                                    *)
(*                                                                         *)
(* A command of a client's shell is a request to a thread of Servidor,     *)
(* which goes through its calls on files beside the other threads, those   *)
(* that serve the same user included.  A request may outlive the client    *)
(* that sent it.  Of GET_FILE only the called side is here: a call of some *)
(* peer, which may end the thread that takes it.                           *)
(***************************************************************************)
EXTENDS Cliente

CONSTANTS Hilos, Usuarios, Blanco, Vacio, Mezcla,  \* as in Servidor
          Leido  \* per name, what the server's readLine makes of it

VARIABLES carpetas, registrados, conectados, publicaciones, enlazados,
          hilo, vivo, caido,  \* as in Servidor
          turno,     \* per client, the server's thread that has its request
          dudosos,   \* history: users of whom two CONNECTs found no record at
                     \* once, or a DISCONNECT ended with an exception
          expulsados \* history: clients whose user has been unregistered
                     \* since they asked for their session

\* In a DISCONNECT the socket is history: that of the session that asks.
Peticiones == [op : {"REGISTER", "UNREGISTER", "CONNECT", "DISCONNECT"},
               user : Usuarios, dato : Puertos \cup {Blanco}, llega : {3}]

\* The directories exist, and nobody publishes.
Carpetas == {"registrados", "conectados", "publicaciones"}
Descripcion == [f \in {Blanco} |-> "-description"]

ASSUME SistemaAssumption ==
  /\ Leido \in [Nombres -> Usuarios]
  /\ Blanco \notin Usuarios \cup Puertos
  /\ {Nada, Vacio, Mezcla} \cap (Usuarios \cup Puertos \cup {Blanco}) = {}
  /\ Nada # Vacio /\ Vacio # Mezcla /\ Mezcla # Nada
  /\ Nada \notin Hilos \cup Peticiones
  /\ "-description" \notin Puertos \cup {Blanco}

Srv == INSTANCE Servidor WITH
  Ficheros <- {}, Ausente <- Nada, Solapan <- TRUE, PilaReusada <- FALSE

servidor == <<carpetas, registrados, conectados, publicaciones, enlazados,
              hilo, vivo, caido>>
svars == <<cvars, servidor, turno, dudosos, expulsados>>
historia == <<dudosos, expulsados>>

\* caido, the history of Servidor, serves no property here: it is true always.
SInit ==
  /\ CInit
  /\ carpetas = Carpetas /\ registrados = {}
  /\ conectados = [u \in Usuarios |-> Nada]
  /\ publicaciones = [r \in {"-description"} |-> Nada]
  /\ enlazados = {} /\ hilo = [t \in Hilos |-> Srv!PilaNueva] /\ vivo = TRUE
  /\ caido = TRUE
  /\ turno = [c \in Clientes |-> Nada] /\ dudosos = {} /\ expulsados = {}

-----------------------------------------------------------------------------
\* Mutant: QUIT is sent as an operation of its own.
PeticionQuit(c, op, n) ==
  [op |-> op, user |-> Leido[n], llega |-> 3,
   dato |-> IF op \in {"REGISTER", "UNREGISTER"} THEN Blanco
            ELSE cliente'[c].socket]
\* The request as the server reads it.  QUIT sends a DISCONNECT.
Peticion(c, op, n) ==
  [op |-> IF op = "QUIT" THEN "DISCONNECT" ELSE op, user |-> Leido[n],
   llega |-> 3,
   dato |-> IF op \in {"REGISTER", "UNREGISTER"} THEN Blanco
            ELSE cliente'[c].socket]

\* The clients of S lose the registration of their user.
Expulsa(S) ==
  expulsados' = {c \in expulsados \cup S :
                   cliente'[c].sesion # Nada \/ cliente'[c].op = "CONNECT"}

\* A command goes to a thread of its own.
Ordena(c, op, n) ==
  /\ Envia(c, op, n)
  /\ \E t \in Hilos : /\ Srv!Recibe(t, Peticion(c, op, n))
                       /\ turno' = [turno EXCEPT ![c] = t]
  /\ Expulsa({})
  /\ UNCHANGED dudosos

\* Two threads have found that u has no record, and both will make it.
Creando(u) == {t \in Hilos : hilo[t].pc = "con_crea" /\ hilo[t].user = u}
Carrera(u) == \E t, s \in Creando(u) : t # s

\* Whose session, or CONNECT, names u.
Interesados(u) ==
  {c \in Clientes :
     \/ cliente[c].sesion # Nada /\ Leido[cliente[c].sesion] = u
     \/ cliente[c].op = "CONNECT" /\ Leido[cliente[c].nombre] = u}

\* The next call of the thread.
Sirve(t) ==
  /\ \/ Srv!Rpc(t) \/ Srv!Register(t) \/ Srv!Unregister(t)
     \/ Srv!Connect(t) \/ Srv!Disconnect(t)
  /\ UNCHANGED <<cvars, turno>>
  /\ dudosos' = dudosos \cup {u \in Usuarios : Carrera(u)'}
  /\ Expulsa(UNION {Interesados(u) : u \in registrados \ registrados'})

\* The answer reaches the client, if it still waits.
Contesta(t) ==
  /\ Srv!Responde(t)
  /\ \/ \E c \in Clientes : /\ turno[c] = t
                            /\ Recibe(c, hilo[t].ret)
                            /\ turno' = [turno EXCEPT ![c] = Nada]
     \/ (\A c \in Clientes : turno[c] # t) /\ UNCHANGED <<cvars, turno>>
  /\ Expulsa({})
  /\ UNCHANGED dudosos

\* The sessions of the clients of S end in doubt: the exception keeps them,
\* and the server may have removed their records.
Duda(S) ==
  dudosos' = dudosos \cup
    {Leido[n] : n \in {cliente[c].sesion : c \in S} \ {Nada}}

\* The server falls.  It is started again on its tables.
ServidorCae ==
  /\ Srv!Muere
  /\ PierdeServidor
  /\ turno' = [c \in Clientes |-> Nada]
  /\ Duda({c \in Clientes : cliente[c].op \in {"DISCONNECT", "QUIT"}
                            /\ En(c, "espera")})
  /\ Expulsa({})
ServidorArranca ==
  Srv!Reinicia /\ UNCHANGED <<cvars, turno, historia>>

\* What a client does on its own about its session.
Solo(c) ==
  /\ Sesion(c)
  /\ UNCHANGED <<servidor, turno>>
  /\ Expulsa({})
  /\ Duda({d \in {c} : En(c, "cierra") /\ cliente'[c].pc = "shell"
                       /\ cliente'[c].sesion # Nada})

\* A peer calls, and goes before it sends its request or after.
Visita(c) ==
  /\ \E h \in oyentes[c] :
       /\ h.pc = "acepta" /\ h.sd # Nada
       /\ Cambia(c, h, {[h EXCEPT !.pc = "lee", !.par = Ido]})
  /\ UNCHANGED <<cliente, escuchando, cola>>
  /\ UNCHANGED <<servidor, turno, historia>>

\* The client's process ends; its request, if any, goes on without it.
Acaba(c) ==
  Termina(c) /\ Expulsa({}) /\ UNCHANGED <<servidor, turno, dudosos>>
ClienteCae(c) ==
  /\ Muere(c)
  /\ turno' = [turno EXCEPT ![c] = Nada]
  /\ Expulsa({})
  /\ UNCHANGED <<servidor, dudosos>>

SNext ==
  \/ \E c \in Clientes, op \in Ordenes, n \in Nombres : Ordena(c, op, n)
  \/ \E t \in Hilos : Sirve(t) \/ Contesta(t)
  \/ \E c \in Clientes : Solo(c) \/ Visita(c) \/ Acaba(c) \/ ClienteCae(c)
  \/ ServidorCae \/ ServidorArranca

SSpec == SInit /\ [][SNext]_svars

-----------------------------------------------------------------------------
(* Properties *)

\* The types of both sides: what the clients and the server keep, and which
\* thread has the request of which client (client.py:80-640, servidor.c:73-345).
STypeOK ==
  /\ CTypeOK
  /\ Srv!TypeOK
  /\ turno \in [Clientes -> Hilos \cup {Nada}]
  /\ dudosos \subseteq Usuarios
  /\ expulsados \subseteq Clientes

\* c's record is being removed, or has been, at its own request.
SeDesconecta(c) ==
  \/ En(c, "cierra")
  \/ /\ En(c, "espera") /\ cliente[c].op \in {"DISCONNECT", "QUIT"}
     /\ hilo[turno[c]].pc = "responde" /\ hilo[turno[c]].ret = 0

\* Whoever has a session has its record at the server, with the address where
\* it listens, until it disconnects; unless two CONNECTs of that user have both
\* found no record, which the server does not prevent (servidor.c:259, 268), or
\* a DISCONNECT of it ended with an exception, which keeps the session at the
\* client whatever the server has done (client.py:225, 235-246).
SessionHasRecord ==
  \A c \in Clientes :
    LET k == cliente[c] IN
    k.sesion # Nada /\ Leido[k.sesion] \notin dudosos =>
      conectados[Leido[k.sesion]] = k.socket \/ SeDesconecta(c)

\* The server removes a record only for the DISCONNECT of the session whose
\* address it holds, though the request names a user only (client.py:219-224,
\* servidor.c:340), may outlive its client and runs beside other requests of
\* that user; with the two exceptions of SessionHasRecord.
RemovedByOwner ==
  [][\A v \in Usuarios :
       conectados[v] # Nada /\ conectados'[v] = Nada =>
         v \in dudosos \/ \E t \in Hilos :
           /\ hilo[t].pc = "dis_borra" /\ hilo[t].user = v
           /\ hilo[t].dato = conectados[v]]_svars

\* v's record is that of c's session, or of its CONNECT, which is done and not
\* answered yet; and it is not being removed.
Suyo(c, v) ==
  LET k == cliente[c] IN
  /\ conectados[v] \in Puertos /\ conectados[v] = k.socket /\ ~SeDesconecta(c)
  /\ \/ k.sesion # Nada /\ Leido[k.sesion] = v
     \/ /\ En(c, "espera") /\ k.op = "CONNECT" /\ Leido[k.nombre] = v
        /\ hilo[turno[c]].pc = "responde" /\ hilo[turno[c]].ret = 0

\* A record is left without its session, so that its user cannot connect any
\* more, only in one of these ways: the server falls before its answer to the
\* CONNECT leaves (servidor.c:268-304, client.py:158-175); the client's process
\* is killed, its end in order excluded; its user has been unregistered from
\* elsewhere, its QUIT refused (servidor.c:325), and the process ends in order
\* all the same, as its listening thread had ended by an exception
\* (client.py:206, 567-569); or one of the two exceptions of SessionHasRecord.
OrphansExplained ==
  [][\A c \in Clientes, v \in Usuarios :
       Suyo(c, v) /\ ~Suyo(c, v)' /\ conectados'[v] = conectados[v] =>
         \/ cliente[c].sesion = Nada /\ ~vivo'
         \/ cliente'[c].pc = "fuera" /\ ~(En(c, "saliendo") /\ oyentes[c] = {})
         \/ c \in expulsados \/ v \in dudosos
       ]_svars
=============================================================================
