------------------------------ MODULE Cliente -------------------------------
(***************************************************************************)
(* The processes of client.py and the calls between them.                  *)
(*                                                                         *)
(* A client has a shell, which runs one command at a time, a session (the  *)
(* user it is connected as) and, for each session, a socket with a thread  *)
(* that serves GET_FILE to other clients, one call at a time.  What the    *)
(* server answers is a parameter here: Sistema puts the server in.         *)
(***************************************************************************)
EXTENDS Naturals, Sequences

CONSTANTS
  Clientes,  \* the places where a client can be run
  Nombres,   \* user names as the shell takes them, none of them empty
  Puertos,   \* the addresses that bind() may give a socket
  Backlog,   \* how many calls a listening socket keeps until accept()
  Nada,      \* None: no session, no socket, nobody
  Mudo,      \* a caller that is gone and had not sent its request
  Ido        \* a caller that is gone and had sent it

ASSUME ClienteAssumption ==
  /\ Nada \notin Clientes \cup Nombres \cup Puertos
  /\ Mudo \notin Clientes \cup {Nada} /\ Ido \notin Clientes \cup {Nada, Mudo}
  /\ Backlog \in Nat \ {0}

VARIABLES
  cliente,     \* per client: its shell, its session, its socket
  oyentes,     \* per client, its listening threads
  escuchando,  \* the addresses whose socket listens
  cola         \* per address, the callers that wait for accept()

cvars == <<cliente, oyentes, escuchando, cola>>

Ordenes == {"REGISTER", "UNREGISTER", "CONNECT", "DISCONNECT", "QUIT"}

\* What the shell is doing: "espera" and "consulta" wait for the server,
\* "cierra" is between the answer to DISCONNECT and the end of the session,
\* "marca", "llama" and "pide" are a GET_FILE with another client, "colgado" is
\* a readLine on a connection that has ended, "saliendo" a shell that is done.
ShellPCs == {"fuera", "shell", "espera", "consulta", "cierra", "marca",
             "llama", "pide", "colgado", "saliendo"}

Procesos == [pc : ShellPCs, op : Ordenes \cup {""}, nombre : Nombres \cup {Nada},
             sesion : Nombres \cup {Nada}, socket : Puertos \cup {Nada},
             destino : Puertos \cup {Nada}]
Apagado == [pc |-> "fuera", op |-> "", nombre |-> Nada, sesion |-> Nada,
            socket |-> Nada, destino |-> Nada]

\* A listening thread: its socket, as long as it is open; where it is; the
\* caller it serves.  It starts after the session.
OyentePCs == {"arranca", "acepta", "lee"}
Llamantes == Clientes \cup {Mudo, Ido}
Oyentes == [sd : Puertos \cup {Nada}, pc : OyentePCs,
            par : Llamantes \cup {Nada}]

CInit ==
  /\ cliente = [c \in Clientes |-> Apagado]
  /\ oyentes = [c \in Clientes |-> {}]
  /\ escuchando = {}
  /\ cola = [p \in Puertos |-> <<>>]

-----------------------------------------------------------------------------
\* The shell.

En(c, pc) == cliente[c].pc = pc
Pasa(c, pc) == cliente' = [cliente EXCEPT ![c].pc = pc]
RedQuieta == UNCHANGED <<oyentes, escuchando, cola>>

Arranca(c) == En(c, "fuera") /\ Pasa(c, "shell") /\ RedQuieta

\* Mutant: DISCONNECT without a session (the first check dropped).
AdmiteOtro(c, op, n) ==
  LET s == cliente[c].sesion IN
  CASE op = "REGISTER"   -> TRUE
    [] op = "UNREGISTER" -> n # s
    [] op = "CONNECT"    -> s = Nada
    [] op = "DISCONNECT" -> s = Nada \/ n = s
    [] op = "QUIT"       -> n = s
\* What the client checks before it asks the server.
Admite(c, op, n) ==
  LET s == cliente[c].sesion IN
  CASE op = "REGISTER"   -> TRUE
    [] op = "UNREGISTER" -> n # s
    [] op = "CONNECT"    -> s = Nada
    [] op = "DISCONNECT" -> n = s
    [] op = "QUIT"       -> n = s

\* CONNECT binds a new socket first.
Libres == Puertos \ {cliente[d].socket : d \in Clientes}
Envia(c, op, n) ==
  /\ En(c, "shell") /\ Admite(c, op, n)
  /\ \E p \in IF op = "CONNECT" THEN Libres ELSE {cliente[c].socket} :
       cliente' = [cliente EXCEPT ![c] = [cliente[c] EXCEPT
                     !.pc = "espera", !.op = op, !.nombre = n, !.socket = p]]
  /\ RedQuieta

\* CONNECT and DISCONNECT succeed.
\* Mutant: "already connected" counts as success.
ConectaOtraVez(k, ret) == k.op = "CONNECT" /\ ret # 1
Conecta(k, ret) == k.op = "CONNECT" /\ ret = 0
Desconecta(k, ret) == k.op \in {"DISCONNECT", "QUIT"} /\ ret = 0

\* Mutant: the thread is started whatever the answer is.
OyenteSiempre(k, ret) ==
  IF k.op = "CONNECT" THEN {[sd |-> k.socket, pc |-> "arranca", par |-> Nada]}
  ELSE {}
\* The thread that CONNECT starts.
NuevoOyente(k, ret) ==
  IF Conecta(k, ret) THEN {[sd |-> k.socket, pc |-> "arranca", par |-> Nada]}
  ELSE {}

\* The server answers.  A QUIT that it refuses ends the shell all the same.
\* The socket of a CONNECT without success is of no use to anybody.
Recibe(c, ret) ==
  LET k == cliente[c] IN
  /\ En(c, "espera")
  /\ oyentes' = [oyentes EXCEPT ![c] = @ \cup NuevoOyente(k, ret)]
  /\ cliente' = [cliente EXCEPT ![c] = [k EXCEPT
       !.op = IF k.op = "QUIT" THEN @ ELSE "", !.nombre = Nada,
       !.pc = IF Desconecta(k, ret) THEN "cierra"
              ELSE IF k.op = "QUIT" THEN "saliendo" ELSE "shell",
       !.sesion = IF Conecta(k, ret) THEN k.nombre ELSE @,
       !.socket = IF k.op = "CONNECT" /\ ~Conecta(k, ret) THEN Nada ELSE @]]
  /\ UNCHANGED <<escuchando, cola>>

\* The connection to the server ends without an answer, for each client that
\* waits for one.  readLine raises an exception or never returns (S).
PierdeServidor ==
  LET Esperan == {c \in Clientes : cliente[c].pc \in {"espera", "consulta"}} IN
  /\ \E S \in SUBSET Esperan :
       cliente' = [c \in Clientes |->
         IF c \notin Esperan THEN cliente[c]
         ELSE [cliente[c] EXCEPT
                 !.pc = IF c \in S THEN "colgado" ELSE "shell",
                 !.op = "", !.nombre = Nada,
                 !.socket = IF cliente[c].op = "CONNECT" THEN Nada ELSE @]]
  /\ RedQuieta

\* Mutant: closing the socket does not wake the thread (without shutdown).
CierraSinDespertar(c, p) ==
  /\ escuchando' = escuchando \ {p}
  /\ cola' = [cola EXCEPT ![p] = <<>>]
  /\ oyentes' = [oyentes EXCEPT ![c] =
       {[h EXCEPT !.sd = IF h.sd = p THEN Nada ELSE h.sd] : h \in @}]
\* The socket is shut: callers in its queue are cut, and a thread that was in
\* accept() gets an exception, which ends it.
CierraSocket(c, p) ==
  /\ escuchando' = escuchando \ {p}
  /\ cola' = [cola EXCEPT ![p] = <<>>]
  /\ oyentes' = [oyentes EXCEPT ![c] =
       {[h EXCEPT !.sd = IF h.sd = p THEN Nada ELSE h.sd] :
          h \in {i \in @ : i.sd # p \/ i.pc # "acepta"}}]

\* DISCONNECT has been answered 0: shutdown and close the socket.  shutdown
\* fails on one that does not listen yet, and the session stays.
Cierra(c) ==
  LET k == cliente[c] IN
  \/ /\ En(c, "cierra") /\ k.socket \in escuchando
     /\ CierraSocket(c, k.socket)
     /\ cliente' = [cliente EXCEPT ![c] = [Apagado EXCEPT
          !.pc = IF k.op = "QUIT" THEN "saliendo" ELSE "shell"]]
  \/ /\ En(c, "cierra") /\ k.socket \notin escuchando
     /\ cliente' = [cliente EXCEPT ![c] = [k EXCEPT
          !.pc = "shell", !.op = ""]]
     /\ RedQuieta

\* Mutant: QUIT does not disconnect first.
SaleSinDesconectar(c) == En(c, "shell") /\ Pasa(c, "saliendo") /\ RedQuieta
\* QUIT without a session.
Sale(c) ==
  /\ En(c, "shell") /\ cliente[c].sesion = Nada
  /\ Pasa(c, "saliendo")
  /\ RedQuieta

-----------------------------------------------------------------------------
\* The listening thread.

Cambia(c, h, nuevo) ==
  oyentes' = [oyentes EXCEPT ![c] = (@ \ {h}) \cup nuevo]

Escucha(c, h) ==
  /\ h.pc = "arranca"
  /\ Cambia(c, h, {[h EXCEPT !.pc = "acepta"]})
  /\ escuchando' = escuchando \cup {h.sd}
  /\ UNCHANGED <<cliente, cola>>

Acepta(c, h) ==
  /\ h.pc = "acepta" /\ h.sd # Nada /\ cola[h.sd] # <<>>
  /\ Cambia(c, h, {[h EXCEPT !.pc = "lee", !.par = Head(cola[h.sd])]})
  /\ cola' = [cola EXCEPT ![h.sd] = Tail(@)]
  /\ UNCHANGED <<cliente, escuchando>>

\* Mutant: a thread whose session has ended leaves its caller waiting.
AtiendeEnSesion(c, h) ==
  /\ h.sd # Nada /\ h.pc = "lee"
  /\ h.par = Ido \/ (h.par \in Clientes /\ En(h.par, "pide"))
  /\ Cambia(c, h, {[h EXCEPT !.pc = "acepta", !.par = Nada]})
  /\ cliente' = IF h.par = Ido THEN cliente
                ELSE [cliente EXCEPT ![h.par].pc = "shell",
                                     ![h.par].destino = Nada]
  /\ UNCHANGED <<escuchando, cola>>
\* A request that has been sent is read and answered.  Any exception but that
\* of a missing file (a directory of that name, a caller that is gone) ends
\* the thread; a caller that has no answer then reads for ever.  A caller that
\* is gone without a request is read for ever.  Then accept(), unless the
\* socket has been shut meanwhile.
Atiende(c, h) ==
  LET sigue == IF h.sd = Nada THEN {}
               ELSE {[h EXCEPT !.pc = "acepta", !.par = Nada]} IN
  /\ h.pc = "lee"
  /\ h.par = Ido \/ (h.par \in Clientes /\ En(h.par, "pide"))
  /\ \/ /\ Cambia(c, h, sigue)
        /\ cliente' = IF h.par = Ido THEN cliente
                      ELSE [cliente EXCEPT ![h.par].pc = "shell",
                                           ![h.par].destino = Nada]
     \/ /\ Cambia(c, h, {})
        /\ cliente' = IF h.par = Ido THEN cliente
                      ELSE [cliente EXCEPT ![h.par].pc = "colgado",
                                           ![h.par].destino = Nada]
  /\ UNCHANGED <<escuchando, cola>>

PasoOyente(c, h) == Escucha(c, h) \/ Acepta(c, h) \/ Atiende(c, h)

-----------------------------------------------------------------------------
\* GET_FILE, and the other requests that leave the session alone.

Consulta(c) ==
  En(c, "shell") /\ cliente[c].sesion # Nada /\ Pasa(c, "consulta") /\ RedQuieta

\* The server answers with nothing to do, or with the address of a client.
Informa(c, p) ==
  /\ En(c, "consulta")
  /\ cliente' = [cliente EXCEPT ![c].pc = IF p = Nada THEN "shell" ELSE "marca",
                                ![c].destino = p]
  /\ RedQuieta

\* connect() is refused if nobody listens there, and waits if the queue is full.
Marca(c) ==
  LET p == cliente[c].destino IN
  \/ /\ En(c, "marca") /\ p \in escuchando /\ Len(cola[p]) < Backlog
     /\ Pasa(c, "llama")
     /\ cola' = [cola EXCEPT ![p] = Append(@, c)]
     /\ UNCHANGED <<oyentes, escuchando>>
  \/ /\ En(c, "marca") /\ p \notin escuchando
     /\ cliente' = [cliente EXCEPT ![c].pc = "shell", ![c].destino = Nada]
     /\ RedQuieta

Pide(c) == En(c, "llama") /\ Pasa(c, "pide") /\ RedQuieta

\* c's call is in a queue, or a thread serves it.
EnCola(c, p) == \E i \in DOMAIN cola[p] : cola[p][i] = c
Servido(c) == \E d \in Clientes : \E h \in oyentes[d] : h.par = c
\* Mutant: the caller gives up while it is served.
Impaciente(c) ==
  /\ En(c, "llama") \/ En(c, "pide")
  /\ \A p \in Puertos : ~EnCola(c, p)
  /\ cliente' = [cliente EXCEPT ![c].pc = "shell", ![c].destino = Nada]
  /\ RedQuieta
\* The call was reset: the socket it waited on was closed.
Cortada(c) ==
  /\ En(c, "llama") \/ En(c, "pide")
  /\ ~Servido(c) /\ \A p \in Puertos : ~EnCola(c, p)
  /\ cliente' = [cliente EXCEPT ![c].pc = "shell", ![c].destino = Nada]
  /\ RedQuieta

-----------------------------------------------------------------------------
\* Mutant: a caller that is gone is forgotten.
RestoNada(c) == Nada
\* What is left of c's call when c is gone.
Resto(c) == IF En(c, "pide") THEN Ido ELSE Mudo

\* The process of c ends, and its sockets with it.  Of those that its threads
\* were serving, S read for ever; for the others the call is reset.
Desaparece(c) ==
  LET p       == cliente[c].socket
      atiende == {d \in Clientes \ {c} : \E h \in oyentes[c] : h.par = d} IN
  /\ \E S \in SUBSET atiende :
       cliente' = [d \in Clientes |->
         IF d = c THEN Apagado
         ELSE IF d \notin atiende THEN cliente[d]
         ELSE [cliente[d] EXCEPT !.destino = Nada,
                 !.pc = IF d \in S THEN "colgado" ELSE "shell"]]
  /\ oyentes' = [d \in Clientes |->
       IF d = c THEN {}
       ELSE {[h EXCEPT !.par = IF h.par = c THEN Resto(c) ELSE h.par] :
               h \in oyentes[d]}]
  /\ escuchando' = escuchando \ {p}
  /\ cola' = [q \in Puertos |->
       IF q = p THEN <<>>
       ELSE [i \in DOMAIN cola[q] |-> IF cola[q][i] = c THEN Resto(c)
                                      ELSE cola[q][i]]]

\* The shell is done: the process ends with its last thread.
Termina(c) == En(c, "saliendo") /\ oyentes[c] = {} /\ Desaparece(c)

\* The process is killed.
Muere(c) == ~En(c, "fuera") /\ Desaparece(c)

\* What a client does without the server: about its session, and in a GET_FILE.
Sesion(c) ==
  Arranca(c) \/ Cierra(c) \/ Sale(c) \/ \E h \in oyentes[c] : PasoOyente(c, h)
Llamada(c) == Consulta(c) \/ Marca(c) \/ Pide(c) \/ Cortada(c)

\* The clients with a server that may answer anything.  REGISTER and UNREGISTER
\* are then requests like those of Consulta.
CNext ==
  \/ \E c \in Clientes, op \in {"CONNECT", "DISCONNECT", "QUIT"}, n \in Nombres :
       Envia(c, op, n)
  \/ \E c \in Clientes : \/ \E ret \in 0..2 : Recibe(c, ret)
                         \/ \E p \in Puertos \cup {Nada} : Informa(c, p)
                         \/ Sesion(c) \/ Llamada(c) \/ Termina(c) \/ Muere(c)
  \/ PierdeServidor

CSpec == CInit /\ [][CNext]_cvars

\* Every process and thread runs when it can.  Nobody has to give a command,
\* the server need not answer, and no process has to fall.
FairCSpec ==
  /\ CSpec
  /\ \A c \in Clientes :
       /\ WF_cvars(Cierra(c) \/ Marca(c) \/ Pide(c) \/ Cortada(c) \/ Termina(c))
       /\ WF_cvars(\E h \in oyentes[c] : h.sd # Nada /\ PasoOyente(c, h))
       /\ WF_cvars(\E h \in oyentes[c] : h.sd = Nada /\ PasoOyente(c, h))

-----------------------------------------------------------------------------
(* Properties *)

\* The types of the clients, their threads and their calls.
CTypeOK ==
  /\ cliente \in [Clientes -> Procesos]
  /\ oyentes \in [Clientes -> SUBSET Oyentes]
  /\ escuchando \subseteq Puertos
  /\ cola \in [Puertos -> Seq(Llamantes)]

\* A call that the other side waits on is a call of this side: whom a thread
\* serves, or a queue holds, is in a GET_FILE, once only, and a queue belongs
\* to a socket that listens (client.py:186-204, 478-480).
CallsMatch ==
  /\ \A p \in Puertos : cola[p] # <<>> => p \in escuchando
  /\ \A c \in Clientes : Servido(c) \/ (\E p \in Puertos : EnCola(c, p)) =>
       cliente[c].pc \in {"llama", "pide"}
  /\ \A c, d \in Clientes : \A h \in oyentes[d] : h.par = c =>
       /\ \A p \in Puertos : ~EnCola(c, p)
       /\ \A e \in Clientes : \A i \in oyentes[e] :
            i.par = c => e = d /\ i = h

\* At every time a client has at most one thread on its open socket, and that
\* socket belongs to its session (client.py:140-164, 235-239).
OneListener ==
  \A c \in Clientes : \A h \in oyentes[c] : h.sd # Nada =>
    /\ h.sd = cliente[c].socket
    /\ cliente[c].sesion # Nada
    /\ \A i \in oyentes[c] : i.sd = h.sd => i = h

\* Nobody will accept at p: no thread has that socket, or it reads for ever.
Sordo(p) ==
  \A d \in Clientes : \A h \in oyentes[d] : h.sd = p => h.par = Mudo

\* A client that calls another has an answer or an exception in the end, or
\* has begun to read for ever, also when the other disconnects meanwhile: unless
\* its call waits at a socket whose thread has ended (client.py:206) or reads
\* from a caller that is gone (627).
GetFileEnds ==
  \A c \in Clientes :
    cliente[c].pc \in {"llama", "pide"}
      ~> \/ cliente[c].pc \notin {"llama", "pide"}
         \/ LET p == cliente[c].destino IN EnCola(c, p) /\ Sordo(p)

\* After QUIT the process ends, unless the server refused to disconnect it
\* (client.py:567-569) or one of its threads reads from a caller that is gone
\* (627).
QuitEnds ==
  \A c \in Clientes :
    En(c, "saliendo")
      ~> \/ ~En(c, "saliendo")
         \/ cliente[c].sesion # Nada
         \/ \E h \in oyentes[c] : h.par = Mudo
=============================================================================
