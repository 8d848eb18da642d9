---------------------------- MODULE SistemaProofs ----------------------------
(***************************************************************************)
(* Proofs about Sistema, for every set of clients, threads, names and      *)
(* addresses: the types, that a session has its record at the server, that *)
(* a record is removed only at the request of its session, and how one may *)
(* be left without a session.                                              *)
(***************************************************************************)
EXTENDS Sistema, ClienteProofs

\* Where a thread can be, by its operation.
Fase == [REGISTER   |-> {"reg_existe", "reg_crea"},
         UNREGISTER |-> {"unreg_existe", "unreg_borra"},
         CONNECT    |-> {"con_registro", "con_conexion", "con_crea",
                         "con_escribe"},
         DISCONNECT |-> {"dis_registro", "dis_conexion", "dis_borra"}]

\* A thread serves a whole request, in a server that runs and whose
\* directories exist; only one that writes a record has a file open.
HilosInv ==
  /\ carpetas = Carpetas
  /\ \A t \in Hilos : hilo[t].pc # "libre" =>
       LET h == hilo[t] IN
       /\ vivo /\ h.op \in DOMAIN Fase /\ h.user \in Usuarios
       /\ h.pc \in {"rpc", "responde"} \cup Fase[h.op]
       /\ h.op \in {"CONNECT", "DISCONNECT"} => h.dato \in Puertos
  /\ \A t \in enlazados : hilo[t].pc = "con_escribe"

\* A client waits exactly while a thread has its request, which is the one it
\* sent; nobody else waits for that thread.
Pedida(c) ==
  LET k == cliente[c]
      h == hilo[turno[c]] IN
  /\ turno[c] \in Hilos /\ h.pc # "libre"
  /\ k.op \in Ordenes /\ k.nombre \in Nombres
  /\ h.user = Leido[k.nombre]
  /\ h.op = IF k.op = "QUIT" THEN "DISCONNECT" ELSE k.op
  /\ k.op \notin {"REGISTER", "UNREGISTER"} => h.dato = k.socket
  /\ k.op \in {"DISCONNECT", "QUIT"} => k.nombre = k.sesion
EsperasInv ==
  /\ \A c \in Clientes : /\ turno[c] # Nada <=> En(c, "espera")
                         /\ En(c, "espera") => Pedida(c)
  /\ \A c, d \in Clientes : turno[c] = turno[d] /\ turno[c] # Nada => c = d

SocketDeSesion ==
  \A c \in Clientes : cliente[c].sesion # Nada => cliente[c].socket \in Puertos

\* Whoever the record of v belongs to: a session of v that does not end; a
\* CONNECT that has found none, makes it, or has made it and is not answered;
\* a DISCONNECT that is about to remove it.
DeSesion(c, v) ==
  /\ cliente[c].sesion # Nada /\ Leido[cliente[c].sesion] = v
  /\ ~SeDesconecta(c)
DePeticion(t, v) ==
  LET h == hilo[t] IN
  /\ h.user = v
  /\ \/ h.pc \in {"con_crea", "con_escribe"} \cup Fase.DISCONNECT
     \/ h.pc = "rpc" /\ h.op = "DISCONNECT"
     \/ h.pc = "responde" /\ h.op = "CONNECT" /\ h.ret = 0

\* What the record of such a request holds.
Contenido(h) ==
  IF h.pc = "con_crea" THEN Nada
  ELSE IF h.pc = "con_escribe" THEN Vacio ELSE h.dato

\* Each of them knows what the record holds, and there is one only, but for a
\* session and its own DISCONNECT.
Dueno(v) ==
  /\ \A c \in Clientes : DeSesion(c, v) => conectados[v] = cliente[c].socket
  /\ \A t \in Hilos : DePeticion(t, v) =>
       /\ conectados[v] = Contenido(hilo[t])
       /\ hilo[t].pc = "con_escribe" => t \in enlazados
  /\ \A t, s \in Hilos : DePeticion(t, v) /\ DePeticion(s, v) => t = s
  /\ \A c \in Clientes, t \in Hilos :
       DeSesion(c, v) /\ DePeticion(t, v) => turno[c] = t
DuenosInv == \A v \in Usuarios \ dudosos : Dueno(v)

\* The user of a session, or of a CONNECT that has found it registered, is
\* registered, unless it has lost its registration since.
Aceptado(t) ==
  \/ hilo[t].pc \in {"con_conexion", "con_crea", "con_escribe"}
  \/ hilo[t].pc = "responde" /\ hilo[t].ret = 0
Registrado(c) ==
  LET k == cliente[c] IN
  /\ k.sesion # Nada => Leido[k.sesion] \in registrados
  /\ k.op = "CONNECT" /\ Aceptado(turno[c]) => Leido[k.nombre] \in registrados
RegistroInv == \A c \in Clientes \ expulsados : Registrado(c)

\* A DISCONNECT is refused only after one or the other, and only then a shell
\* is done that has a session.
Rechazado(c) ==
  \/ En(c, "saliendo") /\ cliente[c].sesion # Nada
  \/ /\ En(c, "espera") /\ cliente[c].op \in {"DISCONNECT", "QUIT"}
     /\ hilo[turno[c]].pc = "responde" /\ hilo[turno[c]].ret # 0
RechazoInv ==
  \A c \in Clientes : Rechazado(c) =>
    c \in expulsados \/ Leido[cliente[c].sesion] \in dudosos

EnlaceInv ==
  /\ ClienteInv /\ STypeOK
  /\ HilosInv /\ EsperasInv /\ SocketDeSesion
SistemaInv == EnlaceInv /\ DuenosInv /\ RegistroInv /\ RechazoInv

-----------------------------------------------------------------------------
\* What the server has to do with d stays as it is: d moves on, if at all,
\* between states in which no answer is waited for and no session ends, and is
\* not done as long as it has a session.
Igual(d) ==
  LET k == cliente[d]
      m == cliente'[d] IN
  /\ m.op = k.op /\ m.nombre = k.nombre
  /\ m.sesion = k.sesion /\ m.socket = k.socket
  /\ \/ m.pc = k.pc
     \/ /\ {m.pc, k.pc} \cap {"espera", "cierra"} = {}
        /\ m.pc = "saliendo" => k.sesion = Nada

LEMMA MueveIgual ==
  ASSUME NEW c \in Clientes, NEW pc, NEW p, Mueve(c, pc, p),
         {pc, cliente[c].pc} \cap {"espera", "cierra"} = {},
         pc = "saliendo" => cliente[c].sesion = Nada
  PROVE  \A d \in Clientes : Igual(d)
<1> TAKE d \in Clientes
<1>1. CASE d = c
  BY <1>1 DEF Mueve, Igual
<1>2. CASE d # c
  BY <1>2 DEF Mueve, Igual
<1> QED
  BY <1>1, <1>2

\* The threads that listen change no shell but those they serve, which are in
\* a GET_FILE.
LEMMA PasoOyenteIgual ==
  ASSUME ClienteInv, NEW c \in Clientes, NEW h \in oyentes[c], PasoOyente(c, h)
  PROVE  \A d \in Clientes : Igual(d)
<1>1. CASE UNCHANGED cliente
  BY <1>1 DEF Igual
<1>2. ASSUME NEW e \in Clientes, En(e, "pide"), NEW pc \in {"shell", "colgado"},
             cliente' = [cliente EXCEPT ![e].pc = pc, ![e].destino = Nada]
      PROVE  \A d \in Clientes : Igual(d)
  <2>1. Mueve(e, pc, Nada)
    BY <1>2, DestinoMueve DEF ClienteInv, ShellPCs
  <2> QED
    BY <1>2, <2>1, MueveIgual DEF En
<1>3. CASE Escucha(c, h) \/ Acepta(c, h)
  BY <1>1, <1>3 DEF Escucha, Acepta
<1>4. CASE Atiende(c, h)
  BY <1>1, <1>2, <1>4 DEF Atiende
<1> QED
  BY <1>3, <1>4 DEF PasoOyente

\* Nor does a client on its own, except the end of its session.
LEMMA SesionIgual ==
  ASSUME ClienteInv, NEW c \in Clientes, Sesion(c)
  PROVE  (\A d \in Clientes : Igual(d)) \/ Cierra(c)
<1>1. CASE Arranca(c)
  <2>1. Mueve(c, "shell", cliente[c].destino)
    BY <1>1, PasaMueve DEF Arranca, ClienteInv, ShellPCs
  <2> QED
    BY <1>1, <2>1, MueveIgual DEF Arranca, En
<1>2. CASE Sale(c)
  <2>1. Mueve(c, "saliendo", cliente[c].destino)
    BY <1>2, PasaMueve DEF Sale, ClienteInv, ShellPCs
  <2> QED
    BY <1>2, <2>1, MueveIgual DEF Sale, En
<1> QED
  BY <1>1, <1>2, PasoOyenteIgual DEF Sesion

\* The end of a session: it is gone, or an exception keeps it.
LEMMA CierraEs ==
  ASSUME ClienteInv, NEW c \in Clientes, Cierra(c)
  PROVE  LET k == cliente[c]
             m == cliente'[c] IN
         /\ k.pc = "cierra" /\ m.pc \in {"shell", "saliendo"}
         /\ \A d \in Clientes \ {c} : cliente'[d] = cliente[d]
         /\ \/ m.sesion = Nada /\ m.socket = Nada
            \/ m.pc = "shell" /\ m.sesion = k.sesion /\ m.socket = k.socket
<1> DEFINE k == cliente[c]
<1>1. k \in Procesos /\ k.pc = "cierra"
  BY DEF ClienteInv, CTypeOK, Cierra, En
<1>2. ASSUME NEW m \in Procesos, cliente' = [cliente EXCEPT ![c] = m]
      PROVE  cliente'[c] = m /\ \A d \in Clientes \ {c} : cliente'[d] = cliente[d]
  BY <1>2, OtroEstado DEF ClienteInv
<1>3. ASSUME NEW pc \in {"shell", "saliendo"},
             cliente' = [cliente EXCEPT ![c] = [Apagado EXCEPT !.pc = pc]]
      PROVE  /\ \A d \in Clientes \ {c} : cliente'[d] = cliente[d]
             /\ cliente'[c].pc = pc
             /\ cliente'[c].sesion = Nada /\ cliente'[c].socket = Nada
  <2> DEFINE m == [Apagado EXCEPT !.pc = pc]
  <2>1. m \in Procesos /\ m.pc = pc /\ m.sesion = Nada /\ m.socket = Nada
    BY DEF Apagado, Procesos, ShellPCs
  <2> HIDE DEF m
  <2> QED
    BY <1>2, <1>3, <2>1 DEF m
<1>4. ASSUME cliente' = [cliente EXCEPT ![c] = [k EXCEPT !.pc = "shell", !.op = ""]]
      PROVE  /\ \A d \in Clientes \ {c} : cliente'[d] = cliente[d]
             /\ cliente'[c].pc = "shell"
             /\ cliente'[c].sesion = k.sesion /\ cliente'[c].socket = k.socket
  <2> DEFINE m == [k EXCEPT !.pc = "shell", !.op = ""]
  <2>1. /\ m \in Procesos /\ m.pc = "shell"
        /\ m.sesion = k.sesion /\ m.socket = k.socket
    BY <1>1 DEF Procesos, ShellPCs
  <2> HIDE DEF m, k
  <2> QED
    BY <1>2, <1>4, <2>1 DEF m
<1> QED
  BY <1>1, <1>3, <1>4 DEF Cierra

\* A process that ends leaves the others as they are, but those it served.
LEMMA DesapareceEs ==
  ASSUME ClienteInv, NEW c \in Clientes, Desaparece(c)
  PROVE  /\ cliente'[c] = Apagado
         /\ \A d \in Clientes \ {c} : Igual(d)
<1> DEFINE atiende == {d \in Clientes \ {c} : \E h \in oyentes[c] : h.par = d}
           pasa(d, S) == [cliente[d] EXCEPT !.destino = Nada,
                            !.pc = IF d \in S THEN "colgado" ELSE "shell"]
<1>1. PICK S \in SUBSET atiende :
        cliente' = [d \in Clientes |->
          IF d = c THEN Apagado
          ELSE IF d \notin atiende THEN cliente[d] ELSE pasa(d, S)]
  BY DEF Desaparece
<1>2. ASSUME NEW d \in Clientes \ {c} PROVE Igual(d)
  <2>1. CASE d \notin atiende
    BY <1>1, <2>1 DEF Igual
  <2>2. CASE d \in atiende
    <3>1. cliente[d].pc \in {"llama", "pide"} /\ cliente[d] \in Procesos
      BY <2>2 DEF ClienteInv, CTypeOK, LlamadasInv, CallsMatch, Servido
    <3>2. /\ pasa(d, S).pc \in {"colgado", "shell"}
          /\ pasa(d, S).op = cliente[d].op
          /\ pasa(d, S).nombre = cliente[d].nombre
          /\ pasa(d, S).sesion = cliente[d].sesion
          /\ pasa(d, S).socket = cliente[d].socket
      BY <3>1 DEF Procesos
    <3>3. cliente'[d] = pasa(d, S)
      BY <1>1, <2>2
    <3> HIDE DEF pasa
    <3> QED
      BY <3>1, <3>2, <3>3 DEF Igual
  <2> QED
    BY <2>1, <2>2
<1> QED
  BY <1>1, <1>2

\* A command that is sent.
LEMMA EnviaEs ==
  ASSUME ClienteInv, NEW c \in Clientes, NEW op \in Ordenes, NEW n \in Nombres,
         Envia(c, op, n)
  PROVE  LET k == cliente[c]
             m == cliente'[c] IN
         /\ k.pc = "shell" /\ Admite(c, op, n)
         /\ m.pc = "espera" /\ m.op = op /\ m.nombre = n /\ m.sesion = k.sesion
         /\ IF op = "CONNECT" THEN m.socket \in Puertos
            ELSE m.socket = k.socket
         /\ \A d \in Clientes \ {c} : cliente'[d] = cliente[d]
<1> DEFINE k == cliente[c]
<1>1. PICK p \in IF op = "CONNECT" THEN Libres ELSE {k.socket} :
        cliente' = [cliente EXCEPT ![c] = [k EXCEPT
                      !.pc = "espera", !.op = op, !.nombre = n, !.socket = p]]
  BY DEF Envia
<1> DEFINE m == [k EXCEPT !.pc = "espera", !.op = op, !.nombre = n, !.socket = p]
<1>2. k \in Procesos /\ p \in Puertos \cup {Nada}
      /\ IF op = "CONNECT" THEN p \in Puertos ELSE p = k.socket
  BY <1>1 DEF ClienteInv, CTypeOK, Procesos, Libres
<1> HIDE DEF k
<1>3. /\ m \in Procesos /\ m.pc = "espera" /\ m.op = op /\ m.nombre = n
      /\ m.sesion = k.sesion /\ m.socket = p
  BY <1>2 DEF Procesos, ShellPCs
<1>4. cliente' = [cliente EXCEPT ![c] = m]
  BY <1>1
<1> HIDE DEF m
<1>5. cliente'[c] = m /\ \A d \in Clientes \ {c} : cliente'[d] = cliente[d]
  BY <1>3, <1>4, OtroEstado DEF ClienteInv
<1> QED
  BY <1>2, <1>3, <1>5 DEF Envia, En, k

\* An answer that is received.
LEMMA RecibeEs ==
  ASSUME ClienteInv, NEW c \in Clientes, NEW ret, Recibe(c, ret)
  PROVE  LET k == cliente[c]
             m == cliente'[c] IN
         /\ k.pc = "espera"
         /\ m.pc = IF Desconecta(k, ret) THEN "cierra"
                   ELSE IF k.op = "QUIT" THEN "saliendo" ELSE "shell"
         /\ m.op # "CONNECT"
         /\ m.sesion = IF Conecta(k, ret) THEN k.nombre ELSE k.sesion
         /\ m.socket = IF k.op = "CONNECT" /\ ~Conecta(k, ret) THEN Nada
                       ELSE k.socket
         /\ \A d \in Clientes \ {c} : cliente'[d] = cliente[d]
<1> DEFINE k == cliente[c]
           o == IF k.op = "QUIT" THEN k.op ELSE ""
           pc == IF Desconecta(k, ret) THEN "cierra"
                 ELSE IF k.op = "QUIT" THEN "saliendo" ELSE "shell"
           se == IF Conecta(k, ret) THEN k.nombre ELSE k.sesion
           so == IF k.op = "CONNECT" /\ ~Conecta(k, ret) THEN Nada ELSE k.socket
           m == [k EXCEPT !.op = o, !.nombre = Nada, !.pc = pc, !.sesion = se,
                          !.socket = so]
<1>1. k \in Procesos
  BY DEF ClienteInv, CTypeOK
<1>2. /\ o \in Ordenes \cup {""} /\ o # "CONNECT" /\ pc \in ShellPCs
      /\ se \in Nombres \cup {Nada} /\ so \in Puertos \cup {Nada}
  BY <1>1 DEF Procesos, ShellPCs, Ordenes
<1>3. cliente' = [cliente EXCEPT ![c] = m]
  BY DEF Recibe
<1> HIDE DEF k, o, pc, se, so
<1>4. /\ m \in Procesos /\ m.pc = pc /\ m.op = o /\ m.sesion = se /\ m.socket = so
  BY <1>1, <1>2 DEF Procesos
<1> HIDE DEF m
<1>5. cliente'[c] = m /\ \A d \in Clientes \ {c} : cliente'[d] = cliente[d]
  BY <1>3, <1>4, OtroEstado DEF ClienteInv
<1>6. cliente[c].pc = "espera"
  BY DEF Recibe, En
<1> QED
  BY <1>2, <1>4, <1>5, <1>6 DEF k, pc, se, so

\* The connections to the server are lost: whoever waited goes on, or hangs,
\* with the session it had.
LEMMA PierdeEs ==
  ASSUME ClienteInv, PierdeServidor, NEW c \in Clientes
  PROVE  LET k == cliente[c]
             m == cliente'[c] IN
         /\ m.sesion = k.sesion
         /\ IF k.pc \in {"espera", "consulta"}
            THEN /\ m.pc \in {"colgado", "shell"} /\ m.op = ""
                 /\ m.socket = IF k.op = "CONNECT" THEN Nada ELSE k.socket
            ELSE m = k
<1> DEFINE Esperan == {d \in Clientes : cliente[d].pc \in {"espera", "consulta"}}
           so(d) == IF cliente[d].op = "CONNECT" THEN Nada ELSE cliente[d].socket
           pasa(d, S) == [cliente[d] EXCEPT
                            !.pc = IF d \in S THEN "colgado" ELSE "shell",
                            !.op = "", !.nombre = Nada, !.socket = so(d)]
<1>1. PICK S \in SUBSET Esperan :
        cliente' = [d \in Clientes |-> IF d \notin Esperan THEN cliente[d]
                                       ELSE pasa(d, S)]
  BY DEF PierdeServidor
<1>2. CASE c \notin Esperan
  BY <1>1, <1>2
<1>3. CASE c \in Esperan
  <2>1. cliente[c] \in Procesos
    BY DEF ClienteInv, CTypeOK
  <2>2. /\ pasa(c, S).pc \in {"colgado", "shell"} /\ pasa(c, S).op = ""
        /\ pasa(c, S).sesion = cliente[c].sesion /\ pasa(c, S).socket = so(c)
    BY <2>1 DEF Procesos
  <2>3. cliente'[c] = pasa(c, S)
    BY <1>1, <1>3
  <2> HIDE DEF pasa
  <2> QED
    BY <1>3, <2>2, <2>3
<1> QED
  BY <1>2, <1>3

\* A thread is called by somebody who does not wait for it.
LEMMA VisitaKeeps ==
  ASSUME ClienteInv, NEW c \in Clientes, Visita(c)
  PROVE  ClienteInv'
<1>1. PICK h \in oyentes[c] : /\ h.pc = "acepta" /\ h.sd # Nada
                               /\ Cambia(c, h, {[h EXCEPT !.pc = "lee", !.par = Ido]})
  BY DEF Visita
<1> DEFINE n == [h EXCEPT !.pc = "lee", !.par = Ido]
<1>2. h \in Oyentes /\ UNCHANGED <<cliente, escuchando, cola>>
  BY DEF Visita, ClienteInv, CTypeOK
<1>3. n \in Oyentes /\ n.sd = h.sd /\ n.pc = "lee" /\ n.par \notin Clientes
  BY <1>2, ClienteAssumption DEF Oyentes, OyentePCs, Llamantes
<1> HIDE DEF n
<1>4. /\ oyentes' \in [Clientes -> SUBSET Oyentes]
      /\ oyentes'[c] = (oyentes[c] \ {h}) \cup {n}
      /\ \A d \in Clientes \ {c} : oyentes'[d] = oyentes[d]
  BY <1>1, <1>3, CambiaOyentes DEF ClienteInv, n
<1>5. CTypeOK'
  BY <1>2, <1>4 DEF ClienteInv, CTypeOK
<1>6. \A d \in Clientes : \A i \in oyentes'[d] :
        i \in oyentes[d] \/ (d = c /\ i = n)
  BY <1>4
<1>7. \A d \in Clientes : \A i, j \in oyentes'[d] :
        i.par = j.par /\ i.par \in Clientes => i = j
  BY <1>3, <1>6 DEF ClienteInv, LlamadasInv, CallsMatch
<1>8. \A d \in Clientes : \A i \in oyentes'[d] : i.par \in Clientes =>
        \E g \in oyentes[d] : g.par = i.par
  BY <1>3, <1>6
<1>9. \A q \in Puertos : cola'[q] # <<>> => q \in escuchando'
  BY <1>2 DEF ClienteInv, LlamadasInv, CallsMatch
<1>10. LlamadasInv'
  BY <1>2, <1>7, <1>8, <1>9, LlamadasSiguen DEF ClienteInv, EnLlamada
<1>11. \A d \in Clientes : \A i, j \in oyentes'[d] :
         i.sd = j.sd /\ i.sd # Nada => i = j
  BY <1>3, <1>4 DEF ClienteInv, SesionInv, OneListener
<1>12. \A d \in Clientes : \A i \in oyentes'[d] :
         i \in oyentes[d] \/ (i.pc # "arranca" /\ \E g \in oyentes[d] : g.sd = i.sd)
  BY <1>3, <1>6
<1>13. SesionInv'
  BY <1>2, <1>11, <1>12, OyentesSiguen
<1> QED
  BY <1>5, <1>10, <1>13 DEF ClienteInv

-----------------------------------------------------------------------------
\* The server's side of a step.

\* What a file may hold is told apart.
LEMMA Distintos ==
  /\ Nada # Vacio /\ Vacio # Mezcla /\ Mezcla # Nada
  /\ {Nada, Vacio, Mezcla} \cap (Puertos \cup {Blanco}) = {}
BY SistemaAssumption

\* Thread t alone moves, with the request that it has.
Avanza(t) ==
  /\ hilo' \in [Hilos -> Srv!Marcos]
  /\ hilo'[t].op = hilo[t].op /\ hilo'[t].user = hilo[t].user
  /\ hilo'[t].dato = hilo[t].dato
  /\ \A s \in Hilos \ {t} : hilo'[s] = hilo[s]
Paso(t, desde, hasta) == hilo[t].pc = desde /\ hilo'[t].pc = hasta
Dice(t, desde, ret) == Paso(t, desde, "responde") /\ hilo'[t].ret = ret

LEMMA OtroMarco ==
  ASSUME STypeOK, NEW t \in Hilos, NEW m \in Srv!Marcos,
         hilo' = [hilo EXCEPT ![t] = m]
  PROVE  /\ hilo' \in [Hilos -> Srv!Marcos] /\ hilo'[t] = m
         /\ \A s \in Hilos \ {t} : hilo'[s] = hilo[s]
BY DEF STypeOK, Srv!TypeOK

LEMMA SigueAvanza ==
  ASSUME STypeOK, NEW t \in Hilos, NEW pc \in Srv!HiloPCs, Srv!Sigue(t, pc)
  PROVE  Avanza(t) /\ hilo'[t].pc = pc
<1> DEFINE m == [hilo[t] EXCEPT !.pc = pc]
<1>1. /\ m \in Srv!Marcos /\ m.pc = pc /\ m.op = hilo[t].op
      /\ m.user = hilo[t].user /\ m.dato = hilo[t].dato
  BY DEF STypeOK, Srv!TypeOK, Srv!Marcos
<1>2. hilo' = [hilo EXCEPT ![t] = m]
  BY DEF Srv!Sigue, STypeOK, Srv!TypeOK
<1> HIDE DEF m
<1> QED
  BY <1>1, <1>2, OtroMarco DEF Avanza

LEMMA ContestaAvanza ==
  ASSUME STypeOK, NEW t \in Hilos, NEW ret \in 0..3, Srv!Contesta(t, ret)
  PROVE  Avanza(t) /\ hilo'[t].pc = "responde" /\ hilo'[t].ret = ret
<1> DEFINE m == [hilo[t] EXCEPT !.pc = "responde", !.ret = ret]
<1>1. /\ m \in Srv!Marcos /\ m.pc = "responde" /\ m.ret = ret
      /\ m.op = hilo[t].op /\ m.user = hilo[t].user /\ m.dato = hilo[t].dato
  <2>1. "responde" \in Srv!HiloPCs
    BY DEF Srv!HiloPCs
  <2> QED
    BY <2>1 DEF STypeOK, Srv!TypeOK, Srv!Marcos
<1>2. hilo' = [hilo EXCEPT ![t] = m]
  BY DEF Srv!Contesta
<1> HIDE DEF m
<1> QED
  BY <1>1, <1>2, OtroMarco DEF Avanza

\* The call on a file that t makes, by what it does to the tables.
Mirada(t) ==
  LET h == hilo[t] IN
  /\ UNCHANGED <<registrados, conectados, enlazados>>
  /\ \/ /\ h.pc = "rpc" /\ hilo'[t].pc \in Fase[h.op]
        /\ hilo'[t].pc \in {"reg_existe", "unreg_existe", "con_registro",
                            "dis_registro"}
     \/ Dice(t, "reg_existe", 1) \/ Paso(t, "reg_existe", "reg_crea")
     \/ Dice(t, "unreg_existe", 1) \/ Paso(t, "unreg_existe", "unreg_borra")
     \/ Dice(t, "con_registro", 1)
     \/ Paso(t, "con_registro", "con_conexion") /\ h.user \in registrados
     \/ Dice(t, "con_conexion", 2)
     \/ Paso(t, "con_conexion", "con_crea") /\ conectados[h.user] = Nada
     \/ Dice(t, "dis_registro", 1) /\ h.user \notin registrados
     \/ Paso(t, "dis_registro", "dis_conexion")
     \/ Dice(t, "dis_conexion", 2) /\ conectados[h.user] = Nada
     \/ Paso(t, "dis_conexion", "dis_borra")
Alta(t) ==
  /\ Dice(t, "reg_crea", 0) /\ registrados' = registrados \cup {hilo[t].user}
  /\ UNCHANGED <<conectados, enlazados>>
Baja(t) ==
  /\ Dice(t, "unreg_borra", 0) /\ registrados' = registrados \ {hilo[t].user}
  /\ UNCHANGED <<conectados, enlazados>>
Creacion(t) ==
  /\ Paso(t, "con_crea", "con_escribe")
  /\ conectados' = [conectados EXCEPT ![hilo[t].user] = Vacio]
  /\ enlazados' = enlazados \cup {t}
  /\ UNCHANGED registrados
Escritura(t) ==
  LET u == hilo[t].user IN
  /\ Dice(t, "con_escribe", 0)
  /\ \E x \in {hilo[t].dato, Mezcla, conectados[u]} :
       /\ conectados' = [conectados EXCEPT ![u] = x]
       /\ t \in enlazados /\ conectados[u] = Vacio => x = hilo[t].dato
  /\ enlazados' = enlazados \ {t}
  /\ UNCHANGED registrados
Borrado(t) ==
  LET u == hilo[t].user IN
  /\ Dice(t, "dis_borra", 0)
  /\ conectados' = [v \in Usuarios |-> IF v = u THEN Nada ELSE conectados[v]]
  /\ enlazados' = enlazados \ Srv!Conectando(u)
  /\ UNCHANGED registrados
Efecto(t) ==
  \/ Mirada(t) \/ Alta(t) \/ Baja(t) \/ Creacion(t) \/ Escritura(t) \/ Borrado(t)

LEMMA FasePCs ==
  /\ DOMAIN Fase = {"REGISTER", "UNREGISTER", "CONNECT", "DISCONNECT"}
  /\ Fase["REGISTER"] = {"reg_existe", "reg_crea"}
  /\ Fase["UNREGISTER"] = {"unreg_existe", "unreg_borra"}
  /\ Fase["CONNECT"] = {"con_registro", "con_conexion", "con_crea", "con_escribe"}
  /\ Fase["DISCONNECT"] = {"dis_registro", "dis_conexion", "dis_borra"}
BY DEF Fase

LEMMA SirveEs ==
  ASSUME EnlaceInv, NEW t \in Hilos, Sirve(t)
  PROVE  /\ hilo[t].pc \notin {"libre", "responde"}
         /\ hilo[t].op \in DOMAIN Fase /\ hilo[t].user \in Usuarios
         /\ hilo[t].pc \in {"rpc"} \cup Fase[hilo[t].op]
         /\ Avanza(t) /\ Efecto(t)
         /\ UNCHANGED <<cvars, turno, carpetas, publicaciones, vivo, caido>>
<1> DEFINE h == hilo[t]
           u == h.user
<1>1. /\ UNCHANGED <<cvars, turno>>
      /\ \/ Srv!Rpc(t) \/ Srv!Register(t) \/ Srv!Unregister(t)
         \/ Srv!Connect(t) \/ Srv!Disconnect(t)
  BY DEF Sirve
<1>2. h.pc \notin {"libre", "responde"}
  BY <1>1 DEF Srv!Rpc, Srv!Register, Srv!Unregister, Srv!Connect,
              Srv!Disconnect, Srv!Mira, Srv!En
<1>3. /\ h.op \in DOMAIN Fase /\ u \in Usuarios
      /\ h.pc \in {"rpc"} \cup Fase[h.op]
      /\ h.op \in {"CONNECT", "DISCONNECT"} => h.dato \in Puertos
  BY <1>2 DEF EnlaceInv, HilosInv
<1>4. /\ STypeOK /\ u # Blanco /\ carpetas = Carpetas
      /\ {"registrados", "conectados"} \subseteq carpetas
  BY <1>3, SistemaAssumption DEF EnlaceInv, HilosInv, Carpetas
<1> HIDE DEF h, u
<1>5. SUFFICES Avanza(t) /\ Efecto(t)
               /\ UNCHANGED <<carpetas, publicaciones, vivo, caido>>
  BY <1>1, <1>2, <1>3 DEF h, u
<1>6. CASE Srv!Rpc(t)
  <2> DEFINE pc == Srv!Comienzo[h.op]
  <2>1. /\ pc \in Fase[h.op] /\ pc \in Srv!HiloPCs
        /\ pc \in {"reg_existe", "unreg_existe", "con_registro", "dis_registro"}
    BY <1>3, FasePCs DEF Srv!Comienzo, Srv!Operaciones, Srv!HiloPCs
  <2>2. /\ h.pc = "rpc" /\ Srv!Sigue(t, pc)
        /\ UNCHANGED <<carpetas, registrados, conectados, publicaciones,
                       enlazados, vivo, caido>>
    BY <1>6 DEF Srv!Rpc, Srv!En, Srv!disco, h
  <2> HIDE DEF pc
  <2>3. Avanza(t) /\ hilo'[t].pc = pc
    BY <1>4, <2>1, <2>2, SigueAvanza
  <2>4. Mirada(t)
    BY <2>1, <2>2, <2>3 DEF Mirada, h
  <2> QED
    BY <2>2, <2>3, <2>4 DEF Efecto
\* Where t can go on to, and what it can answer.
<1>7. ASSUME NEW pc \in {"reg_crea", "unreg_borra", "con_conexion", "con_crea",
                         "dis_conexion", "dis_borra"},
             Srv!Sigue(t, pc)
      PROVE  Avanza(t) /\ hilo'[t].pc = pc
  <2>1. pc \in Srv!HiloPCs
    BY <1>7 DEF Srv!HiloPCs
  <2> QED
    BY <1>4, <1>7, <2>1, SigueAvanza
<1>8. ASSUME NEW ret \in {0, 1, 2}, Srv!Contesta(t, ret)
      PROVE  Avanza(t) /\ hilo'[t].pc = "responde" /\ hilo'[t].ret = ret
  BY <1>4, <1>8, ContestaAvanza
\* t only looks.
<1>9. ASSUME NEW pc, Srv!Mira(t, pc)
      PROVE  /\ h.pc = pc
             /\ UNCHANGED <<registrados, conectados, enlazados>>
             /\ UNCHANGED <<carpetas, publicaciones, vivo, caido>>
  BY <1>9 DEF Srv!Mira, Srv!En, Srv!disco, h
<1>10. /\ Srv!HayRegistro(u) <=> u \in registrados
       /\ Srv!HayConexion(u) <=> conectados[u] # Nada
  BY <1>4 DEF Srv!HayRegistro, Srv!HayConexion
<1>11. CASE Srv!Register(t)
  <2>1. CASE Srv!Mira(t, "reg_existe") /\ Srv!Contesta(t, 1)
    BY <1>8, <1>9, <2>1 DEF Efecto, Mirada, Dice, Paso, h
  <2>2. CASE Srv!Mira(t, "reg_existe") /\ Srv!Sigue(t, "reg_crea")
    BY <1>7, <1>9, <2>2 DEF Efecto, Mirada, Dice, Paso, h
  <2>3. CASE /\ h.pc = "reg_crea" /\ registrados' = registrados \cup {u}
             /\ Srv!Contesta(t, 0)
             /\ UNCHANGED <<carpetas, conectados, publicaciones, enlazados,
                            vivo, caido>>
    BY <1>8, <2>3 DEF Efecto, Alta, Dice, Paso, h, u
  <2> QED
    BY <1>4, <1>11, <2>1, <2>2, <2>3 DEF Srv!Register, Srv!En, h, u
<1>12. CASE Srv!Unregister(t)
  <2>1. CASE Srv!Mira(t, "unreg_existe") /\ Srv!Contesta(t, 1)
    BY <1>8, <1>9, <2>1 DEF Efecto, Mirada, Dice, Paso, h
  <2>2. CASE Srv!Mira(t, "unreg_existe") /\ Srv!Sigue(t, "unreg_borra")
    BY <1>7, <1>9, <2>2 DEF Efecto, Mirada, Dice, Paso, h
  <2>3. CASE /\ h.pc = "unreg_borra" /\ registrados' = registrados \ {u}
             /\ Srv!Contesta(t, 0)
             /\ UNCHANGED <<carpetas, conectados, publicaciones, enlazados,
                            vivo, caido>>
    BY <1>8, <2>3 DEF Efecto, Baja, Dice, Paso, h, u
  <2> QED
    BY <1>4, <1>12, <2>1, <2>2, <2>3 DEF Srv!Unregister, Srv!En, h, u
<1>13. CASE Srv!Connect(t)
  <2> DEFINE puerto == IF h.dato \in Puertos THEN h.dato ELSE Blanco
  <2>1. CASE Srv!Mira(t, "con_registro") /\ Srv!Contesta(t, 1)
    BY <1>8, <1>9, <2>1 DEF Efecto, Mirada, Dice, Paso, h
  <2>2. CASE /\ Srv!Mira(t, "con_registro") /\ Srv!HayRegistro(u)
             /\ Srv!Sigue(t, "con_conexion")
    BY <1>7, <1>9, <1>10, <2>2 DEF Efecto, Mirada, Dice, Paso, h, u
  <2>3. CASE Srv!Mira(t, "con_conexion") /\ Srv!Contesta(t, 2)
    BY <1>8, <1>9, <2>3 DEF Efecto, Mirada, Dice, Paso, h
  <2>4. CASE /\ Srv!Mira(t, "con_conexion") /\ ~Srv!HayConexion(u)
             /\ Srv!Sigue(t, "con_crea")
    BY <1>7, <1>9, <1>10, <2>4 DEF Efecto, Mirada, Dice, Paso, h, u
  <2>5. h.pc \in {"con_crea", "con_escribe"} => puerto = h.dato
    BY <1>3, FasePCs
  <2>6. CASE /\ h.pc = "con_crea"
             /\ conectados' = [conectados EXCEPT ![u] = Vacio]
             /\ hilo' = [hilo EXCEPT ![t] = [hilo[t] EXCEPT
                           !.pc = "con_escribe", !.dato = puerto]]
             /\ enlazados' = enlazados \cup {t}
             /\ UNCHANGED <<carpetas, registrados, publicaciones, vivo, caido>>
    <3> DEFINE m == [h EXCEPT !.pc = "con_escribe", !.dato = puerto]
    <3>1. h \in Srv!Marcos /\ "con_escribe" \in Srv!HiloPCs /\ puerto = h.dato
      BY <1>4, <2>5, <2>6 DEF STypeOK, Srv!TypeOK, Srv!HiloPCs, h
    <3> HIDE DEF h, puerto
    <3>2. /\ m \in Srv!Marcos /\ m.pc = "con_escribe" /\ m.op = h.op
          /\ m.user = h.user /\ m.dato = h.dato
      BY <3>1 DEF Srv!Marcos
    <3>3. hilo' = [hilo EXCEPT ![t] = m]
      BY <2>6 DEF h
    <3> HIDE DEF m
    <3>4. Avanza(t) /\ hilo'[t].pc = "con_escribe"
      BY <1>4, <3>2, <3>3, OtroMarco DEF Avanza, h
    <3> QED
      BY <2>6, <3>4 DEF Efecto, Creacion, Paso, h, u
  <2>7. CASE /\ h.pc = "con_escribe"
             /\ IF t \in enlazados
                THEN \E x \in IF conectados[u] \in {Vacio, puerto} THEN {puerto}
                              ELSE {puerto, Mezcla} :
                       conectados' = [conectados EXCEPT ![u] = x]
                ELSE UNCHANGED conectados
             /\ enlazados' = enlazados \ {t}
             /\ Srv!Contesta(t, 0)
             /\ UNCHANGED <<carpetas, registrados, publicaciones, vivo, caido>>
    <3>1. puerto = h.dato
      BY <2>5, <2>7
    <3> HIDE DEF puerto
    <3>2. conectados = [conectados EXCEPT ![u] = conectados[u]]
      BY <1>4 DEF STypeOK, Srv!TypeOK
    <3>3. \E x \in {h.dato, Mezcla, conectados[u]} :
            /\ conectados' = [conectados EXCEPT ![u] = x]
            /\ t \in enlazados /\ conectados[u] = Vacio => x = h.dato
      BY <2>7, <3>1, <3>2
    <3>4. Avanza(t) /\ Dice(t, "con_escribe", 0)
      BY <1>8, <2>7 DEF Dice, Paso, h
    <3> QED
      BY <2>7, <3>3, <3>4 DEF Efecto, Escritura, h, u
  <2> QED
    BY <1>4, <1>13, <2>1, <2>2, <2>3, <2>4, <2>6, <2>7
       DEF Srv!Connect, Srv!En, h, u
<1>14. CASE Srv!Disconnect(t)
  <2>1. CASE /\ Srv!Mira(t, "dis_registro") /\ ~Srv!HayRegistro(u)
             /\ Srv!Contesta(t, 1)
    BY <1>8, <1>9, <1>10, <2>1 DEF Efecto, Mirada, Dice, Paso, h, u
  <2>2. CASE Srv!Mira(t, "dis_registro") /\ Srv!Sigue(t, "dis_conexion")
    BY <1>7, <1>9, <2>2 DEF Efecto, Mirada, Dice, Paso, h
  <2>3. CASE /\ Srv!Mira(t, "dis_conexion") /\ ~Srv!HayConexion(u)
             /\ Srv!Contesta(t, 2)
    BY <1>8, <1>9, <1>10, <2>3 DEF Efecto, Mirada, Dice, Paso, h, u
  <2>4. CASE Srv!Mira(t, "dis_conexion") /\ Srv!Sigue(t, "dis_borra")
    BY <1>7, <1>9, <2>4 DEF Efecto, Mirada, Dice, Paso, h
  <2>5. CASE /\ h.pc = "dis_borra"
             /\ conectados' = [v \in Usuarios |->
                                 IF v = u THEN Nada ELSE conectados[v]]
             /\ enlazados' = enlazados \ Srv!Conectando(u)
             /\ Srv!Contesta(t, 0)
             /\ UNCHANGED <<carpetas, registrados, publicaciones, vivo, caido>>
    BY <1>8, <2>5 DEF Efecto, Borrado, Dice, Paso, h, u
  <2> QED
    BY <1>4, <1>14, <2>1, <2>2, <2>3, <2>4, <2>5
       DEF Srv!Disconnect, Srv!En, h, u
<1> QED
  BY <1>1, <1>6, <1>11, <1>12, <1>13, <1>14

LEMMA MarcoLibre == Srv!PilaNueva \in Srv!Marcos /\ Srv!PilaNueva.pc = "libre"
BY DEF Srv!PilaNueva, Srv!Marcos, Srv!HiloPCs, Srv!Cuentas, Srv!Datos

\* The request that a client sends.
LEMMA OrdenaEs ==
  ASSUME EnlaceInv, NEW c \in Clientes, NEW op \in Ordenes, NEW n \in Nombres,
         Ordena(c, op, n)
  PROVE  /\ Envia(c, op, n) /\ Expulsa({})
         /\ UNCHANGED <<carpetas, registrados, conectados, publicaciones,
                        enlazados, vivo, caido, dudosos>>
         /\ \E t \in Hilos :
              LET h == hilo'[t] IN
              /\ vivo /\ hilo[t].pc = "libre" /\ turno'[c] = t
              /\ turno' \in [Clientes -> Hilos \cup {Nada}]
              /\ hilo' \in [Hilos -> Srv!Marcos]
              /\ h.pc = "rpc" /\ h.user = Leido[n]
              /\ h.op = IF op = "QUIT" THEN "DISCONNECT" ELSE op
              /\ op \notin {"REGISTER", "UNREGISTER"} =>
                   h.dato \in Puertos /\ h.dato = cliente'[c].socket
              /\ \A s \in Hilos \ {t} : hilo'[s] = hilo[s]
              /\ \A d \in Clientes \ {c} : turno'[d] = turno[d]
<1> DEFINE p == Peticion(c, op, n)
<1>1. PICK t \in Hilos : Srv!Recibe(t, p) /\ turno' = [turno EXCEPT ![c] = t]
  BY DEF Ordena
<1>2. Envia(c, op, n) /\ Expulsa({}) /\ UNCHANGED dudosos
  BY DEF Ordena
<1>3. op \notin {"REGISTER", "UNREGISTER"} => cliente'[c].socket \in Puertos
  <2>1. /\ Admite(c, op, n)
        /\ IF op = "CONNECT" THEN cliente'[c].socket \in Puertos
           ELSE cliente'[c].socket = cliente[c].socket
    BY <1>2, EnviaEs DEF EnlaceInv
  <2>2. op \in {"DISCONNECT", "QUIT"} => cliente[c].sesion # Nada
    BY <2>1, ClienteAssumption DEF Admite
  <2> QED
    BY <2>1, <2>2 DEF EnlaceInv, SocketDeSesion, Ordenes
<1>4. /\ p \in Peticiones /\ p.user = Leido[n] /\ p.llega = 3
      /\ p.op = IF op = "QUIT" THEN "DISCONNECT" ELSE op
      /\ op \notin {"REGISTER", "UNREGISTER"} =>
           p.dato \in Puertos /\ p.dato = cliente'[c].socket
  <2>1. p \in Peticiones
    BY <1>3, SistemaAssumption DEF Peticion, Peticiones, Ordenes
  <2> QED
    BY <1>3, <2>1 DEF Peticion
<1> HIDE DEF p
<1> DEFINE m == [pc |-> "rpc", ret |-> hilo[t].ret, op |-> p.op,
                 user |-> p.user, dato |-> p.dato, llega |-> p.llega]
<1>5. /\ vivo /\ hilo[t].pc = "libre" /\ hilo' = [hilo EXCEPT ![t] = m]
      /\ UNCHANGED <<carpetas, registrados, conectados, publicaciones,
                     enlazados, vivo, caido>>
  <2>1. 3 >= 1 /\ 3 >= 2
    OBVIOUS
  <2>2. /\ p.llega >= 1 /\ p.llega >= 2 /\ p.llega = 3
    BY <1>4, <2>1
  <2>3. PICK d \in {p.dato} : hilo' = [hilo EXCEPT ![t] =
          [pc |-> "rpc", ret |-> hilo[t].ret, op |-> p.op, user |-> p.user,
           dato |-> d, llega |-> p.llega]]
    BY <1>1, <2>2 DEF Srv!Recibe
  <2>4. hilo' = [hilo EXCEPT ![t] = m]
    BY <2>3
  <2> HIDE DEF m
  <2> QED
    BY <1>1, <2>4 DEF Srv!Recibe, Srv!En, Srv!disco
<1>6. /\ m \in Srv!Marcos /\ m.pc = "rpc" /\ m.op = p.op
      /\ m.user = p.user /\ m.dato = p.dato
  <2>1. hilo[t].ret \in 0..3
    BY DEF EnlaceInv, STypeOK, Srv!TypeOK, Srv!Marcos
  <2>2. /\ p.op \in Srv!Operaciones /\ p.user \in Srv!Cuentas
        /\ p.dato \in Srv!Datos /\ p.llega \in 0..3 /\ "rpc" \in Srv!HiloPCs
    BY <1>4 DEF Peticiones, Srv!Operaciones, Srv!Cuentas, Srv!Datos, Srv!HiloPCs
  <2> QED
    BY <2>1, <2>2 DEF Srv!Marcos
<1> HIDE DEF m
<1>7. /\ hilo' \in [Hilos -> Srv!Marcos] /\ hilo'[t] = m
      /\ \A s \in Hilos \ {t} : hilo'[s] = hilo[s]
  BY <1>5, <1>6, OtroMarco DEF EnlaceInv
<1>8. turno \in [Clientes -> Hilos \cup {Nada}]
  BY DEF EnlaceInv, STypeOK
<1>9. /\ turno' \in [Clientes -> Hilos \cup {Nada}] /\ turno'[c] = t
      /\ \A d \in Clientes \ {c} : turno'[d] = turno[d]
  BY <1>1, <1>8
<1> QED
  BY <1>2, <1>4, <1>5, <1>6, <1>7, <1>9

\* The answer is sent.
LEMMA ContestaEs ==
  ASSUME EnlaceInv, NEW t \in Hilos, Contesta(t)
  PROVE  /\ hilo[t].pc = "responde" /\ Expulsa({})
         /\ hilo' \in [Hilos -> Srv!Marcos] /\ hilo'[t].pc = "libre"
         /\ \A s \in Hilos \ {t} : hilo'[s] = hilo[s]
         /\ UNCHANGED <<carpetas, registrados, conectados, publicaciones,
                        enlazados, vivo, caido, dudosos>>
<1>1. /\ hilo[t].pc = "responde"
      /\ hilo' = [hilo EXCEPT ![t] = Srv!PilaNueva]
      /\ UNCHANGED <<carpetas, registrados, conectados, publicaciones,
                     enlazados, vivo, caido>>
  BY DEF Contesta, Srv!Responde, Srv!En, Srv!disco
<1> QED
  BY <1>1, MarcoLibre, OtroMarco DEF Contesta, EnlaceInv

\* The server falls: a record that was being written may hold anything then.
LEMMA ServidorCaeEs ==
  ASSUME EnlaceInv, ServidorCae
  PROVE  /\ PierdeServidor /\ Expulsa({})
         /\ turno' = [c \in Clientes |-> Nada]
         /\ turno' \in [Clientes -> Hilos \cup {Nada}]
         /\ Srv!TypeOK' /\ ~vivo'
         /\ \A t \in Hilos : hilo'[t].pc = "libre"
         /\ \A u \in Usuarios :
              /\ conectados[u] # Nada => conectados'[u] # Nada
              /\ \/ conectados'[u] = conectados[u]
                 \/ \E t \in Hilos : hilo[t].pc = "con_escribe" /\ hilo[t].user = u
         /\ enlazados' = {} /\ UNCHANGED <<carpetas, registrados>>
<1>1. /\ Srv!Muere /\ PierdeServidor /\ Expulsa({})
      /\ turno' = [c \in Clientes |-> Nada]
  BY DEF ServidorCae
<1>2. PICK F \in SUBSET enlazados, M \in SUBSET Usuarios :
        /\ \A u \in M :
             Srv!SeMezclan(conectados[u],
                           {hilo[t].dato : t \in F \cap Srv!Conectando(u)})
        /\ conectados' = [u \in Usuarios |->
             IF u \in M THEN Mezcla
             ELSE IF F \cap Srv!Conectando(u) = {} THEN conectados[u]
             ELSE hilo[CHOOSE t \in F \cap Srv!Conectando(u) : TRUE].dato]
        /\ publicaciones' = [r \in Srv!Rutas |->
             IF F \cap Srv!Publicando(r) = {} THEN publicaciones[r]
             ELSE hilo[CHOOSE t \in F \cap Srv!Publicando(r) : TRUE].user]
  BY <1>1 DEF Srv!Muere
<1>3. Srv!TypeOK
  BY DEF EnlaceInv, STypeOK
<1>4. ASSUME NEW u \in Usuarios
      PROVE  \/ conectados'[u] = conectados[u]
             \/ /\ conectados'[u] \in Puertos \cup {Mezcla}
                /\ \E t \in Hilos : hilo[t].pc = "con_escribe" /\ hilo[t].user = u
  <2>1. CASE F \cap Srv!Conectando(u) = {}
    <3>1. u \notin M
      BY <1>2, <2>1 DEF Srv!SeMezclan
    <3> QED
      BY <1>2, <2>1, <3>1
  <2>2. CASE F \cap Srv!Conectando(u) # {}
    <3> DEFINE t == CHOOSE s \in F \cap Srv!Conectando(u) : TRUE
    <3>1. t \in Srv!Conectando(u)
      BY <2>2
    <3> HIDE DEF t
    <3>2. t \in Hilos /\ hilo[t].pc = "con_escribe" /\ hilo[t].user = u
      BY <3>1 DEF Srv!Conectando
    <3>3. hilo[t].dato \in Puertos
      BY <3>2, FasePCs DEF EnlaceInv, HilosInv
    <3>4. conectados'[u] \in {Mezcla, hilo[t].dato}
      BY <1>2, <2>2 DEF t
    <3> QED
      BY <3>2, <3>3, <3>4
  <2> QED
    BY <2>1, <2>2
<1>5. \A r \in Srv!Rutas : Srv!Publicando(r) = {}
  BY FasePCs DEF EnlaceInv, HilosInv, Srv!Publicando
<1>6. publicaciones' = [r \in Srv!Rutas |-> publicaciones[r]]
  BY <1>2, <1>5
<1>7. /\ conectados' \in [Usuarios -> Puertos \cup {Blanco, Nada, Vacio, Mezcla}]
      /\ publicaciones' \in [Srv!Rutas -> Srv!Cuentas \cup {Nada, Vacio}]
  BY <1>2, <1>3, <1>4, <1>6 DEF Srv!TypeOK
<1>8. /\ ~vivo' /\ vivo' = FALSE /\ caido' = TRUE /\ enlazados' = {}
      /\ hilo' = [t \in Hilos |-> Srv!PilaNueva]
      /\ UNCHANGED <<carpetas, registrados>>
  BY <1>1 DEF Srv!Muere
<1>9. /\ hilo' \in [Hilos -> Srv!Marcos]
      /\ \A t \in Hilos : hilo'[t].pc = "libre"
  BY <1>8, MarcoLibre
<1>10. Srv!TypeOK'
  BY <1>3, <1>7, <1>8, <1>9 DEF Srv!TypeOK
<1>11. \A u \in Usuarios : conectados[u] # Nada => conectados'[u] # Nada
  BY <1>4, Distintos
<1> QED
  BY <1>1, <1>4, <1>8, <1>9, <1>10, <1>11

\* Who has lost the registration, and who ends in doubt.
LEMMA ExpulsaEs ==
  ASSUME NEW S \in SUBSET Clientes, Expulsa(S), expulsados \subseteq Clientes
  PROVE  /\ expulsados' \subseteq Clientes
         /\ \A c \in expulsados \cup S :
              cliente'[c].sesion # Nada \/ cliente'[c].op = "CONNECT" =>
                c \in expulsados'
BY DEF Expulsa

LEMMA DudaEs ==
  ASSUME ClienteInv, dudosos \subseteq Usuarios,
         NEW S \in SUBSET Clientes, Duda(S)
  PROVE  /\ dudosos \subseteq dudosos' /\ dudosos' \subseteq Usuarios
         /\ \A c \in S : cliente[c].sesion # Nada =>
              Leido[cliente[c].sesion] \in dudosos'
<1>1. \A c \in Clientes : cliente[c].sesion \in Nombres \cup {Nada}
  BY DEF ClienteInv, CTypeOK, Procesos
<1> QED
  BY <1>1, SistemaAssumption DEF Duda

-----------------------------------------------------------------------------
\* What the clients and the server know of each other's requests.

\* Who waits, and for what, is kept by a step after which each client waits for
\* the same request as before or does not wait.
LEMMA EsperasSiguen ==
  ASSUME EsperasInv,
         \A d \in Clientes :
           \/ /\ Igual(d) /\ turno'[d] = turno[d]
              /\ turno[d] # Nada =>
                   /\ hilo'[turno[d]].pc # "libre"
                   /\ hilo'[turno[d]].op = hilo[turno[d]].op
                   /\ hilo'[turno[d]].user = hilo[turno[d]].user
                   /\ hilo'[turno[d]].dato = hilo[turno[d]].dato
           \/ turno'[d] = Nada /\ cliente'[d].pc # "espera"
  PROVE  EsperasInv'
<1>1. ASSUME NEW d \in Clientes
      PROVE  /\ turno'[d] # Nada <=> En(d, "espera")'
             /\ En(d, "espera")' => Pedida(d)'
  <2>1. CASE turno'[d] = Nada /\ cliente'[d].pc # "espera"
    BY <2>1 DEF En
  <2>2. CASE /\ Igual(d) /\ turno'[d] = turno[d]
             /\ turno[d] # Nada =>
                  /\ hilo'[turno[d]].pc # "libre"
                  /\ hilo'[turno[d]].op = hilo[turno[d]].op
                  /\ hilo'[turno[d]].user = hilo[turno[d]].user
                  /\ hilo'[turno[d]].dato = hilo[turno[d]].dato
    <3>1. cliente'[d].pc = "espera" <=> cliente[d].pc = "espera"
      BY <2>2 DEF Igual
    <3>2. turno'[d] # Nada <=> En(d, "espera")'
      BY <2>2, <3>1 DEF EsperasInv, En
    <3>3. ASSUME En(d, "espera")' PROVE Pedida(d)'
      <4>1. Pedida(d) /\ turno[d] # Nada
        BY <3>1, <3>3 DEF EsperasInv, En
      <4> QED
        BY <2>2, <4>1 DEF Pedida, Igual
    <3> QED
      BY <3>2, <3>3
  <2> QED
    BY <2>1, <2>2
<1>2. \A c, d \in Clientes : turno'[c] = turno'[d] /\ turno'[c] # Nada => c = d
  BY DEF EsperasInv
<1> QED
  BY <1>1, <1>2 DEF EsperasInv

LEMMA IgualSocket ==
  ASSUME SocketDeSesion,
         \A d \in Clientes :
           \/ Igual(d)
           \/ cliente'[d].sesion # Nada => cliente'[d].socket \in Puertos
  PROVE  SocketDeSesion'
BY DEF SocketDeSesion, Igual

LEMMA ApagadoEs ==
  /\ Apagado.pc = "fuera" /\ Apagado.op = "" /\ Apagado.sesion = Nada
  /\ Apagado.socket = Nada
BY DEF Apagado

\* Whose request t is.
LEMMA SuPeticion ==
  ASSUME EnlaceInv, NEW c \in Clientes, NEW t \in Hilos, turno[c] = t
  PROVE  /\ En(c, "espera") /\ Pedida(c) /\ hilo[t].pc # "libre"
         /\ hilo[t].op = "CONNECT" => cliente[c].op = "CONNECT"
         /\ hilo[t].op = "DISCONNECT" => cliente[c].op \in {"DISCONNECT", "QUIT"}
<1>1. En(c, "espera") /\ Pedida(c)
  BY SistemaAssumption DEF EnlaceInv, EsperasInv
<1> QED
  BY <1>1 DEF Pedida, Ordenes

\* The rest is as it was when the server's state is.
LEMMA ServidorQuieto ==
  ASSUME EnlaceInv, UNCHANGED servidor,
         ClienteInv', turno' \in [Clientes -> Hilos \cup {Nada}],
         dudosos' \subseteq Usuarios, expulsados' \subseteq Clientes
  PROVE  STypeOK' /\ HilosInv'
<1>1. UNCHANGED <<carpetas, registrados, conectados, publicaciones, enlazados,
                  hilo, vivo, caido>>
  BY DEF servidor
<1>2. Srv!TypeOK'
  BY <1>1 DEF EnlaceInv, STypeOK, Srv!TypeOK
<1> QED
  BY <1>1, <1>2 DEF EnlaceInv, STypeOK, HilosInv, ClienteInv

LEMMA OrdenaEnlace ==
  ASSUME EnlaceInv, NEW c \in Clientes, NEW op \in Ordenes, NEW n \in Nombres,
         Ordena(c, op, n)
  PROVE  EnlaceInv'
<1> DEFINE k == cliente[c]
           m == cliente'[c]
<1>1. /\ ClienteInv' /\ Envia(c, op, n) /\ Expulsa({})
      /\ UNCHANGED <<carpetas, registrados, conectados, publicaciones,
                     enlazados, vivo, caido, dudosos>>
  BY OrdenaEs, EnviaKeeps DEF EnlaceInv
<1>2. /\ k.pc = "shell" /\ Admite(c, op, n)
      /\ m.pc = "espera" /\ m.op = op /\ m.nombre = n /\ m.sesion = k.sesion
      /\ IF op = "CONNECT" THEN m.socket \in Puertos ELSE m.socket = k.socket
      /\ \A d \in Clientes \ {c} : cliente'[d] = cliente[d]
  BY <1>1, EnviaEs DEF EnlaceInv
<1>3. PICK t \in Hilos :
        LET h == hilo'[t] IN
        /\ vivo /\ hilo[t].pc = "libre" /\ turno'[c] = t
        /\ turno' \in [Clientes -> Hilos \cup {Nada}]
        /\ hilo' \in [Hilos -> Srv!Marcos]
        /\ h.pc = "rpc" /\ h.user = Leido[n]
        /\ h.op = IF op = "QUIT" THEN "DISCONNECT" ELSE op
        /\ op \notin {"REGISTER", "UNREGISTER"} =>
             h.dato \in Puertos /\ h.dato = m.socket
        /\ \A s \in Hilos \ {t} : hilo'[s] = hilo[s]
        /\ \A d \in Clientes \ {c} : turno'[d] = turno[d]
  BY OrdenaEs
<1>4. op \in {"DISCONNECT", "QUIT"} => n = k.sesion /\ k.sesion # Nada
  BY <1>2, ClienteAssumption DEF Admite
<1>5. op = "CONNECT" => k.sesion = Nada
  BY <1>2 DEF Admite
<1>6. Leido[n] \in Usuarios
  BY SistemaAssumption
<1>7. STypeOK'
  <2>1. expulsados' \subseteq Clientes
    BY <1>1, ExpulsaEs DEF EnlaceInv, STypeOK
  <2>2. Srv!TypeOK'
    BY <1>1, <1>3 DEF EnlaceInv, STypeOK, Srv!TypeOK
  <2> QED
    BY <1>1, <1>3, <2>1, <2>2 DEF EnlaceInv, STypeOK, ClienteInv
<1>8. SocketDeSesion'
  <2>1. m.sesion # Nada => m.socket \in Puertos
    BY <1>2, <1>5 DEF EnlaceInv, SocketDeSesion
  <2>2. \A d \in Clientes \ {c} : cliente'[d].sesion # Nada =>
          cliente'[d].socket \in Puertos
    BY <1>2 DEF EnlaceInv, SocketDeSesion
  <2> QED
    BY <2>1, <2>2 DEF SocketDeSesion
<1>9. HilosInv'
  <2>1. /\ hilo'[t].op \in DOMAIN Fase
        /\ hilo'[t].op \in {"CONNECT", "DISCONNECT"} => hilo'[t].dato \in Puertos
    BY <1>3, FasePCs DEF Ordenes
  <2>2. \A s \in enlazados : s # t /\ s \in Hilos
    BY <1>3 DEF EnlaceInv, HilosInv, STypeOK, Srv!TypeOK
  <2> QED
    BY <1>1, <1>3, <1>6, <2>1, <2>2 DEF EnlaceInv, HilosInv
<1>10. EsperasInv'
  <2>1. Pedida(c)' /\ En(c, "espera")' /\ turno'[c] # Nada
    BY <1>2, <1>3, <1>4, SistemaAssumption DEF Pedida, En
  <2>2. ASSUME NEW d \in Clientes \ {c}
        PROVE  /\ turno'[d] # Nada <=> En(d, "espera")'
               /\ En(d, "espera")' => Pedida(d)'
               /\ turno'[d] # t
    <3>1. /\ turno[d] # Nada <=> En(d, "espera")
          /\ En(d, "espera") => Pedida(d)
      BY DEF EnlaceInv, EsperasInv
    <3>2. turno[d] # t
      BY <1>3, <3>1, SistemaAssumption DEF Pedida
    <3>3. cliente'[d] = cliente[d] /\ turno'[d] = turno[d]
      BY <1>2, <1>3
    <3>4. En(d, "espera") => hilo'[turno[d]] = hilo[turno[d]]
      BY <1>3, <3>1, <3>2 DEF Pedida
    <3> QED
      BY <3>1, <3>2, <3>3, <3>4 DEF En, Pedida
  <2>3. \A d, e \in Clientes : turno'[d] = turno'[e] /\ turno'[d] # Nada => d = e
    BY <1>3, <2>2 DEF EnlaceInv, EsperasInv
  <2> QED
    BY <2>1, <2>2, <2>3 DEF EsperasInv
<1> QED
  BY <1>1, <1>7, <1>8, <1>9, <1>10 DEF EnlaceInv

\* The thread's call keeps the server's types, and brings it to a place of its
\* operation.
LEMMA SirveHilos ==
  ASSUME EnlaceInv, NEW t \in Hilos, Sirve(t)
  PROVE  Srv!TypeOK' /\ HilosInv' /\ hilo'[t].pc # "libre"
<1> DEFINE h == hilo[t]
           g == hilo'[t]
           u == h.user
<1>1. /\ h.op \in DOMAIN Fase /\ u \in Usuarios
      /\ h.pc \in {"rpc"} \cup Fase[h.op]
      /\ Avanza(t) /\ Efecto(t)
      /\ UNCHANGED <<carpetas, publicaciones, vivo, caido>>
  BY SirveEs
<1>2. /\ g.op = h.op /\ g.user = u /\ g.dato = h.dato
      /\ \A s \in Hilos \ {t} : hilo'[s] = hilo[s]
      /\ hilo' \in [Hilos -> Srv!Marcos]
  BY <1>1 DEF Avanza
<1>3. /\ vivo /\ carpetas = Carpetas
      /\ h.op \in {"CONNECT", "DISCONNECT"} => h.dato \in Puertos
  BY <1>1, SirveEs DEF EnlaceInv, HilosInv
<1>4. /\ registrados \subseteq Usuarios /\ enlazados \subseteq Hilos
      /\ conectados \in [Usuarios -> Puertos \cup {Blanco, Nada, Vacio, Mezcla}]
  BY DEF EnlaceInv, STypeOK, Srv!TypeOK
<1>5. g.pc \in {"rpc", "responde"} \cup Fase[h.op] /\ g.pc # "libre"
  <2>1. CASE Mirada(t)
    BY <1>1, <2>1, FasePCs DEF Mirada, Dice, Paso
  <2>2. CASE ~Mirada(t)
    BY <1>1, <2>2, FasePCs
       DEF Efecto, Alta, Baja, Creacion, Escritura, Borrado, Dice, Paso
  <2> QED
    BY <2>1, <2>2
<1>6. \A s \in enlazados' : hilo'[s].pc = "con_escribe"
  <2>1. \A s \in enlazados : s \in Hilos /\ hilo[s].pc = "con_escribe"
    BY <1>4 DEF EnlaceInv, HilosInv
  <2>2. CASE Mirada(t) \/ Alta(t) \/ Baja(t)
    BY <1>2, <2>1, <2>2 DEF Mirada, Alta, Baja, Dice, Paso
  <2>3. CASE Creacion(t)
    BY <1>2, <2>1, <2>3 DEF Creacion, Paso
  <2>4. CASE Escritura(t) \/ Borrado(t)
    BY <1>2, <2>1, <2>4 DEF Escritura, Borrado, Dice, Paso
  <2> QED
    BY <1>1, <2>2, <2>3, <2>4 DEF Efecto
<1>7. /\ registrados' \subseteq Usuarios /\ enlazados' \subseteq Hilos
      /\ conectados' \in [Usuarios -> Puertos \cup {Blanco, Nada, Vacio, Mezcla}]
  <2>1. CASE Mirada(t) \/ Alta(t) \/ Baja(t)
    BY <1>1, <1>4, <2>1 DEF Mirada, Alta, Baja
  <2>2. CASE Creacion(t)
    BY <1>1, <1>4, <2>2 DEF Creacion
  <2>3. CASE Escritura(t)
    <3>1. h.op = "CONNECT"
      BY <1>1, <2>3, FasePCs DEF Escritura, Dice, Paso
    <3> QED
      BY <1>1, <1>3, <1>4, <2>3, <3>1 DEF Escritura
  <2>4. CASE Borrado(t)
    BY <1>1, <1>4, <2>4 DEF Borrado
  <2> QED
    BY <1>1, <2>1, <2>2, <2>3, <2>4 DEF Efecto
<1>8. Srv!TypeOK'
  BY <1>1, <1>2, <1>7 DEF EnlaceInv, STypeOK, Srv!TypeOK
<1>9. HilosInv'
  BY <1>1, <1>2, <1>3, <1>5, <1>6 DEF EnlaceInv, HilosInv
<1> QED
  BY <1>5, <1>8, <1>9

LEMMA InteresadosSon == \A S : UNION {Interesados(u) : u \in S} \subseteq Clientes
BY DEF Interesados

LEMMA SirveEnlace ==
  ASSUME EnlaceInv, NEW t \in Hilos, Sirve(t) PROVE EnlaceInv'
<1>1. UNCHANGED <<cvars, turno>> /\ Avanza(t)
  BY SirveEs
<1>2. ClienteInv' /\ \A d \in Clientes : Igual(d)
  BY <1>1, ClienteStep DEF EnlaceInv, cvars, Igual
<1>3. expulsados' \subseteq Clientes /\ dudosos' \subseteq Usuarios
  BY InteresadosSon, ExpulsaEs DEF Sirve, EnlaceInv, STypeOK
<1>4. STypeOK' /\ HilosInv'
  BY <1>1, <1>2, <1>3, SirveHilos DEF EnlaceInv, STypeOK, ClienteInv
<1>5. EsperasInv'
  <2>1. ASSUME NEW d \in Clientes, turno[d] # Nada
        PROVE  /\ hilo'[turno[d]].pc # "libre"
               /\ hilo'[turno[d]].op = hilo[turno[d]].op
               /\ hilo'[turno[d]].user = hilo[turno[d]].user
               /\ hilo'[turno[d]].dato = hilo[turno[d]].dato
    <3>1. turno[d] \in Hilos /\ hilo[turno[d]].pc # "libre"
      BY <2>1 DEF EnlaceInv, EsperasInv, Pedida
    <3> QED
      BY <1>1, <3>1, SirveHilos DEF Avanza
  <2> QED
    BY <1>1, <1>2, <2>1, EsperasSiguen DEF EnlaceInv
<1>6. SocketDeSesion'
  BY <1>2, IgualSocket DEF EnlaceInv
<1> QED
  BY <1>2, <1>4, <1>5, <1>6 DEF EnlaceInv

LEMMA ContestaEnlace ==
  ASSUME EnlaceInv, NEW t \in Hilos, Contesta(t) PROVE EnlaceInv'
<1>1. ASSUME ClienteInv', turno' \in [Clientes -> Hilos \cup {Nada}],
             \A d \in Clientes :
               \/ Igual(d) /\ turno'[d] = turno[d] /\ turno[d] # t
               \/ /\ turno'[d] = Nada /\ cliente'[d].pc # "espera"
                  /\ cliente'[d].sesion # Nada => cliente'[d].socket \in Puertos
      PROVE  EnlaceInv'
  <2>1. expulsados' \subseteq Clientes
    BY ContestaEs, ExpulsaEs DEF EnlaceInv, STypeOK
  <2>2. STypeOK'
    BY <1>1, <2>1, ContestaEs DEF EnlaceInv, STypeOK, Srv!TypeOK, ClienteInv
  <2>3. HilosInv'
    <3>1. \A s \in enlazados : s \in Hilos \ {t}
      BY ContestaEs DEF EnlaceInv, HilosInv, STypeOK, Srv!TypeOK
    <3> QED
      BY <3>1, ContestaEs DEF EnlaceInv, HilosInv
  <2>4. \A d \in Clientes : turno[d] # Nada /\ turno[d] # t =>
          hilo'[turno[d]] = hilo[turno[d]] /\ hilo[turno[d]].pc # "libre"
    BY <1>1, ContestaEs DEF EnlaceInv, EsperasInv, Pedida
  <2>5. EsperasInv'
    BY <1>1, <2>4, EsperasSiguen DEF EnlaceInv
  <2>6. SocketDeSesion'
    BY <1>1, IgualSocket DEF EnlaceInv
  <2> QED
    BY <1>1, <2>2, <2>3, <2>5, <2>6 DEF EnlaceInv
<1>2. turno \in [Clientes -> Hilos \cup {Nada}]
  BY DEF EnlaceInv, STypeOK
<1>3. ASSUME NEW c \in Clientes, turno[c] = t, Recibe(c, hilo[t].ret),
             turno' = [turno EXCEPT ![c] = Nada]
      PROVE  EnlaceInv'
  <2>1. ClienteInv'
    BY <1>3, RecibeKeeps DEF EnlaceInv
  <2>2. \A d \in Clientes \ {c} : cliente'[d] = cliente[d]
    BY <1>3, RecibeEs DEF EnlaceInv
  <2>3. turno' \in [Clientes -> Hilos \cup {Nada}] /\ turno'[c] = Nada
        /\ \A d \in Clientes \ {c} : turno'[d] = turno[d]
    BY <1>2, <1>3
  <2>4. \A d \in Clientes \ {c} : turno[d] # t
    BY <1>3, SistemaAssumption DEF EnlaceInv, EsperasInv
  <2>5. cliente'[c].pc # "espera"
    BY <1>3, RecibeEs DEF EnlaceInv
  <2>6. cliente'[c].sesion # Nada => cliente'[c].socket \in Puertos
    <3>1. cliente[c].op = "CONNECT" =>
            cliente[c].sesion = Nada /\ cliente[c].socket \in Puertos
      BY DEF EnlaceInv, ClienteInv, SesionInv, Conectandose
    <3>2. cliente[c].sesion # Nada => cliente[c].socket \in Puertos
      BY DEF EnlaceInv, SocketDeSesion
    <3> QED
      BY <1>3, <3>1, <3>2, RecibeEs DEF EnlaceInv, Conecta
  <2>7. \A d \in Clientes \ {c} : Igual(d)
    BY <2>2 DEF Igual
  <2> QED
    BY <1>1, <2>1, <2>3, <2>4, <2>5, <2>6, <2>7
<1>4. CASE (\A c \in Clientes : turno[c] # t) /\ UNCHANGED <<cvars, turno>>
  <2>1. ClienteInv' /\ \A d \in Clientes : Igual(d)
    BY <1>4, ClienteStep DEF EnlaceInv, cvars, Igual
  <2> QED
    BY <1>1, <1>2, <1>4, <2>1
<1> QED
  BY <1>3, <1>4 DEF Contesta

LEMMA ServidorCaeEnlace ==
  ASSUME EnlaceInv, ServidorCae PROVE EnlaceInv'
<1>1. ClienteInv' /\ PierdeServidor
  BY PierdeServidorKeeps DEF EnlaceInv, ServidorCae
<1>2. dudosos' \subseteq Usuarios
  <2> DEFINE D == {c \in Clientes : cliente[c].op \in {"DISCONNECT", "QUIT"}
                                    /\ En(c, "espera")}
  <2>1. Duda(D) /\ D \in SUBSET Clientes
    BY DEF ServidorCae
  <2> HIDE DEF D
  <2> QED
    BY <2>1, DudaEs DEF EnlaceInv, STypeOK
<1>3. expulsados' \subseteq Clientes
  BY ServidorCaeEs, ExpulsaEs DEF EnlaceInv, STypeOK
<1>4. STypeOK'
  BY <1>1, <1>2, <1>3, ServidorCaeEs DEF STypeOK, ClienteInv
<1>5. HilosInv'
  BY ServidorCaeEs DEF EnlaceInv, HilosInv
<1>6. \A d \in Clientes : turno'[d] = Nada /\ cliente'[d].pc # "espera"
  <2> TAKE d \in Clientes
  <2>1. cliente'[d].pc # "espera"
    BY <1>1, PierdeEs DEF EnlaceInv
  <2>2. turno'[d] = Nada
    BY ServidorCaeEs
  <2> QED
    BY <2>1, <2>2
<1>7. EsperasInv'
  BY <1>6, EsperasSiguen DEF EnlaceInv
<1>8. SocketDeSesion'
  <2> SUFFICES ASSUME NEW d \in Clientes, cliente'[d].sesion # Nada
               PROVE  cliente'[d].socket \in Puertos
    BY DEF SocketDeSesion
  <2>1. cliente[d].op = "CONNECT" => cliente[d].sesion = Nada
    BY DEF EnlaceInv, ClienteInv, SesionInv, Conectandose
  <2> QED
    BY <1>1, <2>1, PierdeEs DEF EnlaceInv, SocketDeSesion
<1> QED
  BY <1>1, <1>4, <1>5, <1>7, <1>8 DEF EnlaceInv

LEMMA ServidorArrancaEs ==
  ASSUME ServidorArranca
  PROVE  /\ vivo' = TRUE
         /\ UNCHANGED <<cvars, turno, dudosos, expulsados>>
         /\ UNCHANGED <<carpetas, registrados, conectados, publicaciones,
                        enlazados, hilo, caido>>
BY DEF ServidorArranca, Srv!Reinicia, Srv!disco, historia

LEMMA ServidorArrancaEnlace ==
  ASSUME EnlaceInv, ServidorArranca PROVE EnlaceInv'
<1>1. ClienteInv' /\ \A d \in Clientes : Igual(d)
  BY ServidorArrancaEs, ClienteStep DEF EnlaceInv, cvars, Igual
<1>2. STypeOK' /\ HilosInv'
  BY <1>1, ServidorArrancaEs
     DEF EnlaceInv, STypeOK, Srv!TypeOK, HilosInv, ClienteInv
<1>3. EsperasInv'
  <2>1. \A d \in Clientes : turno[d] # Nada => hilo[turno[d]].pc # "libre"
    BY DEF EnlaceInv, EsperasInv, Pedida
  <2> QED
    BY <1>1, <2>1, ServidorArrancaEs, EsperasSiguen DEF EnlaceInv
<1>4. SocketDeSesion'
  BY <1>1, IgualSocket DEF EnlaceInv
<1> QED
  BY <1>1, <1>2, <1>3, <1>4 DEF EnlaceInv

\* What a client does on its own, or a caller with its thread: sessions that do
\* not end stay.
LEMMA SinServidor ==
  ASSUME EnlaceInv, UNCHANGED servidor, ClienteInv',
         turno' \in [Clientes -> Hilos \cup {Nada}],
         dudosos' \subseteq Usuarios, expulsados' \subseteq Clientes,
         \A d \in Clientes :
           \/ Igual(d) /\ turno'[d] = turno[d]
           \/ /\ turno'[d] = Nada /\ cliente'[d].pc # "espera"
              /\ cliente'[d].sesion # Nada => cliente'[d].socket \in Puertos
  PROVE  EnlaceInv'
<1>1. STypeOK' /\ HilosInv'
  BY ServidorQuieto
<1>2. \A d \in Clientes : turno[d] # Nada =>
        hilo' = hilo /\ hilo[turno[d]].pc # "libre"
  BY DEF EnlaceInv, EsperasInv, Pedida, servidor
<1>3. EsperasInv'
  BY <1>2, EsperasSiguen DEF EnlaceInv
<1>4. SocketDeSesion'
  BY IgualSocket DEF EnlaceInv
<1> QED
  BY <1>1, <1>3, <1>4 DEF EnlaceInv

\* The session ends, or an exception keeps it.
LEMMA SoloEs ==
  ASSUME EnlaceInv, NEW c \in Clientes, Solo(c)
  PROVE  /\ Sesion(c) /\ UNCHANGED <<servidor, turno>> /\ Expulsa({})
         /\ dudosos \subseteq dudosos' /\ dudosos' \subseteq Usuarios
         /\ En(c, "cierra") /\ cliente'[c].pc = "shell"
              /\ cliente'[c].sesion # Nada /\ cliente[c].sesion # Nada
            => Leido[cliente[c].sesion] \in dudosos'
<1> DEFINE D == {d \in {c} : En(c, "cierra") /\ cliente'[c].pc = "shell"
                             /\ cliente'[c].sesion # Nada}
<1>1. Duda(D) /\ D \in SUBSET Clientes
  BY DEF Solo
<1>2. En(c, "cierra") /\ cliente'[c].pc = "shell" /\ cliente'[c].sesion # Nada
        => c \in D
  OBVIOUS
<1> HIDE DEF D
<1> QED
  BY <1>1, <1>2, DudaEs DEF Solo, EnlaceInv, STypeOK

LEMMA SoloEnlace ==
  ASSUME EnlaceInv, NEW c \in Clientes, Solo(c) PROVE EnlaceInv'
<1>1. /\ ClienteInv' /\ UNCHANGED <<servidor, turno>>
      /\ turno' \in [Clientes -> Hilos \cup {Nada}]
      /\ dudosos' \subseteq Usuarios /\ expulsados' \subseteq Clientes
  BY SoloEs, SesionKeeps, ExpulsaEs DEF EnlaceInv, STypeOK
<1>2. CASE \A d \in Clientes : Igual(d)
  BY <1>1, <1>2, SinServidor
<1>3. CASE Cierra(c)
  <2>1. \A d \in Clientes \ {c} : Igual(d)
    BY <1>3, CierraEs DEF EnlaceInv, Igual
  <2>2. cliente'[c].pc # "espera" /\ cliente[c].pc # "espera"
    BY <1>3, CierraEs DEF EnlaceInv
  <2>3. turno'[c] = Nada
    BY <1>1, <2>2 DEF EnlaceInv, EsperasInv, En
  <2>4. cliente'[c].sesion # Nada => cliente'[c].socket \in Puertos
    BY <1>3, CierraEs DEF EnlaceInv, SocketDeSesion
  <2> QED
    BY <1>1, <2>1, <2>2, <2>3, <2>4, SinServidor
<1> QED
  BY <1>2, <1>3, SoloEs, SesionIgual DEF EnlaceInv

LEMMA VisitaEs ==
  ASSUME EnlaceInv, NEW c \in Clientes, Visita(c)
  PROVE  UNCHANGED <<cliente, servidor, turno, dudosos, expulsados>>
BY DEF Visita, historia

LEMMA VisitaEnlace ==
  ASSUME EnlaceInv, NEW c \in Clientes, Visita(c) PROVE EnlaceInv'
<1>1. ClienteInv' /\ \A d \in Clientes : Igual(d) /\ turno'[d] = turno[d]
  BY VisitaKeeps, VisitaEs DEF EnlaceInv, Igual
<1> QED
  BY <1>1, VisitaEs, SinServidor DEF EnlaceInv, STypeOK

\* A client's process ends.
LEMMA FinEs ==
  ASSUME EnlaceInv, NEW c \in Clientes, Acaba(c) \/ ClienteCae(c)
  PROVE  /\ Desaparece(c) /\ UNCHANGED <<servidor, dudosos>> /\ Expulsa({})
         /\ turno' \in [Clientes -> Hilos \cup {Nada}] /\ turno'[c] = Nada
         /\ \A d \in Clientes \ {c} : turno'[d] = turno[d]
<1>1. turno \in [Clientes -> Hilos \cup {Nada}]
  BY DEF EnlaceInv, STypeOK
<1>2. CASE Acaba(c)
  <2>1. turno[c] = Nada
    BY <1>2 DEF Acaba, Termina, EnlaceInv, EsperasInv, En
  <2> QED
    BY <1>1, <1>2, <2>1 DEF Acaba, Termina
<1>3. CASE ClienteCae(c)
  BY <1>1, <1>3 DEF ClienteCae, Muere
<1> QED
  BY <1>2, <1>3

LEMMA FinEnlace ==
  ASSUME EnlaceInv, NEW c \in Clientes, Acaba(c) \/ ClienteCae(c)
  PROVE  EnlaceInv'
<1>1. ClienteInv' /\ cliente'[c] = Apagado /\ \A d \in Clientes \ {c} : Igual(d)
  BY FinEs, DesapareceKeeps, DesapareceEs DEF EnlaceInv
<1>2. expulsados' \subseteq Clientes
  BY FinEs, ExpulsaEs DEF EnlaceInv, STypeOK
<1> QED
  BY <1>1, <1>2, ApagadoEs, FinEs, SinServidor DEF EnlaceInv, STypeOK

-----------------------------------------------------------------------------
\* Whoever the record of v belongs to keeps it in a step that leaves it alone
\* and makes nobody else its owner.
LEMMA DuenoSigue ==
  ASSUME NEW v, Dueno(v), conectados'[v] = conectados[v],
         \A c \in Clientes : DeSesion(c, v)' =>
           /\ DeSesion(c, v) /\ cliente'[c].socket = cliente[c].socket
           /\ \A t \in Hilos : turno[c] = t /\ DePeticion(t, v)' => turno'[c] = t,
         \A t \in Hilos : DePeticion(t, v)' =>
           /\ DePeticion(t, v) /\ Contenido(hilo'[t]) = Contenido(hilo[t])
           /\ hilo'[t].pc = "con_escribe" =>
                /\ hilo[t].pc = "con_escribe"
                /\ t \in enlazados => t \in enlazados'
  PROVE  Dueno(v)'
<1>1. \A c \in Clientes : DeSesion(c, v)' => conectados'[v] = cliente'[c].socket
  BY DEF Dueno
<1>2. \A t \in Hilos : DePeticion(t, v)' =>
        /\ conectados'[v] = Contenido(hilo'[t])
        /\ hilo'[t].pc = "con_escribe" => t \in enlazados'
  BY DEF Dueno
<1>3. \A t, s \in Hilos : DePeticion(t, v)' /\ DePeticion(s, v)' => t = s
  BY DEF Dueno
<1>4. \A c \in Clientes, t \in Hilos :
        DeSesion(c, v)' /\ DePeticion(t, v)' => turno'[c] = t
  BY DEF Dueno
<1> QED
  BY <1>1, <1>2, <1>3, <1>4 DEF Dueno, Contenido

LEMMA IgualSesion ==
  ASSUME NEW v, NEW d \in Clientes, Igual(d),
         En(d, "espera") =>
           turno'[d] = turno[d] /\ hilo'[turno[d]] = hilo[turno[d]]
  PROVE  DeSesion(d, v)' <=> DeSesion(d, v)
<1>1. En(d, "espera")' <=> En(d, "espera")
  BY DEF Igual, En
<1>2. En(d, "cierra")' <=> En(d, "cierra")
  BY DEF Igual, En
<1>3. SeDesconecta(d)' <=> SeDesconecta(d)
  BY <1>1, <1>2 DEF Igual, SeDesconecta
<1> QED
  BY <1>3 DEF Igual, DeSesion

LEMMA UnaSesion ==
  ASSUME EnlaceInv, NEW v, Dueno(v), NEW c \in Clientes, NEW d \in Clientes,
         DeSesion(c, v), DeSesion(d, v)
  PROVE  c = d
<1>1. cliente[c].socket = cliente[d].socket /\ cliente[c].socket \in Puertos
  BY DEF Dueno, DeSesion, EnlaceInv, SocketDeSesion
<1> QED
  BY <1>1, ClienteAssumption DEF EnlaceInv, ClienteInv, SesionInv, SocketPropio

\* While a CONNECT makes the record, or waits for its answer, there is no
\* session.
LEMMA SinSesion ==
  ASSUME EnlaceInv, NEW v, Dueno(v), NEW t \in Hilos, DePeticion(t, v),
         hilo[t].op = "CONNECT", NEW c \in Clientes
  PROVE  ~DeSesion(c, v)
<1> SUFFICES ASSUME DeSesion(c, v) PROVE FALSE
  OBVIOUS
<1>1. turno[c] = t
  BY DEF Dueno
<1>2. cliente[c].op = "CONNECT"
  BY <1>1, SuPeticion
<1> QED
  BY <1>2 DEF DeSesion, EnlaceInv, ClienteInv, SesionInv, Conectandose

LEMMA OrdenaDuenos ==
  ASSUME SistemaInv, NEW c \in Clientes, NEW op \in Ordenes, NEW n \in Nombres,
         Ordena(c, op, n)
  PROVE  DuenosInv'
<1> DEFINE k == cliente[c]
           m == cliente'[c]
<1>1. /\ k.pc = "shell" /\ Admite(c, op, n)
      /\ m.pc = "espera" /\ m.op = op /\ m.nombre = n /\ m.sesion = k.sesion
      /\ IF op = "CONNECT" THEN m.socket \in Puertos ELSE m.socket = k.socket
      /\ \A d \in Clientes \ {c} : cliente'[d] = cliente[d]
  BY OrdenaEs, EnviaEs DEF SistemaInv, EnlaceInv
<1>2. PICK t \in Hilos :
        LET h == hilo'[t] IN
        /\ vivo /\ hilo[t].pc = "libre" /\ turno'[c] = t
        /\ turno' \in [Clientes -> Hilos \cup {Nada}]
        /\ hilo' \in [Hilos -> Srv!Marcos]
        /\ h.pc = "rpc" /\ h.user = Leido[n]
        /\ h.op = IF op = "QUIT" THEN "DISCONNECT" ELSE op
        /\ op \notin {"REGISTER", "UNREGISTER"} =>
             h.dato \in Puertos /\ h.dato = m.socket
        /\ \A s \in Hilos \ {t} : hilo'[s] = hilo[s]
        /\ \A d \in Clientes \ {c} : turno'[d] = turno[d]
  BY OrdenaEs DEF SistemaInv
<1>3. UNCHANGED <<conectados, enlazados, dudosos>>
  BY OrdenaEs DEF SistemaInv
<1>4. op \in {"DISCONNECT", "QUIT"} => n = k.sesion /\ k.sesion # Nada
  BY <1>1, ClienteAssumption DEF Admite
<1>5. op = "CONNECT" => k.sesion = Nada
  BY <1>1 DEF Admite
<1>6. turno[c] = Nada /\ turno[c] \notin Hilos
  BY <1>1, SistemaAssumption DEF SistemaInv, EnlaceInv, EsperasInv, En
<1>7. ASSUME NEW v, NEW d \in Clientes, DeSesion(d, v)'
      PROVE  DeSesion(d, v) /\ cliente'[d].socket = cliente[d].socket
  <2>1. CASE d = c
    BY <1>1, <1>5, <1>7, <2>1 DEF DeSesion, SeDesconecta, En
  <2>2. CASE d # c
    <3>1. cliente'[d] = cliente[d] /\ turno'[d] = turno[d]
      BY <1>1, <1>2, <2>2
    <3>2. En(d, "espera") => turno[d] \in Hilos /\ hilo[turno[d]].pc # "libre"
      BY DEF SistemaInv, EnlaceInv, EsperasInv, Pedida
    <3>3. En(d, "espera") => hilo'[turno[d]] = hilo[turno[d]]
      BY <1>2, <3>2
    <3> QED
      BY <1>7, <3>1, <3>3, IgualSesion DEF Igual
  <2> QED
    BY <2>1, <2>2
<1>8. ASSUME NEW v, NEW s \in Hilos, s # t
      PROVE  hilo'[s] = hilo[s] /\ (DePeticion(s, v)' <=> DePeticion(s, v))
  BY <1>2, <1>8 DEF DePeticion
<1>9. SUFFICES ASSUME NEW v \in Usuarios \ dudosos PROVE Dueno(v)'
  BY <1>3 DEF DuenosInv
<1>10. Dueno(v) /\ conectados'[v] = conectados[v]
  BY <1>3 DEF SistemaInv, DuenosInv
<1>11. CASE ~DePeticion(t, v)'
  <2>1. \A s \in Hilos : DePeticion(s, v)' =>
          DePeticion(s, v) /\ hilo'[s] = hilo[s] /\ s # t
    BY <1>8, <1>11
  <2>2. \A d \in Clientes : DeSesion(d, v)' =>
          \A s \in Hilos : turno[d] = s /\ DePeticion(s, v)' => turno'[d] = s
    BY <1>2, <1>6
  <2> QED
    BY <1>3, <1>7, <1>10, <2>1, <2>2, DuenoSigue
<1>12. CASE DePeticion(t, v)'
  <2>1. op \in {"DISCONNECT", "QUIT"} /\ v = Leido[n] /\ hilo'[t].dato = k.socket
    BY <1>1, <1>2, <1>12, FasePCs DEF DePeticion, Ordenes
  <2>2. DeSesion(c, v)
    BY <1>1, <1>4, <2>1 DEF DeSesion, SeDesconecta, En
  <2>3. \A d \in Clientes : DeSesion(d, v)' => d = c
    BY <1>7, <1>10, <2>2, UnaSesion DEF SistemaInv
  <2>4. \A s \in Hilos : DePeticion(s, v)' => s = t
    BY <1>6, <1>8, <1>10, <2>2 DEF Dueno
  <2>5. conectados'[v] = k.socket /\ m.socket = k.socket
    BY <1>1, <1>10, <2>1, <2>2 DEF Dueno
  <2>6. Contenido(hilo'[t]) = k.socket /\ hilo'[t].pc # "con_escribe"
    BY <1>2, <2>1 DEF Contenido
  <2>7. \A d \in Clientes : DeSesion(d, v)' => conectados'[v] = cliente'[d].socket
    BY <2>3, <2>5
  <2> QED
    BY <1>2, <2>3, <2>4, <2>5, <2>6, <2>7 DEF Dueno, Contenido
<1> QED
  BY <1>11, <1>12

\* The server makes a call: a CONNECT that finds no record finds no owner, and
\* a DISCONNECT ends the session that asked, if it is still there.
LEMMA SirveDuenos ==
  ASSUME SistemaInv, NEW t \in Hilos, Sirve(t) PROVE DuenosInv'
<1> DEFINE h == hilo[t]
           g == hilo'[t]
           u == h.user
<1>1. /\ h.op \in DOMAIN Fase /\ u \in Usuarios
      /\ h.pc \in {"rpc"} \cup Fase[h.op] /\ h.pc # "responde"
      /\ Avanza(t) /\ Efecto(t) /\ UNCHANGED <<cvars, turno>>
  BY SirveEs, FasePCs DEF SistemaInv
<1>2. /\ g.op = h.op /\ g.user = u /\ g.dato = h.dato
      /\ \A s \in Hilos \ {t} : hilo'[s] = hilo[s]
      /\ UNCHANGED <<cliente, turno>>
  BY <1>1 DEF Avanza, cvars
<1>3. h.op \in {"CONNECT", "DISCONNECT"} => h.dato \in Puertos
  BY <1>1, SirveEs DEF SistemaInv, EnlaceInv, HilosInv
<1>4. ASSUME NEW v, NEW c \in Clientes, DeSesion(c, v)' PROVE DeSesion(c, v)
  <2> SUFFICES ASSUME SeDesconecta(c) PROVE SeDesconecta(c)'
    BY <1>2, <1>4 DEF DeSesion
  <2>1. CASE En(c, "cierra")
    BY <1>2, <2>1 DEF SeDesconecta, En
  <2>2. CASE /\ En(c, "espera") /\ cliente[c].op \in {"DISCONNECT", "QUIT"}
             /\ hilo[turno[c]].pc = "responde" /\ hilo[turno[c]].ret = 0
    <3>1. turno[c] \in Hilos /\ turno[c] # t
      BY <1>1, <2>2 DEF SistemaInv, EnlaceInv, EsperasInv, Pedida
    <3>2. hilo'[turno'[c]] = hilo[turno[c]]
      BY <1>2, <3>1
    <3> QED
      BY <1>2, <2>2, <3>2 DEF SeDesconecta, En
  <2> QED
    BY <2>1, <2>2 DEF SeDesconecta
<1>5. ASSUME NEW v, NEW s \in Hilos, s # t
      PROVE  hilo'[s] = hilo[s] /\ (DePeticion(s, v)' <=> DePeticion(s, v))
  BY <1>2, <1>5 DEF DePeticion
<1>6. SUFFICES ASSUME NEW v \in Usuarios \ dudosos' PROVE Dueno(v)'
  BY DEF DuenosInv
<1>7. v \notin dudosos /\ ~Carrera(v)' /\ Dueno(v)
  BY DEF Sirve, SistemaInv, DuenosInv
<1>8. \A c \in Clientes : DeSesion(c, v)' =>
        /\ DeSesion(c, v) /\ cliente'[c].socket = cliente[c].socket
        /\ \A s \in Hilos : turno[c] = s => turno'[c] = s
  BY <1>2, <1>4
\* The step leaves v's record alone, and t is its owner, if at all, as before.
<1>9. ASSUME conectados'[v] = conectados[v],
             DePeticion(t, v)' =>
               /\ DePeticion(t, v) /\ Contenido(g) = Contenido(h)
               /\ g.pc # "con_escribe",
             \A s \in enlazados : hilo[s].user = v => s = t \/ s \in enlazados'
      PROVE  Dueno(v)'
  <2>1. ASSUME NEW s \in Hilos, DePeticion(s, v)'
        PROVE  /\ DePeticion(s, v) /\ Contenido(hilo'[s]) = Contenido(hilo[s])
               /\ hilo'[s].pc = "con_escribe" =>
                    /\ hilo[s].pc = "con_escribe"
                    /\ s \in enlazados => s \in enlazados'
    <3>1. CASE s = t
      BY <1>9, <2>1, <3>1
    <3>2. CASE s # t
      BY <1>5, <1>9, <2>1, <3>2 DEF DePeticion
    <3> QED
      BY <3>1, <3>2
  <2> QED
    BY <1>7, <1>8, <1>9, <2>1, DuenoSigue
<1>10. CASE v # u
  <2>1. conectados'[v] = conectados[v] /\ \A s \in enlazados :
          hilo[s].user = v => s = t \/ s \in enlazados'
    <3>1. conectados \in [Usuarios -> Puertos \cup {Blanco, Nada, Vacio, Mezcla}]
      BY DEF SistemaInv, EnlaceInv, STypeOK, Srv!TypeOK
    <3>2. CASE Mirada(t) \/ Alta(t) \/ Baja(t) \/ Creacion(t)
      BY <1>10, <3>1, <3>2 DEF Mirada, Alta, Baja, Creacion
    <3>3. CASE Escritura(t) \/ Borrado(t)
      BY <1>10, <3>1, <3>3 DEF Escritura, Borrado, Srv!Conectando
    <3> QED
      BY <1>1, <3>2, <3>3 DEF Efecto
  <2>2. ~DePeticion(t, v)'
    BY <1>2, <1>10 DEF DePeticion
  <2> QED
    BY <1>9, <2>1, <2>2
<1>11. CASE v = u /\ Mirada(t) /\ g.pc # "con_crea"
  <2>1. UNCHANGED <<conectados, enlazados>>
    BY <1>11 DEF Mirada
  <2>2. g.pc \notin {"con_crea", "con_escribe"}
    BY <1>1, <1>11, FasePCs DEF Mirada, Dice, Paso
  <2>3. ~(g.pc = "responde" /\ g.ret = 0)
    BY <1>1, <1>11, FasePCs DEF Mirada, Dice, Paso
  <2>4. ASSUME g.pc \in Fase.DISCONNECT \/ (g.pc = "rpc" /\ g.op = "DISCONNECT")
        PROVE  DePeticion(t, v) /\ Contenido(g) = Contenido(h)
    <3>1. h.op = "DISCONNECT" /\ h.pc \in {"rpc"} \cup Fase.DISCONNECT
      BY <1>1, <1>11, <2>4, FasePCs DEF Mirada, Dice, Paso
    <3> QED
      BY <1>2, <1>11, <2>2, <3>1, FasePCs DEF DePeticion, Contenido
  <2> QED
    BY <1>9, <2>1, <2>2, <2>3, <2>4 DEF DePeticion
<1>12. CASE v = u /\ Mirada(t) /\ g.pc = "con_crea"
  <2>1. UNCHANGED <<conectados, enlazados>> /\ conectados[v] = Nada
    BY <1>1, <1>12, FasePCs DEF Mirada, Dice, Paso
  <2>2. \A c \in Clientes : ~DeSesion(c, v)'
    BY <1>7, <1>8, <2>1, ClienteAssumption
       DEF Dueno, DeSesion, SistemaInv, EnlaceInv, SocketDeSesion
  <2>3. ASSUME NEW s \in Hilos, DePeticion(s, v)', s # t PROVE FALSE
    <3>1. DePeticion(s, v) /\ Contenido(hilo[s]) = Nada /\ hilo'[s] = hilo[s]
      BY <1>5, <1>7, <2>1, <2>3 DEF Dueno
    <3>2. hilo[s].pc = "con_crea"
      <4>1. /\ hilo[s].pc \in {"rpc", "responde"} \cup Fase[hilo[s].op]
            /\ hilo[s].op \in DOMAIN Fase
            /\ hilo[s].op \in {"CONNECT", "DISCONNECT"} => hilo[s].dato \in Puertos
        BY <3>1, FasePCs DEF SistemaInv, EnlaceInv, HilosInv, DePeticion
      <4>2. hilo[s].op \in {"CONNECT", "DISCONNECT"}
        BY <3>1, <4>1, FasePCs DEF DePeticion
      <4> QED
        BY <3>1, <4>1, <4>2, Distintos, ClienteAssumption DEF Contenido
    <3>3. {s, t} \subseteq Creando(v)'
      BY <1>2, <1>12, <3>1, <3>2 DEF Creando, DePeticion
    <3> QED
      BY <1>7, <2>3, <3>3 DEF Carrera
  <2>4. Contenido(g) = Nada
    BY <1>12 DEF Contenido
  <2>5. \A s \in Hilos : DePeticion(s, v)' =>
          /\ conectados'[v] = Contenido(hilo'[s])
          /\ hilo'[s].pc = "con_escribe" => s \in enlazados'
    BY <1>12, <2>1, <2>3, <2>4
  <2> QED
    BY <2>2, <2>3, <2>5 DEF Dueno, Contenido
<1>13. CASE v = u /\ (Alta(t) \/ Baja(t))
  <2>1. UNCHANGED <<conectados, enlazados>>
    BY <1>13 DEF Alta, Baja
  <2>2. ~DePeticion(t, v)'
    BY <1>1, <1>2, <1>13, FasePCs DEF DePeticion, Alta, Baja, Dice, Paso
  <2> QED
    BY <1>9, <2>1, <2>2
\* t's CONNECT goes on to make the record, or to answer.
<1>14. CASE v = u /\ (Creacion(t) \/ Escritura(t))
  <2>1. h.op = "CONNECT" /\ DePeticion(t, v)
        /\ (Escritura(t) => t \in enlazados /\ conectados[v] = Vacio)
    <3>1. h.pc \in {"con_crea", "con_escribe"} /\ (Escritura(t) => h.pc = "con_escribe")
      BY <1>14 DEF Creacion, Escritura, Dice, Paso
    <3>2. h.op = "CONNECT" /\ DePeticion(t, v)
      BY <1>1, <1>14, <3>1, FasePCs DEF DePeticion
    <3> QED
      BY <1>7, <3>1, <3>2 DEF Dueno, Contenido
  <2>2. \A c \in Clientes : ~DeSesion(c, v)'
    BY <1>7, <1>8, <2>1, SinSesion DEF SistemaInv
  <2>3. \A s \in Hilos : DePeticion(s, v)' => s = t
    BY <1>5, <1>7, <2>1 DEF Dueno
  <2>4. conectados \in [Usuarios -> Puertos \cup {Blanco, Nada, Vacio, Mezcla}]
    BY DEF SistemaInv, EnlaceInv, STypeOK, Srv!TypeOK
  <2>5. /\ conectados'[v] = Contenido(g)
        /\ g.pc = "con_escribe" => t \in enlazados'
    <3>1. CASE Creacion(t)
      BY <1>14, <2>4, <3>1 DEF Creacion, Paso, Contenido
    <3>2. CASE Escritura(t)
      <4>1. conectados'[v] = h.dato /\ g.pc = "responde"
        BY <1>14, <2>1, <2>4, <3>2 DEF Escritura, Dice, Paso
      <4> QED
        BY <1>2, <4>1 DEF Contenido
    <3> QED
      BY <1>14, <3>1, <3>2
  <2> QED
    BY <2>2, <2>3, <2>5 DEF Dueno, Contenido
<1>15. CASE v = u /\ Borrado(t)
  <2>1. h.op = "DISCONNECT" /\ DePeticion(t, v)
    BY <1>1, <1>15, FasePCs DEF DePeticion, Borrado, Dice, Paso
  <2>2. ~DePeticion(t, v)'
    BY <1>2, <1>15, <2>1, FasePCs DEF DePeticion, Borrado, Dice, Paso
  <2>3. \A s \in Hilos : ~DePeticion(s, v)'
    BY <1>5, <1>7, <2>1, <2>2 DEF Dueno
  <2>4. ASSUME NEW c \in Clientes, DeSesion(c, v)' PROVE FALSE
    <3>1. turno[c] = t
      BY <1>7, <1>8, <2>1, <2>4 DEF Dueno
    <3>2. En(c, "espera") /\ cliente[c].op \in {"DISCONNECT", "QUIT"}
      BY <2>1, <3>1, SuPeticion DEF SistemaInv
    <3>3. SeDesconecta(c)'
      BY <1>2, <1>15, <3>1, <3>2 DEF SeDesconecta, En, Borrado, Dice, Paso
    <3> QED
      BY <2>4, <3>3 DEF DeSesion
  <2> QED
    BY <2>3, <2>4 DEF Dueno
<1> QED
  BY <1>1, <1>10, <1>11, <1>12, <1>13, <1>14, <1>15 DEF Efecto

\* An answer reaches its client, or nobody: a CONNECT that has made the record
\* hands it over to the session.
LEMMA ContestaDuenos ==
  ASSUME SistemaInv, NEW t \in Hilos, Contesta(t) PROVE DuenosInv'
<1>1. /\ hilo[t].pc = "responde" /\ hilo'[t].pc = "libre"
      /\ \A s \in Hilos \ {t} : hilo'[s] = hilo[s]
      /\ UNCHANGED <<conectados, enlazados, dudosos>>
  BY ContestaEs DEF SistemaInv
<1>2. SUFFICES ASSUME NEW v \in Usuarios \ dudosos PROVE Dueno(v)'
  BY <1>1 DEF DuenosInv
<1>3. Dueno(v) /\ conectados'[v] = conectados[v]
  BY <1>1 DEF SistemaInv, DuenosInv
<1>4. \A s \in Hilos : DePeticion(s, v)' =>
        DePeticion(s, v) /\ hilo'[s] = hilo[s] /\ s # t
  BY <1>1, FasePCs DEF DePeticion
<1>5. ASSUME NEW d \in Clientes, Igual(d), turno'[d] = turno[d], turno[d] # t
      PROVE  DeSesion(d, v)' <=> DeSesion(d, v)
  <2>1. En(d, "espera") => hilo'[turno[d]] = hilo[turno[d]]
    BY <1>1, <1>5 DEF SistemaInv, EnlaceInv, EsperasInv, Pedida
  <2> QED
    BY <1>5, <2>1, IgualSesion
<1>6. ASSUME NEW c \in Clientes, turno[c] = t, Recibe(c, hilo[t].ret),
             turno' = [turno EXCEPT ![c] = Nada]
      PROVE  Dueno(v)'
  <2> DEFINE k == cliente[c]
             m == cliente'[c]
             ret == hilo[t].ret
  <2>1. /\ k.pc = "espera"
        /\ m.pc = IF Desconecta(k, ret) THEN "cierra"
                  ELSE IF k.op = "QUIT" THEN "saliendo" ELSE "shell"
        /\ m.sesion = IF Conecta(k, ret) THEN k.nombre ELSE k.sesion
        /\ m.socket = IF k.op = "CONNECT" /\ ~Conecta(k, ret) THEN Nada
                      ELSE k.socket
        /\ \A d \in Clientes \ {c} : cliente'[d] = cliente[d]
    BY <1>6, RecibeEs DEF SistemaInv, EnlaceInv
  <2>2. ASSUME NEW d \in Clientes, d # c
        PROVE  /\ DeSesion(d, v)' <=> DeSesion(d, v)
               /\ cliente'[d] = cliente[d] /\ turno'[d] = turno[d]
    <3>1. cliente'[d] = cliente[d] /\ turno'[d] = turno[d]
      BY <1>6, <2>1, <2>2 DEF SistemaInv, EnlaceInv, STypeOK
    <3>2. turno[d] # t
      BY <1>6, <2>2, SistemaAssumption DEF SistemaInv, EnlaceInv, EsperasInv
    <3> QED
      BY <1>5, <3>1, <3>2 DEF Igual
  <2>3. Pedida(c)
    BY <1>6, SuPeticion DEF SistemaInv
  <2>4. k.op = "CONNECT" => k.sesion = Nada
    BY DEF SistemaInv, EnlaceInv, ClienteInv, SesionInv, Conectandose
  <2>5. CASE k.op = "CONNECT" /\ ret = 0 /\ v = Leido[k.nombre]
    <3>1. DePeticion(t, v) /\ hilo[t].dato = k.socket /\ hilo[t].op = "CONNECT"
      BY <1>1, <1>6, <2>3, <2>5 DEF DePeticion, Pedida
    <3>2. m.socket = k.socket /\ conectados'[v] = k.socket
      BY <1>1, <1>3, <2>1, <2>5, <3>1 DEF Dueno, Conecta, Contenido
    <3>3. \A s \in Hilos : ~DePeticion(s, v)'
      BY <1>3, <1>4, <3>1 DEF Dueno
    <3>4. \A d \in Clientes : DeSesion(d, v)' => d = c
      BY <1>3, <2>2, <3>1, SinSesion DEF SistemaInv
    <3> QED
      BY <3>2, <3>3, <3>4 DEF Dueno
  <2>6. CASE ~(k.op = "CONNECT" /\ ret = 0 /\ v = Leido[k.nombre])
    <3>1. ASSUME DeSesion(c, v)' PROVE DeSesion(c, v) /\ m.socket = k.socket
      <4>1. m.sesion # Nada /\ Leido[m.sesion] = v /\ m.pc # "cierra"
        BY <3>1 DEF DeSesion, SeDesconecta, En
      <4>2. k.op # "CONNECT" /\ m.sesion = k.sesion /\ m.socket = k.socket
        BY <2>1, <2>4, <2>6, <4>1 DEF Conecta
      <4>3. ~SeDesconecta(c)
        BY <1>6, <2>1, <4>1 DEF SeDesconecta, En, Desconecta
      <4> QED
        BY <4>1, <4>2, <4>3 DEF DeSesion
    <3>2. \A d \in Clientes : DeSesion(d, v)' =>
            /\ DeSesion(d, v) /\ cliente'[d].socket = cliente[d].socket
            /\ \A s \in Hilos : turno[d] = s /\ DePeticion(s, v)' => turno'[d] = s
      BY <1>4, <1>6, <2>2, <3>1
    <3> QED
      BY <1>1, <1>3, <1>4, <3>2, DuenoSigue
  <2> QED
    BY <2>5, <2>6
<1>7. CASE (\A c \in Clientes : turno[c] # t) /\ UNCHANGED <<cvars, turno>>
  <2>1. \A d \in Clientes : Igual(d)
    BY <1>7 DEF cvars, Igual
  <2>2. \A d \in Clientes : DeSesion(d, v)' <=> DeSesion(d, v)
    BY <1>5, <1>7, <2>1
  <2> QED
    BY <1>1, <1>3, <1>4, <1>7, <2>2, DuenoSigue DEF cvars
<1> QED
  BY <1>6, <1>7 DEF Contesta

\* The server falls: it owes no answer any more, and the record that a CONNECT
\* was writing is no session's.
LEMMA ServidorCaeDuenos ==
  ASSUME SistemaInv, ServidorCae PROVE DuenosInv'
<1> DEFINE D == {c \in Clientes : cliente[c].op \in {"DISCONNECT", "QUIT"}
                                  /\ En(c, "espera")}
<1>1. /\ PierdeServidor /\ \A t \in Hilos : hilo'[t].pc = "libre"
      /\ \A u \in Usuarios :
           \/ conectados'[u] = conectados[u]
           \/ \E t \in Hilos : hilo[t].pc = "con_escribe" /\ hilo[t].user = u
  BY ServidorCaeEs DEF SistemaInv
<1>2. /\ dudosos \subseteq dudosos'
      /\ \A c \in D : cliente[c].sesion # Nada => Leido[cliente[c].sesion] \in dudosos'
  <2>1. Duda(D) /\ D \in SUBSET Clientes
    BY DEF ServidorCae
  <2> HIDE DEF D
  <2> QED
    BY <2>1, DudaEs DEF SistemaInv, EnlaceInv, STypeOK
<1>3. SUFFICES ASSUME NEW v \in Usuarios \ dudosos' PROVE Dueno(v)'
  BY DEF DuenosInv
<1>4. Dueno(v)
  BY <1>2 DEF SistemaInv, DuenosInv
<1>5. \A t \in Hilos : ~DePeticion(t, v)'
  BY <1>1, FasePCs DEF DePeticion
<1>6. ASSUME NEW c \in Clientes, DeSesion(c, v)'
      PROVE  DeSesion(c, v) /\ cliente'[c].socket = cliente[c].socket
  <2> DEFINE k == cliente[c]
             m == cliente'[c]
  <2>1. /\ m.sesion = k.sesion
        /\ IF k.pc \in {"espera", "consulta"}
           THEN m.socket = IF k.op = "CONNECT" THEN Nada ELSE k.socket
           ELSE m = k
    BY <1>1, PierdeEs DEF SistemaInv, EnlaceInv
  <2>2. k.sesion # Nada /\ Leido[k.sesion] = v
    BY <1>6, <2>1 DEF DeSesion
  <2>3. k.op # "CONNECT"
    BY <2>2 DEF SistemaInv, EnlaceInv, ClienteInv, SesionInv, Conectandose
  <2>4. c \notin D
    BY <1>2, <1>3, <2>2
  <2>5. ~En(c, "cierra")
    BY <1>6, <2>1 DEF DeSesion, SeDesconecta, En
  <2>6. ~SeDesconecta(c)
    BY <2>4, <2>5 DEF SeDesconecta
  <2> QED
    BY <2>1, <2>2, <2>3, <2>6 DEF DeSesion
<1>7. ASSUME NEW c \in Clientes, DeSesion(c, v)' PROVE conectados'[v] = conectados[v]
  <2> SUFFICES ASSUME NEW t \in Hilos, hilo[t].pc = "con_escribe", hilo[t].user = v
               PROVE  FALSE
    BY <1>1, <1>3
  <2>1. hilo[t].op = "CONNECT" /\ DePeticion(t, v)
    BY FasePCs DEF DePeticion, SistemaInv, EnlaceInv, HilosInv
  <2> QED
    BY <1>4, <1>6, <1>7, <2>1, SinSesion DEF SistemaInv
<1> QED
  BY <1>4, <1>5, <1>6, <1>7 DEF Dueno

\* The server's state stays, and so do the sessions that do not end.
LEMMA QuietoDuenos ==
  ASSUME SistemaInv, UNCHANGED <<conectados, enlazados, hilo>>,
         dudosos \subseteq dudosos',
         \A v \in Usuarios \ dudosos' : \A d \in Clientes : DeSesion(d, v)' =>
           Igual(d) /\ turno'[d] = turno[d]
  PROVE  DuenosInv'
<1> SUFFICES ASSUME NEW v \in Usuarios \ dudosos' PROVE Dueno(v)'
  BY DEF DuenosInv
<1>1. Dueno(v)
  BY DEF SistemaInv, DuenosInv
<1>2. \A t \in Hilos : DePeticion(t, v)' => DePeticion(t, v)
  BY DEF DePeticion
<1>3. \A d \in Clientes : DeSesion(d, v)' =>
        /\ DeSesion(d, v) /\ cliente'[d].socket = cliente[d].socket
        /\ turno'[d] = turno[d]
  BY IgualSesion DEF Igual
<1> QED
  BY <1>1, <1>2, <1>3, DuenoSigue

LEMMA SoloDuenos ==
  ASSUME SistemaInv, NEW c \in Clientes, Solo(c) PROVE DuenosInv'
<1>1. /\ Sesion(c) /\ UNCHANGED <<servidor, turno>>
      /\ dudosos \subseteq dudosos'
      /\ En(c, "cierra") /\ cliente'[c].pc = "shell"
           /\ cliente'[c].sesion # Nada /\ cliente[c].sesion # Nada
         => Leido[cliente[c].sesion] \in dudosos'
  BY SoloEs DEF SistemaInv
<1>2. ASSUME Cierra(c), NEW v \in Usuarios \ dudosos', DeSesion(c, v)' PROVE FALSE
  <2>1. /\ cliente[c].pc = "cierra" /\ cliente'[c].pc = "shell"
        /\ cliente'[c].sesion = cliente[c].sesion
    BY <1>2, CierraEs DEF SistemaInv, EnlaceInv, DeSesion
  <2>2. cliente'[c].sesion # Nada /\ Leido[cliente[c].sesion] = v
    BY <1>2, <2>1 DEF DeSesion
  <2> QED
    BY <1>1, <1>2, <2>1, <2>2 DEF En
<1>3. ASSUME Cierra(c), NEW d \in Clientes, d # c PROVE Igual(d)
  BY <1>3, CierraEs DEF SistemaInv, EnlaceInv, Igual
<1> QED
  BY <1>1, <1>2, <1>3, SesionIgual, QuietoDuenos DEF SistemaInv, EnlaceInv, servidor

LEMMA FinDuenos ==
  ASSUME SistemaInv, NEW c \in Clientes, Acaba(c) \/ ClienteCae(c)
  PROVE  DuenosInv'
<1>1. /\ UNCHANGED <<servidor, dudosos>>
      /\ \A d \in Clientes \ {c} : turno'[d] = turno[d]
      /\ cliente'[c] = Apagado /\ \A d \in Clientes \ {c} : Igual(d)
  BY FinEs, DesapareceEs DEF SistemaInv, EnlaceInv
<1>2. \A v : ~DeSesion(c, v)'
  BY <1>1, ApagadoEs DEF DeSesion
<1> QED
  BY <1>1, <1>2, QuietoDuenos DEF servidor

-----------------------------------------------------------------------------
\* Who is registered.

\* A step that adds no session nor takes a registration away.
LEMMA RegistroSigue ==
  ASSUME SistemaInv, UNCHANGED registrados, Expulsa({}),
         \A d \in Clientes :
           \/ /\ cliente'[d].sesion = cliente[d].sesion
              /\ cliente'[d].op = "CONNECT" =>
                   /\ cliente[d].op = "CONNECT"
                   /\ cliente'[d].nombre = cliente[d].nombre
                   /\ Aceptado(turno[d])' => Aceptado(turno[d])
           \/ cliente'[d].sesion = Nada /\ cliente'[d].op # "CONNECT"
  PROVE  RegistroInv'
<1> SUFFICES ASSUME NEW d \in Clientes \ expulsados' PROVE Registrado(d)'
  BY DEF RegistroInv
<1>1. CASE cliente'[d].sesion = Nada /\ cliente'[d].op # "CONNECT"
  BY <1>1 DEF Registrado
<1>2. CASE /\ cliente'[d].sesion # Nada \/ cliente'[d].op = "CONNECT"
           /\ cliente'[d].sesion = cliente[d].sesion
           /\ cliente'[d].op = "CONNECT" =>
                /\ cliente[d].op = "CONNECT"
                /\ cliente'[d].nombre = cliente[d].nombre
                /\ Aceptado(turno[d])' => Aceptado(turno[d])
  <2>1. d \notin expulsados
    BY <1>2, ExpulsaEs DEF SistemaInv, EnlaceInv, STypeOK
  <2>2. Registrado(d)
    BY <2>1 DEF SistemaInv, RegistroInv
  <2> QED
    BY <1>2, <2>2 DEF Registrado
<1> QED
  BY <1>1, <1>2

LEMMA OrdenaRegistro ==
  ASSUME SistemaInv, NEW c \in Clientes, NEW op \in Ordenes, NEW n \in Nombres,
         Ordena(c, op, n)
  PROVE  RegistroInv'
<1>1. /\ Envia(c, op, n) /\ Expulsa({}) /\ UNCHANGED registrados
      /\ \E t \in Hilos :
           /\ hilo[t].pc = "libre" /\ turno'[c] = t /\ hilo'[t].pc = "rpc"
           /\ \A s \in Hilos \ {t} : hilo'[s] = hilo[s]
           /\ \A d \in Clientes \ {c} : turno'[d] = turno[d]
  BY OrdenaEs DEF SistemaInv
<1>2. /\ cliente'[c].sesion = cliente[c].sesion /\ cliente'[c].op = op
      /\ Admite(c, op, n)
      /\ \A d \in Clientes \ {c} : cliente'[d] = cliente[d]
  BY <1>1, EnviaEs DEF SistemaInv, EnlaceInv
<1>3. SUFFICES ASSUME NEW d \in Clientes \ expulsados' PROVE Registrado(d)'
  BY DEF RegistroInv
<1>4. CASE d = c
  <2>1. ~Aceptado(turno[c])'
    BY <1>1 DEF Aceptado
  <2>2. cliente[c].sesion # Nada => Registrado(c)
    BY <1>1, <1>2, <1>3, <1>4, ExpulsaEs DEF SistemaInv, EnlaceInv, STypeOK, RegistroInv
  <2> QED
    BY <1>1, <1>2, <1>4, <2>1, <2>2 DEF Registrado
<1>5. CASE d # c
  <2>1. cliente'[d] = cliente[d] /\ turno'[d] = turno[d]
    BY <1>1, <1>2, <1>5
  <2>2. CASE cliente[d].sesion = Nada /\ cliente[d].op # "CONNECT"
    BY <2>1, <2>2 DEF Registrado
  <2>3. CASE cliente[d].sesion # Nada \/ cliente[d].op = "CONNECT"
    <3>1. Registrado(d)
      BY <1>1, <1>3, <2>1, <2>3, ExpulsaEs
         DEF SistemaInv, EnlaceInv, STypeOK, RegistroInv
    <3>2. cliente[d].op = "CONNECT" =>
            turno[d] \in Hilos /\ hilo[turno[d]].pc # "libre"
      BY DEF SistemaInv, EnlaceInv, ClienteInv, SesionInv, Conectandose,
             EsperasInv, Pedida, En
    <3>3. cliente[d].op = "CONNECT" => hilo'[turno'[d]] = hilo[turno[d]]
      BY <1>1, <2>1, <3>2
    <3> QED
      BY <1>1, <2>1, <3>1, <3>3 DEF Registrado, Aceptado
  <2> QED
    BY <2>2, <2>3
<1> QED
  BY <1>4, <1>5

\* Who loses the registration that its session or its CONNECT counts on is
\* put down.
LEMMA SirveRegistro ==
  ASSUME SistemaInv, NEW t \in Hilos, Sirve(t) PROVE RegistroInv'
<1> DEFINE u == hilo[t].user
           E == UNION {Interesados(w) : w \in registrados \ registrados'}
<1>1. /\ UNCHANGED <<cvars, turno>> /\ Avanza(t) /\ Efecto(t)
      /\ hilo[t].op \in DOMAIN Fase /\ hilo[t].pc # "responde"
      /\ hilo[t].pc \in {"rpc"} \cup Fase[hilo[t].op]
  BY SirveEs DEF SistemaInv
<1>2. UNCHANGED <<cliente, turno>> /\ E \in SUBSET Clientes /\ Expulsa(E)
  BY <1>1, InteresadosSon DEF cvars, Sirve
<1>3. SUFFICES ASSUME NEW d \in Clientes \ expulsados',
                      cliente[d].sesion # Nada \/ cliente[d].op = "CONNECT"
               PROVE  Registrado(d)'
  BY <1>2 DEF RegistroInv, Registrado
<1>4. d \notin expulsados /\ d \notin E
  <2> HIDE DEF E
  <2> QED
    BY <1>2, <1>3, ExpulsaEs DEF SistemaInv, EnlaceInv, STypeOK
<1>5. Registrado(d)
  BY <1>4 DEF SistemaInv, RegistroInv
\* d is not among those who count on it.
<1>6. ASSUME NEW v \in registrados,
             \/ cliente[d].sesion # Nada /\ Leido[cliente[d].sesion] = v
             \/ cliente[d].op = "CONNECT" /\ Leido[cliente[d].nombre] = v
      PROVE  v \in registrados'
  BY <1>4, <1>6 DEF Interesados
<1>7. cliente[d].sesion # Nada => Leido[cliente[d].sesion] \in registrados'
  BY <1>5, <1>6 DEF Registrado
<1>8. ASSUME cliente[d].op = "CONNECT", Aceptado(turno[d])'
      PROVE  Leido[cliente[d].nombre] \in registrados
  <2>1. /\ turno[d] \in Hilos /\ hilo[turno[d]].op = "CONNECT"
        /\ hilo[turno[d]].user = Leido[cliente[d].nombre]
    BY <1>8 DEF SistemaInv, EnlaceInv, ClienteInv, SesionInv, Conectandose,
                EsperasInv, Pedida, En
  <2>2. CASE Aceptado(turno[d])
    BY <1>5, <1>8, <2>2 DEF Registrado
  <2>3. CASE ~Aceptado(turno[d])
    <3>1. turno[d] = t
      BY <1>1, <1>2, <1>8, <2>1, <2>3 DEF Aceptado, Avanza
    <3>2. Mirada(t)
      BY <1>1, <2>1, <2>3, <3>1, FasePCs
         DEF Efecto, Alta, Baja, Creacion, Escritura, Borrado, Dice, Paso, Aceptado
    <3>3. Paso(t, "con_registro", "con_conexion") => u \in registrados
      BY <3>2, <1>1, FasePCs DEF Mirada, Dice, Paso
    <3>4. hilo'[t].pc = "con_conexion" /\ hilo[t].pc = "con_registro"
      BY <1>1, <1>2, <1>8, <2>1, <2>3, <3>1, <3>2, FasePCs
         DEF Mirada, Dice, Paso, Aceptado
    <3> QED
      BY <2>1, <3>1, <3>3, <3>4 DEF Paso
  <2> QED
    BY <2>2, <2>3
<1>9. cliente[d].op = "CONNECT" /\ Aceptado(turno[d])' =>
        Leido[cliente[d].nombre] \in registrados'
  BY <1>6, <1>8
<1> QED
  BY <1>2, <1>7, <1>9 DEF Registrado

LEMMA ContestaRegistro ==
  ASSUME SistemaInv, NEW t \in Hilos, Contesta(t) PROVE RegistroInv'
<1>1. /\ hilo[t].pc = "responde" /\ Expulsa({}) /\ UNCHANGED registrados
      /\ \A s \in Hilos \ {t} : hilo'[s] = hilo[s]
  BY ContestaEs DEF SistemaInv
\* Who is not answered waits as before.
<1>2. ASSUME NEW d \in Clientes, cliente'[d] = cliente[d], turno'[d] = turno[d],
             turno[d] # t
      PROVE  cliente[d].op = "CONNECT" => (Aceptado(turno[d])' => Aceptado(turno[d]))
  <2>1. cliente[d].op = "CONNECT" => turno[d] \in Hilos
    BY DEF SistemaInv, EnlaceInv, ClienteInv, SesionInv, Conectandose,
           EsperasInv, Pedida, En
  <2> QED
    BY <1>1, <1>2, <2>1 DEF Aceptado
<1>3. CASE (\A c \in Clientes : turno[c] # t) /\ UNCHANGED <<cvars, turno>>
  BY <1>1, <1>2, <1>3, RegistroSigue DEF cvars
<1>4. ASSUME NEW c \in Clientes, turno[c] = t, Recibe(c, hilo[t].ret),
             turno' = [turno EXCEPT ![c] = Nada]
      PROVE  RegistroInv'
  <2> DEFINE k == cliente[c]
             m == cliente'[c]
             ret == hilo[t].ret
  <2>1. /\ m.op # "CONNECT"
        /\ m.sesion = IF Conecta(k, ret) THEN k.nombre ELSE k.sesion
        /\ \A d \in Clientes \ {c} : cliente'[d] = cliente[d]
    BY <1>4, RecibeEs DEF SistemaInv, EnlaceInv
  <2>2. \A d \in Clientes \ {c} : turno'[d] = turno[d] /\ turno[d] # t
    BY <1>4, SistemaAssumption DEF SistemaInv, EnlaceInv, EsperasInv, STypeOK
  <2>3. CASE ~Conecta(k, ret)
    <3>1. ASSUME NEW d \in Clientes, d # c
          PROVE  /\ cliente'[d] = cliente[d]
                 /\ cliente[d].op = "CONNECT" =>
                      (Aceptado(turno[d])' => Aceptado(turno[d]))
      BY <1>2, <2>1, <2>2, <3>1
    <3>2. m.sesion = k.sesion /\ m.op # "CONNECT"
      BY <2>1, <2>3
    <3> QED
      BY <1>1, <3>1, <3>2, RegistroSigue
  <2>4. CASE Conecta(k, ret)
    <3>1. k.op = "CONNECT" /\ Aceptado(turno[c])
      BY <1>1, <1>4, <2>4 DEF Conecta, Aceptado
    <3> SUFFICES ASSUME NEW d \in Clientes \ expulsados' PROVE Registrado(d)'
      BY DEF RegistroInv
    <3>2. CASE d = c
      <4>1. m.sesion = Nada \/ c \notin expulsados
        BY <1>1, <3>2, ExpulsaEs DEF SistemaInv, EnlaceInv, STypeOK
      <4>2. m.sesion # Nada => Leido[k.nombre] \in registrados
        BY <3>1, <4>1 DEF SistemaInv, RegistroInv, Registrado
      <4> QED
        BY <1>1, <2>1, <2>4, <3>2, <4>2 DEF Registrado
    <3>3. CASE d # c
      <4>1. cliente'[d] = cliente[d]
            /\ (cliente[d].op = "CONNECT" =>
                  (Aceptado(turno[d])' => Aceptado(turno[d])))
        BY <1>2, <2>1, <2>2, <3>3
      <4>2. \/ cliente[d].sesion = Nada /\ cliente[d].op # "CONNECT"
            \/ d \notin expulsados
        BY <1>1, <4>1, ExpulsaEs DEF SistemaInv, EnlaceInv, STypeOK
      <4> QED
        BY <1>1, <4>1, <4>2 DEF SistemaInv, RegistroInv, Registrado
    <3> QED
      BY <3>2, <3>3
  <2> QED
    BY <2>3, <2>4
<1> QED
  BY <1>3, <1>4 DEF Contesta

\* The other steps leave the tables alone, and sessions at most end.
LEMMA RestoRegistro ==
  ASSUME SistemaInv, UNCHANGED <<registrados, hilo>>, Expulsa({}),
         \A d \in Clientes :
           \/ Igual(d) /\ turno'[d] = turno[d]
           \/ cliente'[d].sesion = Nada /\ cliente'[d].op # "CONNECT"
           \/ cliente'[d].sesion = cliente[d].sesion /\ cliente'[d].op # "CONNECT"
  PROVE  RegistroInv'
BY RegistroSigue DEF Igual, Aceptado

LEMMA ServidorCaeRegistro ==
  ASSUME SistemaInv, ServidorCae PROVE RegistroInv'
<1>1. PierdeServidor /\ Expulsa({}) /\ UNCHANGED registrados
  BY ServidorCaeEs DEF SistemaInv
<1>2. \A d \in Clientes : cliente'[d].sesion = cliente[d].sesion
                          /\ cliente'[d].op # "CONNECT"
  <2> TAKE d \in Clientes
  <2>1. cliente[d].op = "CONNECT" => cliente[d].pc = "espera"
    BY DEF SistemaInv, EnlaceInv, ClienteInv, SesionInv, Conectandose
  <2> QED
    BY <1>1, <2>1, PierdeEs DEF SistemaInv, EnlaceInv
<1> QED
  BY <1>1, <1>2, RegistroSigue

LEMMA SoloRegistro ==
  ASSUME SistemaInv, NEW c \in Clientes, Solo(c) PROVE RegistroInv'
<1>1. /\ Sesion(c) /\ UNCHANGED <<servidor, turno>> /\ Expulsa({})
      /\ ClienteInv'
  BY SoloEs, SoloEnlace DEF SistemaInv, EnlaceInv
<1>2. CASE \A d \in Clientes : Igual(d)
  BY <1>1, <1>2, RestoRegistro DEF servidor
<1>3. CASE Cierra(c)
  <2>1. \A d \in Clientes \ {c} : Igual(d)
    BY <1>3, CierraEs DEF SistemaInv, EnlaceInv, Igual
  <2>2. /\ cliente'[c].pc # "espera"
        /\ cliente'[c].sesion = Nada \/ cliente'[c].sesion = cliente[c].sesion
    BY <1>3, CierraEs DEF SistemaInv, EnlaceInv
  <2>3. cliente'[c].op # "CONNECT"
    BY <1>1, <2>2 DEF ClienteInv, SesionInv, Conectandose
  <2> QED
    BY <1>1, <2>1, <2>2, <2>3, RestoRegistro DEF servidor
<1> QED
  BY <1>1, <1>2, <1>3, SesionIgual DEF SistemaInv, EnlaceInv

LEMMA FinRegistro ==
  ASSUME SistemaInv, NEW c \in Clientes, Acaba(c) \/ ClienteCae(c)
  PROVE  RegistroInv'
<1>1. /\ UNCHANGED servidor /\ Expulsa({})
      /\ \A d \in Clientes \ {c} : turno'[d] = turno[d]
      /\ cliente'[c] = Apagado /\ \A d \in Clientes \ {c} : Igual(d)
  BY FinEs, DesapareceEs DEF SistemaInv, EnlaceInv
<1> QED
  BY <1>1, ApagadoEs, RestoRegistro DEF servidor

-----------------------------------------------------------------------------
\* Whose DISCONNECT is refused.

LEMMA RechazoMotivo ==
  ASSUME SistemaInv, NEW d \in Clientes, Rechazado(d)
  PROVE  /\ cliente[d].sesion # Nada
         /\ d \in expulsados \/ Leido[cliente[d].sesion] \in dudosos
<1>1. En(d, "espera") /\ cliente[d].op \in {"DISCONNECT", "QUIT"} =>
        cliente[d].sesion \in Nombres
  BY DEF SistemaInv, EnlaceInv, EsperasInv, Pedida
<1> QED
  BY <1>1, ClienteAssumption DEF SistemaInv, RechazoInv, Rechazado

LEMMA RechazoSigue ==
  ASSUME SistemaInv, dudosos \subseteq dudosos',
         NEW S \in SUBSET Clientes, Expulsa(S),
         \A d \in Clientes : Rechazado(d)' =>
           /\ cliente'[d].sesion = cliente[d].sesion
           /\ cliente[d].sesion # Nada
           /\ d \in expulsados \/ Leido[cliente[d].sesion] \in dudosos
  PROVE  RechazoInv'
BY ExpulsaEs DEF SistemaInv, EnlaceInv, STypeOK, RechazoInv

LEMMA IgualRechazo ==
  ASSUME NEW d \in Clientes, Igual(d), Rechazado(d)',
         En(d, "espera") =>
           turno'[d] = turno[d] /\ hilo'[turno[d]] = hilo[turno[d]]
  PROVE  Rechazado(d) /\ cliente'[d].sesion = cliente[d].sesion
<1>1. En(d, "espera")' <=> En(d, "espera")
  BY DEF Igual, En
<1>2. En(d, "saliendo")' /\ cliente'[d].sesion # Nada => En(d, "saliendo")
  BY DEF Igual, En
<1> QED
  BY <1>1, <1>2 DEF Igual, Rechazado

LEMMA OrdenaRechazo ==
  ASSUME SistemaInv, NEW c \in Clientes, NEW op \in Ordenes, NEW n \in Nombres,
         Ordena(c, op, n)
  PROVE  RechazoInv'
<1>1. /\ Envia(c, op, n) /\ Expulsa({}) /\ UNCHANGED dudosos
      /\ \E t \in Hilos :
           /\ hilo[t].pc = "libre" /\ turno'[c] = t /\ hilo'[t].pc = "rpc"
           /\ \A s \in Hilos \ {t} : hilo'[s] = hilo[s]
           /\ \A d \in Clientes \ {c} : turno'[d] = turno[d]
  BY OrdenaEs DEF SistemaInv
<1>2. /\ cliente'[c].pc = "espera"
      /\ \A d \in Clientes \ {c} : cliente'[d] = cliente[d]
  BY <1>1, EnviaEs DEF SistemaInv, EnlaceInv
<1>3. ~Rechazado(c)'
  BY <1>1, <1>2 DEF Rechazado, En
<1>4. ASSUME NEW d \in Clientes \ {c}, Rechazado(d)'
      PROVE  Rechazado(d) /\ cliente'[d].sesion = cliente[d].sesion
  <2>1. En(d, "espera") => turno[d] \in Hilos /\ hilo[turno[d]].pc # "libre"
    BY DEF SistemaInv, EnlaceInv, EsperasInv, Pedida
  <2>2. En(d, "espera") => turno'[d] = turno[d] /\ hilo'[turno[d]] = hilo[turno[d]]
    BY <1>1, <2>1
  <2> QED
    BY <1>2, <1>4, <2>2, IgualRechazo DEF Igual
<1> QED
  BY <1>1, <1>3, <1>4, RechazoMotivo, RechazoSigue

\* The server finds no registration only if the client has been unregistered,
\* and no record only if its user is in doubt.
LEMMA SirveRechazo ==
  ASSUME SistemaInv, NEW t \in Hilos, Sirve(t) PROVE RechazoInv'
<1> DEFINE u == hilo[t].user
           E == UNION {Interesados(w) : w \in registrados \ registrados'}
<1>1. /\ UNCHANGED <<cvars, turno>> /\ Avanza(t) /\ Efecto(t)
      /\ hilo[t].op \in DOMAIN Fase /\ u \in Usuarios
      /\ hilo[t].pc \notin {"libre", "responde"}
      /\ hilo[t].pc \in {"rpc"} \cup Fase[hilo[t].op]
  BY SirveEs DEF SistemaInv
<1>2. /\ UNCHANGED <<cliente, turno>> /\ E \in SUBSET Clientes /\ Expulsa(E)
      /\ dudosos \subseteq dudosos'
  BY <1>1, InteresadosSon DEF cvars, Sirve
<1>3. ASSUME NEW d \in Clientes, Rechazado(d)'
      PROVE  /\ cliente[d].sesion # Nada
             /\ d \in expulsados \/ Leido[cliente[d].sesion] \in dudosos
  <2>1. CASE Rechazado(d)
    BY <2>1, RechazoMotivo
  <2>2. CASE ~Rechazado(d)
    <3>1. /\ En(d, "espera") /\ cliente[d].op \in {"DISCONNECT", "QUIT"}
          /\ hilo'[turno[d]].pc = "responde" /\ hilo'[turno[d]].ret # 0
      BY <1>2, <1>3, <2>2 DEF Rechazado, En
    <3>2. /\ turno[d] \in Hilos /\ hilo[turno[d]].op = "DISCONNECT"
          /\ hilo[turno[d]].user = Leido[cliente[d].sesion]
          /\ cliente[d].sesion # Nada
      BY <3>1, ClienteAssumption DEF SistemaInv, EnlaceInv, EsperasInv, Pedida
    <3>3. turno[d] = t
      BY <1>1, <2>2, <3>1, <3>2 DEF Avanza, Rechazado
    <3>4. \/ Dice(t, "dis_registro", 1) /\ u \notin registrados
          \/ Dice(t, "dis_conexion", 2) /\ conectados[u] = Nada
      BY <1>1, <3>1, <3>2, <3>3, FasePCs
         DEF Efecto, Mirada, Alta, Baja, Creacion, Escritura, Borrado, Dice, Paso
    <3>5. CASE u \notin registrados
      BY <3>2, <3>3, <3>5 DEF SistemaInv, RegistroInv, Registrado
    <3>6. CASE hilo[t].pc = "dis_conexion" /\ conectados[u] = Nada
      <4>1. SUFFICES ASSUME u \notin dudosos PROVE FALSE
        BY <3>2, <3>3
      <4>2. Dueno(u) /\ DePeticion(t, u)
        BY <1>1, <3>6, <4>1, FasePCs DEF SistemaInv, DuenosInv, DePeticion
      <4>3. conectados[u] = hilo[t].dato
        BY <3>6, <4>2 DEF Dueno, Contenido
      <4>4. hilo[t].dato \in Puertos
        BY <1>1, <3>2, <3>3 DEF SistemaInv, EnlaceInv, HilosInv
      <4> QED
        BY <3>6, <4>3, <4>4, Distintos
    <3> QED
      BY <3>4, <3>5, <3>6 DEF Dice, Paso
  <2> QED
    BY <2>1, <2>2
<1> HIDE DEF E
<1> QED
  BY <1>2, <1>3, RechazoSigue

LEMMA ContestaRechazo ==
  ASSUME SistemaInv, NEW t \in Hilos, Contesta(t) PROVE RechazoInv'
<1>1. /\ hilo[t].pc = "responde" /\ Expulsa({}) /\ UNCHANGED dudosos
      /\ \A s \in Hilos \ {t} : hilo'[s] = hilo[s]
  BY ContestaEs DEF SistemaInv
\* Who is not answered waits as before.
<1>2. ASSUME NEW d \in Clientes, cliente'[d] = cliente[d], turno'[d] = turno[d],
             turno[d] # t, Rechazado(d)'
      PROVE  Rechazado(d) /\ cliente'[d].sesion = cliente[d].sesion
  <2>1. En(d, "espera") => turno[d] \in Hilos
    BY DEF SistemaInv, EnlaceInv, EsperasInv, Pedida
  <2> QED
    BY <1>1, <1>2, <2>1, IgualRechazo DEF Igual
<1>3. CASE (\A c \in Clientes : turno[c] # t) /\ UNCHANGED <<cvars, turno>>
  BY <1>1, <1>2, <1>3, RechazoMotivo, RechazoSigue DEF cvars
<1>4. ASSUME NEW c \in Clientes, turno[c] = t, Recibe(c, hilo[t].ret),
             turno' = [turno EXCEPT ![c] = Nada]
      PROVE  RechazoInv'
  <2> DEFINE k == cliente[c]
             m == cliente'[c]
             ret == hilo[t].ret
  <2>1. /\ k.pc = "espera"
        /\ m.pc = IF Desconecta(k, ret) THEN "cierra"
                  ELSE IF k.op = "QUIT" THEN "saliendo" ELSE "shell"
        /\ m.sesion = IF Conecta(k, ret) THEN k.nombre ELSE k.sesion
        /\ \A d \in Clientes \ {c} : cliente'[d] = cliente[d]
    BY <1>4, RecibeEs DEF SistemaInv, EnlaceInv
  <2>2. \A d \in Clientes \ {c} : turno'[d] = turno[d] /\ turno[d] # t
    BY <1>4, SistemaAssumption DEF SistemaInv, EnlaceInv, EsperasInv, STypeOK
  <2>3. ASSUME Rechazado(c)' PROVE Rechazado(c) /\ m.sesion = k.sesion
    <3>1. m.pc = "saliendo"
      BY <2>1, <2>3 DEF Rechazado, En
    <3>2. k.op = "QUIT" /\ ret # 0
      BY <2>1, <3>1 DEF Desconecta
    <3> QED
      BY <1>1, <1>4, <2>1, <3>2 DEF Rechazado, En, Conecta
  <2> QED
    BY <1>1, <1>2, <2>1, <2>2, <2>3, RechazoMotivo, RechazoSigue
<1> QED
  BY <1>3, <1>4 DEF Contesta

LEMMA ServidorCaeRechazo ==
  ASSUME SistemaInv, ServidorCae PROVE RechazoInv'
<1>1. PierdeServidor /\ Expulsa({}) /\ dudosos \subseteq dudosos'
  BY ServidorCaeEs DEF SistemaInv, ServidorCae, Duda
<1>2. ASSUME NEW d \in Clientes, Rechazado(d)'
      PROVE  Rechazado(d) /\ cliente'[d].sesion = cliente[d].sesion
  <2>1. cliente[d].pc # "espera" /\ cliente'[d] = cliente[d]
    BY <1>1, <1>2, PierdeEs DEF SistemaInv, EnlaceInv, Rechazado, En
  <2> QED
    BY <1>2, <2>1 DEF Rechazado, En
<1> QED
  BY <1>1, <1>2, RechazoMotivo, RechazoSigue

LEMMA SoloRechazo ==
  ASSUME SistemaInv, NEW c \in Clientes, Solo(c) PROVE RechazoInv'
<1>1. /\ Sesion(c) /\ UNCHANGED <<servidor, turno>> /\ Expulsa({})
      /\ dudosos \subseteq dudosos'
  BY SoloEs DEF SistemaInv
<1>2. (\A d \in Clientes : Igual(d)) \/ Cierra(c)
  BY <1>1, SesionIgual DEF SistemaInv, EnlaceInv
<1>3. \A d \in Clientes : Igual(d) \/ ~Rechazado(d)'
  <2>1. Cierra(c) => ~Rechazado(c)' /\ \A d \in Clientes \ {c} : Igual(d)
    BY CierraEs DEF SistemaInv, EnlaceInv, Igual, Rechazado, En
  <2> QED
    BY <1>2, <2>1
<1>4. \A d \in Clientes : Rechazado(d)' =>
        Rechazado(d) /\ cliente'[d].sesion = cliente[d].sesion
  BY <1>1, <1>3, IgualRechazo DEF servidor
<1> QED
  BY <1>1, <1>4, RechazoMotivo, RechazoSigue

LEMMA FinRechazo ==
  ASSUME SistemaInv, NEW c \in Clientes, Acaba(c) \/ ClienteCae(c)
  PROVE  RechazoInv'
<1>1. /\ UNCHANGED <<servidor, dudosos>> /\ Expulsa({})
      /\ \A d \in Clientes \ {c} : turno'[d] = turno[d]
      /\ cliente'[c] = Apagado /\ \A d \in Clientes \ {c} : Igual(d)
  BY FinEs, DesapareceEs DEF SistemaInv, EnlaceInv
<1>2. \A d \in Clientes : Rechazado(d)' =>
        Rechazado(d) /\ cliente'[d].sesion = cliente[d].sesion
  <2>1. ~Rechazado(c)'
    BY <1>1, ApagadoEs DEF Rechazado, En
  <2> QED
    BY <1>1, <2>1, IgualRechazo DEF servidor
<1> QED
  BY <1>1, <1>2, RechazoMotivo, RechazoSigue

\* What neither the clients' shells nor the tables and threads take part in.
LEMMA QuietoResto ==
  ASSUME SistemaInv,
         UNCHANGED <<cliente, turno, hilo, conectados, registrados, enlazados,
                     dudosos, expulsados>>
  PROVE  DuenosInv' /\ RegistroInv' /\ RechazoInv'
<1>1. DuenosInv'
  BY QuietoDuenos DEF SistemaInv, Igual
<1>2. RegistroInv'
  BY DEF SistemaInv, RegistroInv, Registrado, Aceptado
<1>3. RechazoInv'
  BY DEF SistemaInv, RechazoInv, Rechazado, En
<1> QED
  BY <1>1, <1>2, <1>3

-----------------------------------------------------------------------------
\* What Servidor asks of its constants holds here.
LEMMA ServidorDeSistema == Srv!ServidorAssumption
<1>1. Srv!Rutas = {"-description"}
  BY DEF Srv!Rutas, Descripcion
<1>2. Peticiones \subseteq [op : Srv!Operaciones, user : Srv!Cuentas,
                           dato : Srv!Datos, llega : 0..3]
  BY DEF Peticiones, Srv!Operaciones, Srv!Cuentas, Srv!Datos
<1> QED
  BY <1>1, <1>2, SistemaAssumption
     DEF Srv!ServidorAssumption, Descripcion, Carpetas, Srv!Cuentas

LEMMA SistemaInit == SInit => SistemaInv
<1> SUFFICES ASSUME SInit PROVE SistemaInv
  OBVIOUS
<1>1. /\ ClienteInv /\ \A c \in Clientes : cliente[c] = Apagado
      /\ carpetas = Carpetas /\ registrados = {} /\ enlazados = {}
      /\ conectados = [u \in Usuarios |-> Nada]
      /\ publicaciones = [r \in {"-description"} |-> Nada]
      /\ hilo = [t \in Hilos |-> Srv!PilaNueva] /\ vivo = TRUE /\ caido = TRUE
      /\ turno = [c \in Clientes |-> Nada] /\ dudosos = {} /\ expulsados = {}
  BY ClienteInit DEF SInit, CInit
<1>2. /\ hilo \in [Hilos -> Srv!Marcos]
      /\ \A t \in Hilos : hilo[t].pc = "libre"
  BY <1>1, MarcoLibre
<1>3. Srv!TypeOK
  <2>1. Srv!Rutas = {"-description"}
    BY DEF Srv!Rutas, Descripcion
  <2>2. publicaciones \in [Srv!Rutas -> Srv!Cuentas \cup {Nada, Vacio}]
    BY <1>1, <2>1
  <2> QED
    BY <1>1, <1>2, <2>2 DEF Srv!TypeOK, Carpetas
<1>4. STypeOK /\ HilosInv
  BY <1>1, <1>2, <1>3 DEF STypeOK, ClienteInv, HilosInv
<1>5. EsperasInv /\ SocketDeSesion
  BY <1>1, ApagadoEs DEF EsperasInv, SocketDeSesion, En
<1>6. DuenosInv
  <2>1. \A v : (\A c \in Clientes : ~DeSesion(c, v))
                /\ \A t \in Hilos : ~DePeticion(t, v)
    BY <1>1, <1>2, FasePCs, ApagadoEs DEF DeSesion, DePeticion
  <2> QED
    BY <2>1 DEF DuenosInv, Dueno
<1>7. RegistroInv /\ RechazoInv
  BY <1>1, ApagadoEs DEF RegistroInv, Registrado, RechazoInv, Rechazado, En
<1> QED
  BY <1>1, <1>4, <1>5, <1>6, <1>7 DEF SistemaInv, EnlaceInv

LEMMA SistemaStep == SistemaInv /\ [SNext]_svars => SistemaInv'
<1> SUFFICES ASSUME SistemaInv, [SNext]_svars PROVE SistemaInv'
  OBVIOUS
<1>1. EnlaceInv
  BY DEF SistemaInv
<1>2. ASSUME NEW c \in Clientes, NEW op \in Ordenes, NEW n \in Nombres,
             Ordena(c, op, n)
      PROVE  SistemaInv'
  BY <1>1, <1>2, OrdenaEnlace, OrdenaDuenos, OrdenaRegistro, OrdenaRechazo
     DEF SistemaInv
<1>3. ASSUME NEW t \in Hilos, Sirve(t) PROVE SistemaInv'
  BY <1>1, <1>3, SirveEnlace, SirveDuenos, SirveRegistro, SirveRechazo
     DEF SistemaInv
<1>4. ASSUME NEW t \in Hilos, Contesta(t) PROVE SistemaInv'
  BY <1>1, <1>4, ContestaEnlace, ContestaDuenos, ContestaRegistro,
     ContestaRechazo DEF SistemaInv
<1>5. ASSUME NEW c \in Clientes, Solo(c) PROVE SistemaInv'
  BY <1>1, <1>5, SoloEnlace, SoloDuenos, SoloRegistro, SoloRechazo DEF SistemaInv
<1>6. ASSUME NEW c \in Clientes, Visita(c) PROVE SistemaInv'
  <2>1. UNCHANGED <<cliente, turno, hilo, conectados, registrados, enlazados,
                    dudosos, expulsados>>
    BY <1>1, <1>6, VisitaEs DEF servidor
  <2> QED
    BY <1>1, <1>6, <2>1, VisitaEnlace, QuietoResto DEF SistemaInv
<1>7. ASSUME NEW c \in Clientes, Acaba(c) \/ ClienteCae(c) PROVE SistemaInv'
  BY <1>1, <1>7, FinEnlace, FinDuenos, FinRegistro, FinRechazo DEF SistemaInv
<1>8. CASE ServidorCae
  BY <1>1, <1>8, ServidorCaeEnlace, ServidorCaeDuenos, ServidorCaeRegistro,
     ServidorCaeRechazo DEF SistemaInv
<1>9. CASE ServidorArranca
  <2>1. UNCHANGED <<cliente, turno, hilo, conectados, registrados, enlazados,
                    dudosos, expulsados>>
    BY <1>9, ServidorArrancaEs DEF cvars
  <2> QED
    BY <1>1, <1>9, <2>1, ServidorArrancaEnlace, QuietoResto DEF SistemaInv
<1>10. CASE UNCHANGED svars
  <2>1. /\ UNCHANGED <<cvars, servidor, turno, dudosos, expulsados>>
        /\ UNCHANGED <<cliente, turno, hilo, conectados, registrados, enlazados,
                       dudosos, expulsados>>
    BY <1>10 DEF svars, cvars, servidor
  <2>2. ClienteInv' /\ \A d \in Clientes : Igual(d)
    BY <1>1, <2>1, ClienteStep DEF EnlaceInv, Igual
  <2>3. EnlaceInv'
    BY <1>1, <2>1, <2>2, SinServidor DEF EnlaceInv, STypeOK
  <2> QED
    BY <2>1, <2>3, QuietoResto DEF SistemaInv
<1> QED
  BY <1>2, <1>3, <1>4, <1>5, <1>6, <1>7, <1>8, <1>9, <1>10 DEF SNext

-----------------------------------------------------------------------------
\* What a step must not do to the records.
Quitado ==
  \A v \in Usuarios :
    conectados[v] # Nada /\ conectados'[v] = Nada =>
      v \in dudosos \/ \E t \in Hilos :
        /\ hilo[t].pc = "dis_borra" /\ hilo[t].user = v
        /\ hilo[t].dato = conectados[v]
Abandonado ==
  \A c \in Clientes, v \in Usuarios :
    Suyo(c, v) /\ ~Suyo(c, v)' /\ conectados'[v] = conectados[v] =>
      \/ cliente[c].sesion = Nada /\ ~vivo'
      \/ cliente'[c].pc = "fuera" /\ ~(En(c, "saliendo") /\ oyentes[c] = {})
      \/ c \in expulsados \/ v \in dudosos

LEMMA QuitadoStep == SistemaInv /\ [SNext]_svars => Quitado
<1> SUFFICES ASSUME SistemaInv, [SNext]_svars,
                    NEW v \in Usuarios \ dudosos,
                    conectados[v] # Nada, conectados'[v] = Nada
             PROVE  \E t \in Hilos :
                      /\ hilo[t].pc = "dis_borra" /\ hilo[t].user = v
                      /\ hilo[t].dato = conectados[v]
  BY DEF Quitado
<1>1. /\ EnlaceInv /\ Dueno(v)
      /\ conectados \in [Usuarios -> Puertos \cup {Blanco, Nada, Vacio, Mezcla}]
  BY DEF SistemaInv, DuenosInv, EnlaceInv, STypeOK, Srv!TypeOK
<1>2. ASSUME NEW t \in Hilos, Sirve(t)
      PROVE  /\ hilo[t].pc = "dis_borra" /\ hilo[t].user = v
             /\ hilo[t].dato = conectados[v]
  <2>1. Efecto(t) /\ hilo[t].op \in DOMAIN Fase /\ hilo[t].user \in Usuarios
        /\ hilo[t].pc \in {"rpc"} \cup Fase[hilo[t].op]
    BY <1>1, <1>2, SirveEs
  <2>2. CASE Creacion(t)
    BY <1>1, <2>2, Distintos DEF Creacion
  <2>3. CASE Escritura(t)
    <3>1. hilo[t].dato \in Puertos
      BY <1>1, <2>1, <2>3, FasePCs DEF Escritura, Dice, Paso, EnlaceInv, HilosInv
    <3> QED
      BY <1>1, <2>3, <3>1, Distintos DEF Escritura
  <2>4. CASE Borrado(t)
    <3>1. hilo[t].pc = "dis_borra" /\ hilo[t].user = v
      BY <2>4 DEF Borrado, Dice, Paso
    <3>2. DePeticion(t, v)
      BY <3>1, FasePCs DEF DePeticion
    <3> QED
      BY <1>1, <3>1, <3>2 DEF Dueno, Contenido
  <2> QED
    BY <2>1, <2>2, <2>3, <2>4 DEF Efecto, Mirada, Alta, Baja
<1>3. CASE ServidorCae
  BY <1>1, <1>3, ServidorCaeEs
<1>4. CASE UNCHANGED conectados
  BY <1>4
<1>5. ASSUME NEW c \in Clientes,
             Acaba(c) \/ ClienteCae(c) \/ Solo(c) \/ Visita(c)
      PROVE  UNCHANGED conectados
  BY <1>5 DEF Acaba, ClienteCae, Solo, Visita, servidor
<1>6. ASSUME NEW t \in Hilos, Contesta(t) PROVE UNCHANGED conectados
  BY <1>1, <1>6, ContestaEs
<1>7. ASSUME NEW c \in Clientes, NEW op \in Ordenes, NEW n \in Nombres,
             Ordena(c, op, n)
      PROVE  UNCHANGED conectados
  BY <1>1, <1>7, OrdenaEs
<1>8. CASE ServidorArranca
  BY <1>4, <1>8, ServidorArrancaEs
<1>9. CASE UNCHANGED svars
  BY <1>4, <1>9 DEF svars, servidor
<1> QED
  BY <1>2, <1>3, <1>4, <1>5, <1>6, <1>7, <1>8, <1>9 DEF SNext

LEMMA IgualSuyo ==
  ASSUME NEW v, NEW d \in Clientes, Igual(d), conectados'[v] = conectados[v],
         En(d, "espera") =>
           turno'[d] = turno[d] /\ hilo'[turno[d]] = hilo[turno[d]],
         Suyo(d, v)
  PROVE  Suyo(d, v)'
<1>1. (En(d, "espera")' <=> En(d, "espera")) /\ (En(d, "cierra")' <=> En(d, "cierra"))
  BY DEF Igual, En
<1>2. SeDesconecta(d)' <=> SeDesconecta(d)
  BY <1>1 DEF Igual, SeDesconecta
<1> QED
  BY <1>1, <1>2 DEF Igual, Suyo

LEMMA AbandonadoStep == SistemaInv /\ [SNext]_svars => Abandonado
<1> SUFFICES ASSUME SistemaInv, [SNext]_svars,
                    NEW c \in Clientes, NEW v \in Usuarios,
                    Suyo(c, v), ~Suyo(c, v)', conectados'[v] = conectados[v]
             PROVE  \/ cliente[c].sesion = Nada /\ ~vivo'
                    \/ /\ cliente'[c].pc = "fuera"
                       /\ ~(En(c, "saliendo") /\ oyentes[c] = {})
                    \/ c \in expulsados \/ v \in dudosos
  BY DEF Abandonado
<1> DEFINE k == cliente[c]
           m == cliente'[c]
<1>1. EnlaceInv /\ ClienteInv
  BY DEF SistemaInv, EnlaceInv
<1>2. /\ conectados[v] \in Puertos /\ conectados[v] = k.socket
      /\ ~SeDesconecta(c) /\ k.pc # "cierra"
      /\ \/ k.sesion # Nada /\ Leido[k.sesion] = v
         \/ /\ k.pc = "espera" /\ k.op = "CONNECT" /\ Leido[k.nombre] = v
            /\ hilo[turno[c]].pc = "responde" /\ hilo[turno[c]].ret = 0
  BY DEF Suyo, SeDesconecta, En
<1>3. k.op = "CONNECT" => k.sesion = Nada /\ k.pc = "espera"
  BY <1>1 DEF ClienteInv, SesionInv, Conectandose
<1>4. k.pc = "espera" =>
        turno[c] \in Hilos /\ Pedida(c) /\ hilo[turno[c]].pc # "libre"
  BY <1>1 DEF EnlaceInv, EsperasInv, Pedida, En
\* A session that does not end, nor waits for the answer to its DISCONNECT,
\* still has its record.
<1>5. ASSUME m.sesion = k.sesion, k.sesion # Nada, m.socket = k.socket,
             ~SeDesconecta(c)'
      PROVE  FALSE
  BY <1>2, <1>3, <1>5 DEF Suyo
<1>6. ASSUME Igual(c),
             k.pc = "espera" =>
               turno'[c] = turno[c] /\ hilo'[turno[c]] = hilo[turno[c]]
      PROVE  FALSE
  BY <1>6, IgualSuyo DEF En
<1>7. ASSUME NEW d \in Clientes, NEW op \in Ordenes, NEW n \in Nombres,
             Ordena(d, op, n)
      PROVE  FALSE
  <2>1. /\ Envia(d, op, n)
        /\ \E t \in Hilos :
             /\ hilo[t].pc = "libre" /\ turno'[d] = t /\ hilo'[t].pc = "rpc"
             /\ \A s \in Hilos \ {t} : hilo'[s] = hilo[s]
             /\ \A e \in Clientes \ {d} : turno'[e] = turno[e]
    BY <1>1, <1>7, OrdenaEs
  <2>2. /\ cliente[d].pc = "shell" /\ Admite(d, op, n)
        /\ cliente'[d].pc = "espera" /\ cliente'[d].sesion = cliente[d].sesion
        /\ op # "CONNECT" => cliente'[d].socket = cliente[d].socket
        /\ \A e \in Clientes \ {d} : cliente'[e] = cliente[e]
    BY <1>1, <2>1, EnviaEs
  <2>3. CASE d = c
    <3>1. k.sesion # Nada /\ op # "CONNECT"
      BY <1>2, <2>2, <2>3 DEF Admite
    <3>2. ~SeDesconecta(c)'
      BY <2>1, <2>2, <2>3 DEF SeDesconecta, En
    <3> QED
      BY <1>5, <2>2, <2>3, <3>1, <3>2
  <2>4. CASE d # c
    BY <1>4, <1>6, <2>1, <2>2, <2>4 DEF Igual
  <2> QED
    BY <2>3, <2>4
<1>8. ASSUME NEW t \in Hilos, Sirve(t) PROVE FALSE
  <2>1. /\ Avanza(t) /\ Efecto(t) /\ UNCHANGED <<cvars, turno>>
        /\ hilo[t].pc \notin {"libre", "responde"}
        /\ hilo[t].pc \in {"rpc"} \cup Fase[hilo[t].op]
    BY <1>1, <1>8, SirveEs
  <2>2. Igual(c) /\ UNCHANGED cliente
    BY <2>1 DEF cvars, Igual
  <2>3. k.pc = "espera" /\ turno[c] = t
    BY <1>4, <1>6, <2>1, <2>2 DEF Avanza
  <2>4. k.sesion # Nada /\ Leido[k.sesion] = v
    BY <1>2, <2>1, <2>3
  <2>5. ~SeDesconecta(c)'
    <3> SUFFICES ASSUME k.op \in {"DISCONNECT", "QUIT"},
                        hilo'[t].pc = "responde", hilo'[t].ret = 0
                 PROVE FALSE
      BY <2>1, <2>2, <2>3 DEF SeDesconecta, En
    <3>1. hilo[t].op = "DISCONNECT" /\ hilo[t].user = v
      BY <1>4, <2>3, <2>4 DEF Pedida
    <3>2. Borrado(t)
      BY <2>1, <3>1, FasePCs
         DEF Efecto, Mirada, Alta, Baja, Creacion, Escritura, Dice, Paso
    <3>3. conectados'[v] = Nada
      BY <3>1, <3>2 DEF Borrado
    <3> QED
      BY <1>2, <3>3, Distintos
  <2> QED
    BY <1>5, <2>2, <2>4, <2>5
<1>9. ASSUME NEW t \in Hilos, Contesta(t) PROVE FALSE
  <2>1. hilo[t].pc = "responde" /\ \A s \in Hilos \ {t} : hilo'[s] = hilo[s]
    BY <1>1, <1>9, ContestaEs
  <2>2. ASSUME NEW d \in Clientes, turno[d] = t, Recibe(d, hilo[t].ret),
               turno' = [turno EXCEPT ![d] = Nada]
        PROVE  FALSE
    <3> DEFINE ret == hilo[t].ret
    <3>1. \A e \in Clientes \ {d} : cliente'[e] = cliente[e] /\ turno'[e] = turno[e]
      BY <1>1, <2>2, RecibeEs DEF EnlaceInv, STypeOK
    <3>2. CASE d # c
      <4>1. turno[c] # t
        BY <1>1, <2>2, <3>2, SistemaAssumption DEF EnlaceInv, EsperasInv
      <4> QED
        BY <1>4, <1>6, <2>1, <3>1, <3>2, <4>1 DEF Igual
    <3>3. CASE d = c
      <4>1. /\ k.pc = "espera"
            /\ m.pc = IF Desconecta(k, ret) THEN "cierra"
                      ELSE IF k.op = "QUIT" THEN "saliendo" ELSE "shell"
            /\ m.sesion = IF Conecta(k, ret) THEN k.nombre ELSE k.sesion
            /\ m.socket = IF k.op = "CONNECT" /\ ~Conecta(k, ret) THEN Nada
                          ELSE k.socket
        BY <1>1, <2>2, <3>3, RecibeEs
      <4>2. ~Desconecta(k, ret)
        BY <1>2, <2>1, <2>2, <3>3, <4>1 DEF SeDesconecta, En, Desconecta
      <4>3. ~SeDesconecta(c)'
        BY <4>1, <4>2 DEF SeDesconecta, En
      <4>4. CASE k.sesion # Nada
        BY <1>3, <1>5, <4>1, <4>3, <4>4 DEF Conecta
      <4>5. CASE k.sesion = Nada
        <5>1. Conecta(k, ret) /\ Leido[k.nombre] = v /\ k.nombre \in Nombres
          BY <1>2, <1>4, <2>2, <3>3, <4>1, <4>5 DEF Conecta, Pedida
        <5>2. m.sesion # Nada /\ Leido[m.sesion] = v /\ m.socket = k.socket
          BY <4>1, <5>1, ClienteAssumption
        <5> QED
          BY <1>2, <4>3, <5>2 DEF Suyo
      <4> QED
        BY <4>4, <4>5
    <3> QED
      BY <3>2, <3>3
  <2>3. CASE (\A d \in Clientes : turno[d] # t) /\ UNCHANGED <<cvars, turno>>
    BY <1>4, <1>6, <2>1, <2>3 DEF cvars, Igual
  <2> QED
    BY <1>9, <2>2, <2>3 DEF Contesta
<1>10. ASSUME NEW d \in Clientes, Solo(d) PROVE FALSE
  <2>1. UNCHANGED <<turno, hilo>> /\ Sesion(d)
    BY <1>10 DEF Solo, servidor
  <2>2. Igual(c)
    <3>1. Cierra(d) => d # c /\ cliente'[c] = cliente[c]
      BY <1>1, <1>2, CierraEs
    <3> QED
      BY <1>1, <2>1, <3>1, SesionIgual DEF Igual
  <2> QED
    BY <1>6, <2>1, <2>2
<1>11. ASSUME NEW d \in Clientes, Acaba(d) \/ ClienteCae(d)
       PROVE  /\ m.pc = "fuera"
              /\ En(c, "saliendo") => c \in expulsados \/ v \in dudosos
  <2>1. /\ cliente'[d] = Apagado /\ \A e \in Clientes \ {d} : Igual(e)
        /\ UNCHANGED hilo
        /\ \A e \in Clientes \ {d} : turno'[e] = turno[e]
    BY <1>1, <1>11, FinEs, DesapareceEs DEF servidor
  <2>2. d = c
    BY <1>6, <2>1
  <2>3. En(c, "saliendo") => Rechazado(c) /\ Leido[k.sesion] = v
    BY <1>2 DEF Rechazado, En
  <2> QED
    BY <2>1, <2>2, <2>3, ApagadoEs, RechazoMotivo
<1>12. CASE ServidorCae
  <2>1. ~vivo'
    BY <1>1, <1>12, ServidorCaeEs
  <2>2. ASSUME k.sesion # Nada PROVE FALSE
    <3>1. /\ m.sesion = k.sesion
          /\ IF k.pc \in {"espera", "consulta"}
             THEN /\ m.pc \in {"colgado", "shell"}
                  /\ m.socket = IF k.op = "CONNECT" THEN Nada ELSE k.socket
             ELSE m = k
      BY <1>1, <1>12, PierdeEs DEF ServidorCae
    <3>2. m.socket = k.socket /\ m.pc \notin {"espera", "cierra"}
      BY <1>2, <1>3, <2>2, <3>1
    <3> QED
      BY <1>5, <2>2, <3>1, <3>2 DEF SeDesconecta, En
  <2> QED
    BY <2>1, <2>2
<1>13. CASE UNCHANGED <<cliente, turno, hilo>>
  BY <1>6, <1>13 DEF Igual
<1>14. ASSUME NEW d \in Clientes, Visita(d) PROVE UNCHANGED <<cliente, turno, hilo>>
  BY <1>1, <1>14, VisitaEs DEF servidor
<1>15. CASE ServidorArranca
  BY <1>13, <1>15, ServidorArrancaEs DEF cvars
<1>16. CASE UNCHANGED svars
  BY <1>13, <1>16 DEF svars, cvars, servidor
<1> QED
  BY <1>7, <1>8, <1>9, <1>10, <1>11, <1>12, <1>13, <1>14, <1>15, <1>16 DEF SNext

-----------------------------------------------------------------------------
\* However commands, the server's calls on files, answers and falls interleave,
\* the record of a user belongs to one session or to one request at most, which
\* knows what it holds; unless two CONNECTs of that user have both found no
\* record (servidor.c:259, 268), or a DISCONNECT of it ended with an exception
\* at its client (client.py:235-246).  A session's user is registered, and no
\* DISCONNECT is refused, unless it has been unregistered from elsewhere.
THEOREM SistemaInvariant == SSpec => []SistemaInv
BY SistemaInit, SistemaStep, PTL DEF SSpec

\* The types of both sides: what the clients keep, what the server keeps, and
\* which thread has the request of which client (client.py:80-640,
\* servidor.c:73-345).
THEOREM SistemaTypes == SSpec => []STypeOK
<1>1. SistemaInv => STypeOK
  BY DEF SistemaInv, EnlaceInv
<1> QED
  BY <1>1, SistemaInvariant, PTL

\* Whoever has a session has its record at the server, with the address where
\* its thread listens, until it disconnects; unless two CONNECTs of that user
\* have both found no record (servidor.c:259, 268), or a DISCONNECT of it ended
\* with an exception at some client (client.py:235-246).
THEOREM SessionsHaveRecords == SSpec => []SessionHasRecord
<1>1. SistemaInv => SessionHasRecord
  <2> SUFFICES ASSUME SistemaInv, NEW c \in Clientes, cliente[c].sesion # Nada,
                      Leido[cliente[c].sesion] \notin dudosos, ~SeDesconecta(c)
               PROVE  conectados[Leido[cliente[c].sesion]] = cliente[c].socket
    BY DEF SessionHasRecord
  <2> DEFINE v == Leido[cliente[c].sesion]
  <2>1. v \in Usuarios
    <3>1. cliente[c].sesion \in Nombres
      BY DEF SistemaInv, EnlaceInv, ClienteInv, CTypeOK, Procesos
    <3> QED
      BY <3>1, SistemaAssumption
  <2>2. Dueno(v) /\ DeSesion(c, v)
    BY <2>1 DEF SistemaInv, DuenosInv, DeSesion
  <2> QED
    BY <2>2 DEF Dueno
<1> QED
  BY <1>1, SistemaInvariant, PTL

\* The server removes a record only for the DISCONNECT of the session whose
\* address it holds, even when the request outlives its client or runs beside
\* others of that user (client.py:219-224, servidor.c:340); with the exceptions
\* of SessionsHaveRecords.
THEOREM RecordsRemovedByOwner == SSpec => RemovedByOwner
<1>1. SistemaInv /\ [SNext]_svars => [Quitado]_svars
  BY QuitadoStep
<1>2. RemovedByOwner <=> [][Quitado]_svars
  BY PTL DEF RemovedByOwner, Quitado
<1> QED
  BY <1>1, <1>2, SistemaInvariant, PTL DEF SSpec

\* A record is left without a session, so that its user cannot connect any
\* more, only when the server falls before its answer to the CONNECT
\* (servidor.c:268, 304; client.py:158-175), when the client's process is
\* killed, or when its user has been unregistered from elsewhere and its QUIT
\* refused (client.py:567-569); with the exceptions of SessionsHaveRecords.
THEOREM OrphansAlwaysExplained == SSpec => OrphansExplained
<1>1. SistemaInv /\ [SNext]_svars => [Abandonado]_svars
  BY AbandonadoStep
<1>2. OrphansExplained <=> [][Abandonado]_svars
  BY PTL DEF OrphansExplained, Abandonado
<1> QED
  BY <1>1, <1>2, SistemaInvariant, PTL DEF SSpec
=============================================================================
