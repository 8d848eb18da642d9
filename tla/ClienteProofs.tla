---------------------------- MODULE ClienteProofs ----------------------------
(***************************************************************************)
(* Proofs about Cliente, for every set of clients, names and addresses and *)
(* every answer that the server may give: the types, that each call that   *)
(* waits or is served is one that its caller is in, and that a session has *)
(* one thread on its socket.                                               *)
(***************************************************************************)
EXTENDS Cliente, TLAPS

\* A caller waits at one place of one queue.
EnUnaCola ==
  \A c \in Clientes, p, q \in Puertos :
    \A i \in DOMAIN cola[p], j \in DOMAIN cola[q] :
      cola[p][i] = c /\ cola[q][j] = c => p = q /\ i = j

\* A CONNECT that waits for its answer has a socket and no session yet.
Conectandose ==
  \A c \in Clientes : cliente[c].op = "CONNECT" =>
    /\ cliente[c].pc = "espera" /\ cliente[c].sesion = Nada
    /\ cliente[c].socket \in Puertos /\ cliente[c].nombre \in Nombres

\* Two clients have different sockets, and a socket that listens is that of a
\* session.
SocketPropio ==
  /\ \A c, d \in Clientes :
       cliente[c].socket = cliente[d].socket /\ c # d => cliente[c].socket = Nada
  /\ \A p \in escuchando : \E c \in Clientes :
       cliente[c].socket = p /\ cliente[c].sesion # Nada

\* A thread that has not started has a socket that does not listen yet.
ArrancaSorda ==
  \A c \in Clientes : \A h \in oyentes[c] : h.pc = "arranca" =>
    h.sd # Nada /\ h.sd \notin escuchando

LlamadasInv == CallsMatch /\ EnUnaCola
SesionInv == OneListener /\ Conectandose /\ SocketPropio /\ ArrancaSorda
ClienteInv == CTypeOK /\ LlamadasInv /\ SesionInv

EnLlamada(c) == cliente[c].pc \in {"llama", "pide"}

-----------------------------------------------------------------------------
\* Calls are kept by a step that adds no caller, to a queue or to a thread, and
\* in which nobody who is in a call leaves it while the other side has it.
LEMMA LlamadasSiguen ==
  ASSUME LlamadasInv,
         \A p \in Puertos : cola'[p] # <<>> => p \in escuchando',
         \A p \in Puertos : \A i \in DOMAIN cola'[p] : cola'[p][i] \in Clientes =>
           i \in DOMAIN cola[p] /\ cola[p][i] = cola'[p][i],
         \A d \in Clientes : \A h \in oyentes'[d] : h.par \in Clientes =>
           \E g \in oyentes[d] : g.par = h.par,
         \A d \in Clientes : \A h, i \in oyentes'[d] :
           h.par = i.par /\ h.par \in Clientes => h = i,
         \A c \in Clientes : EnLlamada(c) =>
           \/ EnLlamada(c)'
           \/ ~Servido(c)' /\ \A p \in Puertos : ~EnCola(c, p)'
  PROVE  LlamadasInv'
<1>1. \A c \in Clientes, p \in Puertos : EnCola(c, p)' => EnCola(c, p)
  BY DEF EnCola
<1>2. \A c \in Clientes : Servido(c)' => Servido(c)
  BY DEF Servido
<1>3. \A c \in Clientes : Servido(c)' \/ (\E p \in Puertos : EnCola(c, p)') =>
        EnLlamada(c)'
  BY <1>1, <1>2 DEF LlamadasInv, CallsMatch, EnLlamada
<1>4. ASSUME NEW c \in Clientes, NEW d \in Clientes, NEW h \in oyentes'[d],
             h.par = c
      PROVE  /\ \A p \in Puertos : ~EnCola(c, p)'
             /\ \A e \in Clientes : \A i \in oyentes'[e] :
                  i.par = c => e = d /\ i = h
  <2>1. PICK g \in oyentes[d] : g.par = c
    BY <1>4
  <2>2. /\ \A p \in Puertos : ~EnCola(c, p)
        /\ \A e \in Clientes : \A i \in oyentes[e] : i.par = c => e = d /\ i = g
    BY <2>1 DEF LlamadasInv, CallsMatch
  <2>3. ASSUME NEW e \in Clientes, NEW i \in oyentes'[e], i.par = c
        PROVE  e = d /\ i = h
    <3>1. PICK j \in oyentes[e] : j.par = c
      BY <2>3
    <3>2. e = d
      BY <2>2, <3>1
    <3> QED
      BY <1>4, <2>3, <3>2
  <2> QED
    BY <1>1, <2>2, <2>3
<1>5. CallsMatch'
  BY <1>3, <1>4 DEF CallsMatch, EnLlamada
<1>6. EnUnaCola'
  BY DEF LlamadasInv, EnUnaCola
<1> QED
  BY <1>5, <1>6 DEF LlamadasInv

\* Sessions are kept by a step that opens no socket and starts no thread: each
\* client keeps its session, or has none, or ends it with all its sockets.
LEMMA SesionesSiguen ==
  ASSUME SesionInv,
         escuchando' \subseteq escuchando,
         \A d \in Clientes : cliente'[d].op = "CONNECT" =>
           /\ cliente[d].op = "CONNECT" /\ cliente'[d].pc = "espera"
           /\ cliente'[d].nombre = cliente[d].nombre
           /\ cliente'[d].sesion = cliente[d].sesion
           /\ cliente'[d].socket = cliente[d].socket,
         \A d \in Clientes : cliente'[d].socket \in {cliente[d].socket, Nada},
         \A d \in Clientes :
           \/ /\ cliente'[d].sesion = cliente[d].sesion
              /\ cliente'[d].socket = cliente[d].socket
           \/ cliente[d].sesion = Nada /\ cliente'[d].sesion = Nada
           \/ /\ cliente[d].socket \notin escuchando'
              /\ \A h \in oyentes'[d] : h.sd = Nada,
         \A d \in Clientes : \A h \in oyentes'[d] :
           /\ h.sd # Nada => \E g \in oyentes[d] : g.sd = h.sd
           /\ h.pc = "arranca" =>
                \E g \in oyentes[d] : g.sd = h.sd /\ g.pc = "arranca",
         \A d \in Clientes : \A h, i \in oyentes'[d] :
           h.sd = i.sd /\ h.sd # Nada => h = i
  PROVE  SesionInv'
<1>1. OneListener'
  <2> SUFFICES ASSUME NEW d \in Clientes, NEW h \in oyentes'[d], h.sd # Nada
               PROVE  /\ h.sd = cliente'[d].socket /\ cliente'[d].sesion # Nada
                      /\ \A i \in oyentes'[d] : i.sd = h.sd => i = h
    BY DEF OneListener
  <2>1. h.sd = cliente[d].socket /\ cliente[d].sesion # Nada
    BY DEF SesionInv, OneListener
  <2> QED
    BY <2>1
<1>2. Conectandose'
  BY DEF SesionInv, Conectandose
<1>3. SocketPropio'
  <2>1. \A c, d \in Clientes : cliente'[c].socket = cliente'[d].socket /\ c # d =>
          cliente'[c].socket = Nada
    BY DEF SesionInv, SocketPropio
  <2>2. ASSUME NEW p \in escuchando'
        PROVE  \E c \in Clientes : cliente'[c].socket = p /\ cliente'[c].sesion # Nada
    BY DEF SesionInv, SocketPropio
  <2> QED
    BY <2>1, <2>2 DEF SocketPropio
<1>4. ArrancaSorda'
  BY DEF SesionInv, ArrancaSorda
<1> QED
  BY <1>1, <1>2, <1>3, <1>4 DEF SesionInv

-----------------------------------------------------------------------------
\* What a step of c's shell that only moves it on leaves as it is.
Mueve(c, pc, p) ==
  /\ cliente' \in [Clientes -> Procesos]
  /\ cliente'[c].pc = pc /\ cliente'[c].destino = p
  /\ cliente'[c].op = cliente[c].op /\ cliente'[c].nombre = cliente[c].nombre
  /\ cliente'[c].sesion = cliente[c].sesion
  /\ cliente'[c].socket = cliente[c].socket
  /\ \A d \in Clientes \ {c} : cliente'[d] = cliente[d]

LEMMA PasaMueve ==
  ASSUME CTypeOK, NEW c \in Clientes, NEW pc \in ShellPCs, Pasa(c, pc)
  PROVE  Mueve(c, pc, cliente[c].destino)
BY DEF CTypeOK, Pasa, Procesos, Mueve

LEMMA DestinoMueve ==
  ASSUME CTypeOK, NEW c \in Clientes, NEW pc \in ShellPCs,
         NEW p \in Puertos \cup {Nada},
         cliente' = [cliente EXCEPT ![c].pc = pc, ![c].destino = p]
  PROVE  Mueve(c, pc, p)
<1> DEFINE m == [cliente[c] EXCEPT !.pc = pc, !.destino = p]
<1>1. /\ m \in Procesos /\ m.pc = pc /\ m.destino = p
      /\ m.op = cliente[c].op /\ m.nombre = cliente[c].nombre
      /\ m.sesion = cliente[c].sesion /\ m.socket = cliente[c].socket
  <2>1. cliente[c] \in Procesos
    BY DEF CTypeOK
  <2> QED
    BY <2>1 DEF Procesos
<1>2. cliente' = [cliente EXCEPT ![c] = m]
  BY DEF CTypeOK, Procesos
<1> HIDE DEF m
<1> QED
  BY <1>1, <1>2 DEF CTypeOK, Mueve

\* A process that takes another state.
LEMMA OtroEstado ==
  ASSUME CTypeOK, NEW c \in Clientes, NEW m \in Procesos,
         cliente' = [cliente EXCEPT ![c] = m]
  PROVE  /\ cliente' \in [Clientes -> Procesos]
         /\ cliente'[c] = m
         /\ \A d \in Clientes \ {c} : cliente'[d] = cliente[d]
BY DEF CTypeOK

\* The sockets stay as they are, and so do sessions, but that a socket without
\* a session may be given up.
LEMMA RedSigue ==
  ASSUME ClienteInv, cliente' \in [Clientes -> Procesos], RedQuieta,
         \A d \in Clientes : cliente'[d].op = "CONNECT" =>
           /\ cliente[d].op = "CONNECT" /\ cliente'[d].pc = "espera"
           /\ cliente'[d].nombre = cliente[d].nombre
           /\ cliente'[d].socket = cliente[d].socket,
         \A d \in Clientes :
           /\ cliente'[d].sesion = cliente[d].sesion
           /\ \/ cliente'[d].socket = cliente[d].socket
              \/ cliente'[d].socket = Nada /\ cliente[d].sesion = Nada,
         \A c \in Clientes : EnLlamada(c) =>
           \/ EnLlamada(c)'
           \/ ~Servido(c) /\ \A p \in Puertos : ~EnCola(c, p)
  PROVE  ClienteInv'
<1>1. UNCHANGED <<oyentes, escuchando, cola>>
  BY DEF RedQuieta
<1>2. CTypeOK'
  BY <1>1 DEF ClienteInv, CTypeOK
<1>3. \A c \in Clientes : /\ Servido(c)' = Servido(c)
                          /\ \A p \in Puertos : EnCola(c, p)' = EnCola(c, p)
  BY <1>1 DEF Servido, EnCola
<1>4. \A p \in Puertos : cola'[p] # <<>> => p \in escuchando'
  BY <1>1 DEF ClienteInv, LlamadasInv, CallsMatch
<1>5. \A d \in Clientes : \A h, i \in oyentes'[d] :
        h.par = i.par /\ h.par \in Clientes => h = i
  BY <1>1 DEF ClienteInv, LlamadasInv, CallsMatch
<1>6. LlamadasInv'
  BY <1>1, <1>3, <1>4, <1>5, LlamadasSiguen DEF ClienteInv
<1>7. \A d \in Clientes : \A h, i \in oyentes'[d] :
        h.sd = i.sd /\ h.sd # Nada => h = i
  BY <1>1 DEF ClienteInv, SesionInv, OneListener
<1>8. SesionInv'
  BY <1>1, <1>7, SesionesSiguen DEF ClienteInv
<1> QED
  BY <1>2, <1>6, <1>8 DEF ClienteInv

\* One shell moves on.
LEMMA MueveSigue ==
  ASSUME ClienteInv, NEW c \in Clientes, NEW pc, NEW p, Mueve(c, pc, p),
         RedQuieta, cliente[c].pc # "espera",
         EnLlamada(c) => \/ pc \in {"llama", "pide"}
                         \/ ~Servido(c) /\ \A q \in Puertos : ~EnCola(c, q)
  PROVE  ClienteInv'
<1>1. cliente[c].op # "CONNECT"
  BY DEF ClienteInv, SesionInv, Conectandose
<1>2. \A d \in Clientes \ {c} : cliente'[d] = cliente[d]
  BY DEF Mueve
<1>3. \A d \in Clientes : cliente'[d].op = "CONNECT" =>
        /\ d # c /\ cliente[d].op = "CONNECT" /\ cliente'[d].pc = "espera"
        /\ cliente'[d].nombre = cliente[d].nombre
        /\ cliente'[d].socket = cliente[d].socket
  BY <1>1, <1>2 DEF Mueve, ClienteInv, SesionInv, Conectandose
<1>4. \A d \in Clientes : /\ cliente'[d].sesion = cliente[d].sesion
                          /\ cliente'[d].socket = cliente[d].socket
  BY DEF Mueve
<1>5. ASSUME NEW d \in Clientes, EnLlamada(d)
      PROVE  \/ EnLlamada(d)'
             \/ ~Servido(d) /\ \A q \in Puertos : ~EnCola(d, q)
  BY <1>5 DEF Mueve, EnLlamada
<1>6. cliente' \in [Clientes -> Procesos]
  BY DEF Mueve
<1> QED
  BY <1>3, <1>4, <1>5, <1>6, RedSigue

LEMMA ArrancaKeeps ==
  ASSUME ClienteInv, NEW c \in Clientes, Arranca(c) PROVE ClienteInv'
<1>1. Mueve(c, "shell", cliente[c].destino)
  BY PasaMueve DEF Arranca, ClienteInv, ShellPCs
<1> QED
  BY <1>1, MueveSigue DEF Arranca, En, EnLlamada

LEMMA SaleKeeps ==
  ASSUME ClienteInv, NEW c \in Clientes, Sale(c) PROVE ClienteInv'
<1>1. Mueve(c, "saliendo", cliente[c].destino)
  BY PasaMueve DEF Sale, ClienteInv, ShellPCs
<1> QED
  BY <1>1, MueveSigue DEF Sale, En, EnLlamada

LEMMA ConsultaKeeps ==
  ASSUME ClienteInv, NEW c \in Clientes, Consulta(c) PROVE ClienteInv'
<1>1. Mueve(c, "consulta", cliente[c].destino)
  BY PasaMueve DEF Consulta, ClienteInv, ShellPCs
<1> QED
  BY <1>1, MueveSigue DEF Consulta, En, EnLlamada

LEMMA InformaKeeps ==
  ASSUME ClienteInv, NEW c \in Clientes, NEW p \in Puertos \cup {Nada},
         Informa(c, p)
  PROVE  ClienteInv'
<1> DEFINE pc == IF p = Nada THEN "shell" ELSE "marca"
<1>1. pc \in ShellPCs
  BY DEF ShellPCs
<1>2. Mueve(c, pc, p)
  BY <1>1, DestinoMueve DEF Informa, ClienteInv
<1> QED
  BY <1>2, MueveSigue DEF Informa, En, EnLlamada

LEMMA PideKeeps ==
  ASSUME ClienteInv, NEW c \in Clientes, Pide(c) PROVE ClienteInv'
<1>1. Mueve(c, "pide", cliente[c].destino)
  BY PasaMueve DEF Pide, ClienteInv, ShellPCs
<1> QED
  BY <1>1, MueveSigue DEF Pide, En, EnLlamada

LEMMA CortadaKeeps ==
  ASSUME ClienteInv, NEW c \in Clientes, Cortada(c) PROVE ClienteInv'
<1>1. Mueve(c, "shell", Nada)
  BY DestinoMueve DEF Cortada, ClienteInv, ShellPCs
<1> QED
  BY <1>1, MueveSigue DEF Cortada, En, EnLlamada

\* connect() to another client: its queue takes the call, or nobody listens.
LEMMA MarcaKeeps ==
  ASSUME ClienteInv, NEW c \in Clientes, Marca(c) PROVE ClienteInv'
<1> DEFINE p == cliente[c].destino
<1>1. CASE RedQuieta /\ cliente' = [cliente EXCEPT ![c].pc = "shell",
                                                   ![c].destino = Nada]
  <2>1. Mueve(c, "shell", Nada)
    BY <1>1, DestinoMueve DEF ClienteInv, ShellPCs
  <2> QED
    BY <1>1, <2>1, MueveSigue DEF Marca, En, EnLlamada
<1>2. CASE /\ En(c, "marca") /\ p \in escuchando
           /\ Pasa(c, "llama")
           /\ cola' = [cola EXCEPT ![p] = Append(@, c)]
           /\ UNCHANGED <<oyentes, escuchando>>
  <2>1. Mueve(c, "llama", p)
    BY <1>2, PasaMueve DEF ClienteInv, ShellPCs
  <2>2. p \in Puertos /\ cola[p] \in Seq(Llamantes) /\ c \in Llamantes
    BY <1>2 DEF ClienteInv, CTypeOK, Llamantes
  <2> DEFINE n == Len(cola[p]) + 1
  <2>3. /\ cola'[p] \in Seq(Llamantes) /\ n \in DOMAIN cola'[p]
        /\ n \notin DOMAIN cola[p] /\ cola'[p][n] = c /\ cola'[p] # <<>>
        /\ \A i \in DOMAIN cola'[p] : i # n =>
             i \in DOMAIN cola[p] /\ cola'[p][i] = cola[p][i]
        /\ \A q \in Puertos \ {p} : cola'[q] = cola[q]
    <3>1. cola'[p] = Append(cola[p], c) /\ \A q \in Puertos \ {p} : cola'[q] = cola[q]
      BY <1>2, <2>2 DEF ClienteInv, CTypeOK
    <3> QED
      BY <2>2, <3>1
  <2> HIDE DEF p, n
  <2>4. CTypeOK'
    BY <1>2, <2>1, <2>2, <2>3 DEF ClienteInv, CTypeOK, Mueve
  <2>5. ~Servido(c) /\ \A q \in Puertos : ~EnCola(c, q)
    BY <1>2 DEF ClienteInv, LlamadasInv, CallsMatch, En
  <2>6. \A d \in Clientes, q \in Puertos : EnCola(d, q)' => EnCola(d, q) \/ d = c
    BY <2>3 DEF EnCola
  <2>7. \A d \in Clientes : Servido(d)' = Servido(d)
    BY <1>2 DEF Servido
  <2>8. \A q \in Puertos : cola'[q] # <<>> => q \in escuchando'
    BY <1>2, <2>3 DEF ClienteInv, LlamadasInv, CallsMatch
  <2>9. \A d \in Clientes : Servido(d)' \/ (\E q \in Puertos : EnCola(d, q)') =>
          cliente'[d].pc \in {"llama", "pide"}
    BY <2>1, <2>6, <2>7 DEF ClienteInv, LlamadasInv, CallsMatch, Mueve
  <2>10. ASSUME NEW a \in Clientes, NEW d \in Clientes, NEW h \in oyentes'[d],
                h.par = a
         PROVE  /\ \A q \in Puertos : ~EnCola(a, q)'
                /\ \A e \in Clientes : \A i \in oyentes'[e] :
                     i.par = a => e = d /\ i = h
    <3>1. h \in oyentes[d] /\ a # c
      BY <1>2, <2>5, <2>10 DEF Servido
    <3> QED
      BY <1>2, <2>6, <2>10, <3>1 DEF ClienteInv, LlamadasInv, CallsMatch
  <2>11. CallsMatch'
    BY <2>8, <2>9, <2>10 DEF CallsMatch
  <2>12. EnUnaCola'
    <3> SUFFICES ASSUME NEW a \in Clientes, NEW q \in Puertos, NEW r \in Puertos,
                        NEW i \in DOMAIN cola'[q], NEW j \in DOMAIN cola'[r],
                        cola'[q][i] = a, cola'[r][j] = a
                 PROVE  q = r /\ i = j
      BY DEF EnUnaCola
    <3>1. CASE a = c
      <4>1. ASSUME NEW s \in Puertos, NEW k \in DOMAIN cola'[s], cola'[s][k] = c
            PROVE  s = p /\ k = n
        BY <2>3, <2>5, <4>1 DEF EnCola
      <4> QED
        BY <3>1, <4>1
    <3>2. CASE a # c
      <4>1. ASSUME NEW s \in Puertos, NEW k \in DOMAIN cola'[s], cola'[s][k] = a
            PROVE  k \in DOMAIN cola[s] /\ cola[s][k] = a
        BY <2>3, <3>2, <4>1
      <4> QED
        BY <4>1 DEF ClienteInv, LlamadasInv, EnUnaCola
    <3> QED
      BY <3>1, <3>2
  <2>13. LlamadasInv'
    BY <2>11, <2>12 DEF LlamadasInv
  <2>14. cliente[c].op # "CONNECT"
    BY <1>2 DEF ClienteInv, SesionInv, Conectandose, En
  <2>15. /\ \A d \in Clientes : cliente'[d].op = "CONNECT" => cliente'[d] = cliente[d]
         /\ \A d \in Clientes : /\ cliente'[d].sesion = cliente[d].sesion
                                /\ cliente'[d].socket = cliente[d].socket
    BY <2>1, <2>14 DEF Mueve
  <2>16. Conectandose'
    BY <2>15 DEF ClienteInv, SesionInv, Conectandose
  <2>17. OneListener' /\ SocketPropio' /\ ArrancaSorda'
    BY <1>2, <2>15
    DEF ClienteInv, SesionInv, OneListener, SocketPropio, ArrancaSorda
  <2> QED
    BY <2>4, <2>13, <2>16, <2>17 DEF ClienteInv, SesionInv
<1> QED
  BY <1>1, <1>2 DEF Marca

\* A request to the server; CONNECT takes a socket that nobody has.
LEMMA EnviaKeeps ==
  ASSUME ClienteInv, NEW c \in Clientes, NEW op \in Ordenes, NEW n \in Nombres,
         Envia(c, op, n)
  PROVE  ClienteInv'
<1>1. PICK p \in IF op = "CONNECT" THEN Libres ELSE {cliente[c].socket} :
        cliente' = [cliente EXCEPT ![c] = [cliente[c] EXCEPT
                      !.pc = "espera", !.op = op, !.nombre = n, !.socket = p]]
  BY DEF Envia
<1> DEFINE m == [cliente[c] EXCEPT !.pc = "espera", !.op = op, !.nombre = n,
                                   !.socket = p]
<1>2. cliente[c] \in Procesos
  BY DEF ClienteInv, CTypeOK
<1>3. p \in Puertos \cup {Nada}
  BY <1>1, <1>2 DEF Libres, Procesos
<1>4. /\ m \in Procesos /\ m.pc = "espera" /\ m.op = op /\ m.nombre = n
      /\ m.socket = p /\ m.sesion = cliente[c].sesion
  BY <1>2, <1>3 DEF Procesos, ShellPCs
<1>5. cliente' = [cliente EXCEPT ![c] = m]
  BY <1>1
<1> HIDE DEF m
<1>6. /\ cliente' \in [Clientes -> Procesos] /\ cliente'[c] = m
      /\ \A d \in Clientes \ {c} : cliente'[d] = cliente[d]
  BY <1>4, <1>5, OtroEstado DEF ClienteInv
<1>7. cliente[c].pc = "shell" /\ RedQuieta
  BY DEF Envia, En
<1>8. CASE op # "CONNECT"
  <2>1. \A d \in Clientes : cliente'[d].op = "CONNECT" =>
          /\ cliente[d].op = "CONNECT" /\ cliente'[d].pc = "espera"
          /\ cliente'[d].nombre = cliente[d].nombre
          /\ cliente'[d].socket = cliente[d].socket
    BY <1>4, <1>6, <1>8 DEF ClienteInv, SesionInv, Conectandose
  <2>2. \A d \in Clientes : /\ cliente'[d].sesion = cliente[d].sesion
                            /\ cliente'[d].socket = cliente[d].socket
    BY <1>1, <1>4, <1>6, <1>8
  <2>3. \A d \in Clientes : EnLlamada(d) => EnLlamada(d)'
    BY <1>6, <1>7 DEF EnLlamada
  <2> QED
    BY <1>6, <1>7, <2>1, <2>2, <2>3, RedSigue
<1>9. CASE op = "CONNECT"
  <2>1. /\ cliente[c].sesion = Nada
        /\ p \in Puertos /\ \A d \in Clientes : cliente[d].socket # p
    BY <1>1, <1>9 DEF Envia, Admite, Libres
  <2>2. UNCHANGED <<oyentes, escuchando, cola>>
    BY <1>7 DEF RedQuieta
  <2>3. CTypeOK'
    BY <1>6, <2>2 DEF ClienteInv, CTypeOK
  <2>4. \A d \in Clientes : EnLlamada(d) => EnLlamada(d)'
    BY <1>6, <1>7 DEF EnLlamada
  <2>5. /\ \A q \in Puertos : cola'[q] # <<>> => q \in escuchando'
        /\ \A d \in Clientes : \A h, i \in oyentes'[d] :
             h.par = i.par /\ h.par \in Clientes => h = i
    BY <2>2 DEF ClienteInv, LlamadasInv, CallsMatch
  <2>6. LlamadasInv'
    BY <2>2, <2>4, <2>5, LlamadasSiguen DEF ClienteInv
  <2>7. \A d \in Clientes : \A h \in oyentes'[d] : h.sd # Nada => d # c
    BY <2>1, <2>2 DEF ClienteInv, SesionInv, OneListener
  <2>8. OneListener'
    BY <1>6, <2>2, <2>7 DEF ClienteInv, SesionInv, OneListener
  <2>9. Conectandose'
    BY <1>4, <1>6, <2>1 DEF ClienteInv, SesionInv, Conectandose
  <2>10. SocketPropio'
    <3>1. \A d, e \in Clientes : cliente'[d].socket = cliente'[e].socket /\ d # e
            => cliente'[d].socket = Nada
      BY <1>4, <1>6, <2>1 DEF ClienteInv, SesionInv, SocketPropio
    <3>2. ASSUME NEW q \in escuchando
          PROVE  \E d \in Clientes :
                   cliente'[d].socket = q /\ cliente'[d].sesion # Nada
      <4>1. PICK d \in Clientes : cliente[d].socket = q /\ cliente[d].sesion # Nada
        BY DEF ClienteInv, SesionInv, SocketPropio
      <4> QED
        BY <1>6, <2>1, <4>1
    <3> QED
      BY <2>2, <3>1, <3>2 DEF SocketPropio
  <2>11. ArrancaSorda'
    BY <2>2 DEF ClienteInv, SesionInv, ArrancaSorda
  <2> QED
    BY <2>3, <2>6, <2>8, <2>9, <2>10, <2>11 DEF ClienteInv, SesionInv
<1> QED
  BY <1>8, <1>9

\* The server answers.
LEMMA RecibeKeeps ==
  ASSUME ClienteInv, NEW c \in Clientes, NEW ret, Recibe(c, ret)
  PROVE  ClienteInv'
<1> DEFINE k == cliente[c]
           o == IF k.op = "QUIT" THEN k.op ELSE ""
           pc == IF Desconecta(k, ret) THEN "cierra"
                 ELSE IF k.op = "QUIT" THEN "saliendo" ELSE "shell"
           se == IF Conecta(k, ret) THEN k.nombre ELSE k.sesion
           so == IF k.op = "CONNECT" /\ ~Conecta(k, ret) THEN Nada ELSE k.socket
           m == [k EXCEPT !.op = o, !.nombre = Nada, !.pc = pc, !.sesion = se,
                          !.socket = so]
<1>1. k \in Procesos
  BY DEF ClienteInv, CTypeOK
<1>2. /\ m \in Procesos
      /\ m.pc \in {"cierra", "saliendo", "shell"} /\ m.op # "CONNECT"
      /\ m.sesion = IF Conecta(k, ret) THEN k.nombre ELSE k.sesion
      /\ m.socket = IF k.op = "CONNECT" /\ ~Conecta(k, ret) THEN Nada ELSE k.socket
  <2>1. /\ o \in Ordenes \cup {""} /\ o # "CONNECT"
        /\ pc \in {"cierra", "saliendo", "shell"} /\ pc \in ShellPCs
        /\ se \in Nombres \cup {Nada} /\ so \in Puertos \cup {Nada}
    BY <1>1 DEF Procesos, ShellPCs
  <2> HIDE DEF o, pc
  <2>2. /\ m \in Procesos /\ m.pc = pc /\ m.op = o /\ m.sesion = se
        /\ m.socket = so
    BY <1>1, <2>1 DEF Procesos
  <2> QED
    BY <2>1, <2>2
<1>3. cliente' = [cliente EXCEPT ![c] = m]
  BY DEF Recibe
<1>4. /\ k.pc = "espera" /\ UNCHANGED <<escuchando, cola>>
      /\ oyentes' = [oyentes EXCEPT ![c] = @ \cup NuevoOyente(k, ret)]
  BY DEF Recibe, En
<1> HIDE DEF m
<1>5. /\ cliente' \in [Clientes -> Procesos] /\ cliente'[c] = m
      /\ \A d \in Clientes \ {c} : cliente'[d] = cliente[d]
  BY <1>2, <1>3, OtroEstado DEF ClienteInv
<1>6. CASE ~Conecta(k, ret)
  <2>1. NuevoOyente(k, ret) = {}
    BY <1>6 DEF NuevoOyente
  <2>2. RedQuieta
    BY <1>4, <2>1 DEF RedQuieta, ClienteInv, CTypeOK
  <2>3. k.op = "CONNECT" => k.sesion = Nada
    BY DEF ClienteInv, SesionInv, Conectandose
  <2>4. \A d \in Clientes :
          /\ cliente'[d].sesion = cliente[d].sesion
          /\ \/ cliente'[d].socket = cliente[d].socket
             \/ cliente'[d].socket = Nada /\ cliente[d].sesion = Nada
    BY <1>2, <1>5, <1>6, <2>3
  <2>5. \A d \in Clientes : cliente'[d].op = "CONNECT" =>
          /\ cliente[d].op = "CONNECT" /\ cliente'[d].pc = "espera"
          /\ cliente'[d].nombre = cliente[d].nombre
          /\ cliente'[d].socket = cliente[d].socket
    BY <1>2, <1>5 DEF ClienteInv, SesionInv, Conectandose
  <2>6. \A d \in Clientes : EnLlamada(d) => EnLlamada(d)'
    BY <1>4, <1>5 DEF EnLlamada
  <2> QED
    BY <1>5, <2>2, <2>4, <2>5, <2>6, RedSigue
<1>7. CASE Conecta(k, ret)
  <2> DEFINE nuevo == [sd |-> k.socket, pc |-> "arranca", par |-> Nada]
  <2>1. /\ k.op = "CONNECT" /\ k.sesion = Nada /\ k.socket \in Puertos
        /\ k.socket # Nada
        /\ k.nombre \in Nombres /\ k.nombre # Nada
        /\ \A h \in oyentes[c] : h.sd = Nada
    BY <1>7, ClienteAssumption
    DEF Conecta, ClienteInv, SesionInv, Conectandose, OneListener
  <2>2. /\ oyentes'[c] = oyentes[c] \cup {nuevo}
        /\ \A d \in Clientes \ {c} : oyentes'[d] = oyentes[d]
        /\ oyentes' \in [Clientes -> SUBSET Oyentes]
    <3>1. nuevo \in Oyentes
      BY <2>1 DEF Oyentes, OyentePCs
    <3>2. oyentes' = [oyentes EXCEPT ![c] = oyentes[c] \cup {nuevo}]
      BY <1>4, <1>7 DEF NuevoOyente
    <3> HIDE DEF nuevo
    <3> QED
      BY <3>1, <3>2 DEF ClienteInv, CTypeOK
  <2>3. /\ m.sesion = k.nombre /\ m.socket = k.socket
    BY <1>2, <1>7
  <2>4. CTypeOK'
    BY <1>4, <1>5, <2>2 DEF ClienteInv, CTypeOK
  <2>5. nuevo.sd = k.socket /\ nuevo.pc = "arranca" /\ nuevo.par \notin Clientes
    BY ClienteAssumption
  <2> HIDE DEF k, nuevo
  <2>6. \A d \in Clientes : EnLlamada(d) => EnLlamada(d)'
    BY <1>4, <1>5 DEF EnLlamada, k
  <2>7. \A d \in Clientes : \A h \in oyentes'[d] :
          h \in oyentes[d] \/ (d = c /\ h = nuevo)
    BY <2>2
  <2>8. /\ \A q \in Puertos : cola'[q] # <<>> => q \in escuchando'
        /\ \A d \in Clientes : \A h, i \in oyentes'[d] :
             h.par = i.par /\ h.par \in Clientes => h = i
    BY <1>4, <2>5, <2>7 DEF ClienteInv, LlamadasInv, CallsMatch
  <2>9. LlamadasInv'
    BY <1>4, <2>5, <2>6, <2>7, <2>8, LlamadasSiguen DEF ClienteInv
  <2>10. OneListener'
    <3> SUFFICES ASSUME NEW d \in Clientes, NEW h \in oyentes'[d], h.sd # Nada
                 PROVE  /\ h.sd = cliente'[d].socket /\ cliente'[d].sesion # Nada
                        /\ \A i \in oyentes'[d] : i.sd = h.sd => i = h
      BY DEF OneListener
    <3>1. CASE d = c
      BY <1>5, <2>1, <2>3, <2>5, <2>7, <3>1
    <3>2. CASE d # c
      BY <1>5, <2>2, <3>2 DEF ClienteInv, SesionInv, OneListener
    <3> QED
      BY <3>1, <3>2
  <2>11. Conectandose'
    BY <1>2, <1>5 DEF ClienteInv, SesionInv, Conectandose
  <2>12. \A d \in Clientes : cliente'[d].socket = cliente[d].socket
    BY <1>5, <2>3 DEF k
  <2>13. \A d \in Clientes : cliente[d].sesion # Nada => cliente'[d].sesion # Nada
    BY <1>5, <2>1 DEF k
  <2>14. SocketPropio'
    BY <1>4, <2>12, <2>13 DEF ClienteInv, SesionInv, SocketPropio
  <2>15. k.socket \notin escuchando
    BY <2>1 DEF ClienteInv, SesionInv, SocketPropio, k
  <2>16. ArrancaSorda'
    BY <1>4, <2>1, <2>5, <2>7, <2>15 DEF ClienteInv, SesionInv, ArrancaSorda
  <2> QED
    BY <2>4, <2>9, <2>10, <2>11, <2>14, <2>16 DEF ClienteInv, SesionInv
<1> QED
  BY <1>6, <1>7

\* The server falls: those that wait for it go on, or read for ever.
LEMMA PierdeServidorKeeps ==
  ASSUME ClienteInv, PierdeServidor PROVE ClienteInv'
<1> DEFINE Esperan == {c \in Clientes : cliente[c].pc \in {"espera", "consulta"}}
<1>1. PICK S \in SUBSET Esperan :
        cliente' = [c \in Clientes |->
          IF c \notin Esperan THEN cliente[c]
          ELSE [cliente[c] EXCEPT
                  !.pc = IF c \in S THEN "colgado" ELSE "shell",
                  !.op = "", !.nombre = Nada,
                  !.socket = IF cliente[c].op = "CONNECT" THEN Nada ELSE @]]
  BY DEF PierdeServidor
<1>2. ASSUME NEW c \in Esperan
      PROVE  /\ cliente'[c] \in Procesos
             /\ cliente'[c].op = "" /\ cliente'[c].sesion = cliente[c].sesion
             /\ cliente'[c].socket = IF cliente[c].op = "CONNECT" THEN Nada
                                     ELSE cliente[c].socket
  <2> DEFINE k == cliente[c]
             m == [k EXCEPT !.pc = IF c \in S THEN "colgado" ELSE "shell",
                     !.op = "", !.nombre = Nada,
                     !.socket = IF k.op = "CONNECT" THEN Nada ELSE k.socket]
  <2>1. k \in Procesos
    BY DEF ClienteInv, CTypeOK
  <2>2. /\ m \in Procesos /\ m.op = "" /\ m.sesion = k.sesion
        /\ m.socket = IF k.op = "CONNECT" THEN Nada ELSE k.socket
    BY <2>1 DEF Procesos, ShellPCs
  <2>3. cliente'[c] = m
    BY <1>1
  <2> HIDE DEF m
  <2> QED
    BY <2>2, <2>3
<1>3. \A c \in Clientes : c \notin Esperan => cliente'[c] = cliente[c]
  BY <1>1
<1>4. cliente' \in [Clientes -> Procesos]
  <2>1. \A c \in Clientes : cliente'[c] \in Procesos
    BY <1>2, <1>3 DEF ClienteInv, CTypeOK
  <2>2. cliente' = [c \in Clientes |-> cliente'[c]]
    BY <1>1
  <2> HIDE DEF Esperan
  <2> QED
    BY <2>1, <2>2
<1>5. \A c \in Clientes : cliente'[c].op = "CONNECT" =>
        /\ cliente[c].op = "CONNECT" /\ cliente'[c].pc = "espera"
        /\ cliente'[c].nombre = cliente[c].nombre
        /\ cliente'[c].socket = cliente[c].socket
  BY <1>2, <1>3 DEF ClienteInv, SesionInv, Conectandose
<1>6. \A c \in Clientes :
        /\ cliente'[c].sesion = cliente[c].sesion
        /\ \/ cliente'[c].socket = cliente[c].socket
           \/ cliente'[c].socket = Nada /\ cliente[c].sesion = Nada
  BY <1>2, <1>3 DEF ClienteInv, SesionInv, Conectandose
<1>7. \A c \in Clientes : EnLlamada(c) => EnLlamada(c)'
  BY <1>3 DEF EnLlamada
<1>8. RedQuieta
  BY DEF PierdeServidor
<1> QED
  BY <1>4, <1>5, <1>6, <1>7, <1>8, RedSigue

\* The threads of c when its socket p is shut: each comes from one that was.
LEMMA CierraSocketOyentes ==
  ASSUME CTypeOK, NEW c \in Clientes, NEW p, CierraSocket(c, p)
  PROVE  /\ oyentes' \in [Clientes -> SUBSET Oyentes]
         /\ \A h \in oyentes'[c] : \E g \in oyentes[c] :
              h = [g EXCEPT !.sd = IF g.sd = p THEN Nada ELSE g.sd]
         /\ \A d \in Clientes \ {c} : oyentes'[d] = oyentes[d]
<1> DEFINE T == {[h EXCEPT !.sd = IF h.sd = p THEN Nada ELSE h.sd] :
                   h \in {i \in oyentes[c] : i.sd # p \/ i.pc # "acepta"}}
<1>1. oyentes' = [oyentes EXCEPT ![c] = T]
  BY DEF CierraSocket
<1>2. \A h \in T : \E g \in oyentes[c] :
        h = [g EXCEPT !.sd = IF g.sd = p THEN Nada ELSE g.sd]
  OBVIOUS
<1>3. oyentes[c] \subseteq Oyentes
  BY DEF CTypeOK
<1>4. T \subseteq Oyentes
  <2> SUFFICES ASSUME NEW h \in T PROVE h \in Oyentes
    OBVIOUS
  <2>1. PICK g \in oyentes[c] :
          h = [g EXCEPT !.sd = IF g.sd = p THEN Nada ELSE g.sd]
    BY <1>2
  <2>2. g \in Oyentes
    BY <1>3
  <2> HIDE DEF T
  <2> QED
    BY <2>1, <2>2 DEF Oyentes
<1> HIDE DEF T
<1> QED
  BY <1>1, <1>2, <1>4 DEF CTypeOK

\* The end of a session, or of an attempt to end it.
LEMMA CierraKeeps ==
  ASSUME ClienteInv, NEW c \in Clientes, Cierra(c) PROVE ClienteInv'
<1> DEFINE k == cliente[c]
<1>1. k \in Procesos /\ k.pc = "cierra"
  BY DEF ClienteInv, CTypeOK, Cierra, En
<1>2. CASE RedQuieta /\ cliente' = [cliente EXCEPT ![c] = [k EXCEPT
                                      !.pc = "shell", !.op = ""]]
  <2> DEFINE m == [k EXCEPT !.pc = "shell", !.op = ""]
  <2>1. /\ m \in Procesos /\ m.op = "" /\ m.sesion = k.sesion
        /\ m.socket = k.socket
    BY <1>1 DEF Procesos, ShellPCs
  <2>2. cliente' = [cliente EXCEPT ![c] = m]
    BY <1>2
  <2> HIDE DEF m
  <2>3. /\ cliente' \in [Clientes -> Procesos] /\ cliente'[c] = m
        /\ \A d \in Clientes \ {c} : cliente'[d] = cliente[d]
    BY <2>1, <2>2, OtroEstado DEF ClienteInv
  <2>4. \A d \in Clientes : cliente'[d].op = "CONNECT" =>
          /\ cliente[d].op = "CONNECT" /\ cliente'[d].pc = "espera"
          /\ cliente'[d].nombre = cliente[d].nombre
          /\ cliente'[d].socket = cliente[d].socket
    BY <2>1, <2>3 DEF ClienteInv, SesionInv, Conectandose
  <2>5. \A d \in Clientes : EnLlamada(d) => EnLlamada(d)'
    BY <1>1, <2>3 DEF EnLlamada
  <2>6. \A d \in Clientes : /\ cliente'[d].sesion = cliente[d].sesion
                            /\ cliente'[d].socket = cliente[d].socket
    BY <2>1, <2>3
  <2> QED
    BY <1>2, <2>3, <2>4, <2>5, <2>6, RedSigue
<1>3. CASE /\ k.socket \in escuchando /\ CierraSocket(c, k.socket)
           /\ cliente' = [cliente EXCEPT ![c] = [Apagado EXCEPT
                !.pc = IF k.op = "QUIT" THEN "saliendo" ELSE "shell"]]
  <2> DEFINE m == [Apagado EXCEPT
                     !.pc = IF k.op = "QUIT" THEN "saliendo" ELSE "shell"]
             p == k.socket
  <2>1. /\ m \in Procesos /\ m.op = "" /\ m.sesion = Nada /\ m.socket = Nada
    BY DEF Procesos, ShellPCs, Apagado
  <2>2. cliente' = [cliente EXCEPT ![c] = m]
    BY <1>3
  <2> HIDE DEF m
  <2>3. /\ cliente' \in [Clientes -> Procesos] /\ cliente'[c] = m
        /\ \A d \in Clientes \ {c} : cliente'[d] = cliente[d]
    BY <2>1, <2>2, OtroEstado DEF ClienteInv
  <2>4. /\ oyentes' \in [Clientes -> SUBSET Oyentes]
        /\ \A d \in Clientes \ {c} : oyentes'[d] = oyentes[d]
        /\ \A h \in oyentes'[c] : \E g \in oyentes[c] :
             h = [g EXCEPT !.sd = IF g.sd = p THEN Nada ELSE g.sd]
    BY <1>3, CierraSocketOyentes DEF ClienteInv
  <2>5. p \in Puertos /\ escuchando' = escuchando \ {p}
        /\ cola' = [cola EXCEPT ![p] = <<>>]
    BY <1>3 DEF CierraSocket, ClienteInv, CTypeOK
  <2> HIDE DEF p
  <2>6. cola'[p] = <<>> /\ \A q \in Puertos \ {p} : cola'[q] = cola[q]
    BY <2>5 DEF ClienteInv, CTypeOK
  <2>7. CTypeOK'
    BY <2>3, <2>4, <2>5 DEF ClienteInv, CTypeOK
  <2>8. \A g \in oyentes[c] :
          (g.sd = p \/ g.sd = Nada) /\ g.pc # "arranca" /\ g \in Oyentes
    BY <1>3 DEF ClienteInv, CTypeOK, SesionInv, OneListener, ArrancaSorda, p
  <2>9. \A h \in oyentes'[c] : \E g \in oyentes[c] :
          h.par = g.par /\ h.sd = Nada /\ h.pc # "arranca"
          /\ h = [g EXCEPT !.sd = IF g.sd = p THEN Nada ELSE g.sd]
    BY <2>4, <2>8 DEF Oyentes
  <2>10. \A d \in Clientes : EnLlamada(d) => EnLlamada(d)'
    BY <1>1, <2>3 DEF EnLlamada
  <2>11. \A d \in Clientes : \A h \in oyentes'[d] : \E g \in oyentes[d] :
           g.par = h.par
    BY <2>4, <2>9
  <2>12. \A d \in Clientes : \A h, i \in oyentes'[d] :
           h.par = i.par /\ h.par \in Clientes => h = i
    <3>1. \A d \in Clientes : \A h, i \in oyentes[d] :
            h.par = i.par /\ h.par \in Clientes => h = i
      BY DEF ClienteInv, LlamadasInv, CallsMatch
    <3> QED
      BY <2>4, <2>9, <3>1
  <2>13. \A q \in Puertos : cola'[q] # <<>> => q \in escuchando'
    BY <2>5, <2>6 DEF ClienteInv, LlamadasInv, CallsMatch
  <2>14. \A q \in Puertos : \A i \in DOMAIN cola'[q] :
           i \in DOMAIN cola[q] /\ cola[q][i] = cola'[q][i]
    BY <2>6
  <2>15. LlamadasInv'
    BY <2>10, <2>11, <2>12, <2>13, <2>14, LlamadasSiguen DEF ClienteInv
  <2>16. \A d \in Clientes : cliente'[d].op = "CONNECT" =>
           d # c /\ cliente'[d] = cliente[d] /\ cliente'[d].pc = "espera"
    BY <2>1, <2>3 DEF ClienteInv, SesionInv, Conectandose
  <2>17. \A d \in Clientes : \A h, i \in oyentes'[d] :
           h.sd = i.sd /\ h.sd # Nada => h = i
    BY <2>4, <2>9 DEF ClienteInv, SesionInv, OneListener
  <2>18. \A d \in Clientes :
           \/ /\ cliente'[d].sesion = cliente[d].sesion
              /\ cliente'[d].socket = cliente[d].socket
           \/ /\ cliente[d].socket \notin escuchando'
              /\ \A h \in oyentes'[d] : h.sd = Nada
    BY <2>3, <2>5, <2>9 DEF p
  <2>19. \A d \in Clientes : \A h \in oyentes'[d] :
           /\ h.sd # Nada => \E g \in oyentes[d] : g.sd = h.sd
           /\ h.pc = "arranca" =>
                \E g \in oyentes[d] : g.sd = h.sd /\ g.pc = "arranca"
    BY <2>4, <2>9
  <2>20. \A d \in Clientes : cliente'[d].socket \in {cliente[d].socket, Nada}
    BY <2>1, <2>3
  <2>21. SesionInv'
    BY <2>5, <2>16, <2>17, <2>18, <2>19, <2>20, SesionesSiguen DEF ClienteInv
  <2> QED
    BY <2>7, <2>15, <2>21 DEF ClienteInv
<1> QED
  BY <1>2, <1>3 DEF Cierra

\* A thread of c that another takes the place of, or none.
LEMMA CambiaOyentes ==
  ASSUME CTypeOK, NEW c \in Clientes, NEW h \in oyentes[c],
         NEW N \in SUBSET Oyentes, Cambia(c, h, N)
  PROVE  /\ oyentes' \in [Clientes -> SUBSET Oyentes]
         /\ oyentes'[c] = (oyentes[c] \ {h}) \cup N
         /\ \A d \in Clientes \ {c} : oyentes'[d] = oyentes[d]
         /\ h \in Oyentes
BY DEF CTypeOK, Cambia

\* listen(): the socket takes calls from now on.
LEMMA EscuchaKeeps ==
  ASSUME ClienteInv, NEW c \in Clientes, NEW h \in oyentes[c], Escucha(c, h)
  PROVE  ClienteInv'
<1> DEFINE n == [h EXCEPT !.pc = "acepta"]
           p == h.sd
<1>1. h \in Oyentes /\ h.pc = "arranca" /\ p # Nada /\ p \notin escuchando
  BY DEF Escucha, ClienteInv, CTypeOK, SesionInv, ArrancaSorda
<1>2. /\ n \in Oyentes /\ n.sd = p /\ n.pc = "acepta" /\ n.par = h.par
      /\ p \in Puertos
  BY <1>1 DEF Oyentes, OyentePCs
<1>3. /\ escuchando' = escuchando \cup {p} /\ UNCHANGED <<cliente, cola>>
      /\ Cambia(c, h, {n})
  BY DEF Escucha
<1> HIDE DEF n, p
<1>4. /\ oyentes' \in [Clientes -> SUBSET Oyentes]
      /\ oyentes'[c] = (oyentes[c] \ {h}) \cup {n}
      /\ \A d \in Clientes \ {c} : oyentes'[d] = oyentes[d]
  BY <1>2, <1>3, CambiaOyentes DEF ClienteInv
<1>5. CTypeOK'
  BY <1>2, <1>3, <1>4 DEF ClienteInv, CTypeOK
<1>6. \A d \in Clientes : \A i, j \in oyentes[d] :
        i.par = j.par /\ i.par \in Clientes => i = j
  BY DEF ClienteInv, LlamadasInv, CallsMatch
<1>7. \A d \in Clientes : \A i, j \in oyentes'[d] :
        i.par = j.par /\ i.par \in Clientes => i = j
  BY <1>2, <1>4, <1>6
<1>8. \A d \in Clientes : \A i \in oyentes'[d] : \E g \in oyentes[d] : g.par = i.par
  BY <1>2, <1>4
<1>9. \A q \in Puertos : cola'[q] # <<>> => q \in escuchando'
  BY <1>3 DEF ClienteInv, LlamadasInv, CallsMatch
<1>10. LlamadasInv'
  BY <1>3, <1>7, <1>8, <1>9, LlamadasSiguen DEF ClienteInv, EnLlamada
<1>11. cliente[c].socket = p /\ cliente[c].sesion # Nada
       /\ \A i \in oyentes[c] : i.sd = p => i = h
  BY <1>1 DEF ClienteInv, SesionInv, OneListener, p
<1>12. OneListener'
  BY <1>2, <1>3, <1>4, <1>11 DEF ClienteInv, SesionInv, OneListener
<1>13. Conectandose' /\ SocketPropio'
  BY <1>3, <1>11 DEF ClienteInv, SesionInv, Conectandose, SocketPropio
<1>14. ArrancaSorda'
  <2> SUFFICES ASSUME NEW d \in Clientes, NEW i \in oyentes'[d], i.pc = "arranca"
               PROVE  i.sd # Nada /\ i.sd \notin escuchando'
    BY DEF ArrancaSorda
  <2>1. i \in oyentes[d] /\ (d = c => i # h)
    BY <1>2, <1>4
  <2>2. i.sd # Nada /\ i.sd \notin escuchando /\ i.sd = cliente[d].socket
    BY <2>1 DEF ClienteInv, SesionInv, ArrancaSorda, OneListener
  <2>3. i.sd # p
    BY <1>1, <1>11, <2>1, <2>2 DEF ClienteInv, SesionInv, SocketPropio
  <2> QED
    BY <1>3, <2>2, <2>3
<1> QED
  BY <1>5, <1>10, <1>12, <1>13, <1>14 DEF ClienteInv, SesionInv

\* A session's sockets after a step that leaves its shell alone, or only moves
\* shells that are in a call, and in which threads at most end or go on.
LEMMA OyentesSiguen ==
  ASSUME ClienteInv, escuchando' = escuchando,
         \A d \in Clientes :
           \/ cliente'[d] = cliente[d]
           \/ /\ cliente[d].pc # "espera" /\ cliente'[d].op = cliente[d].op
              /\ cliente'[d].sesion = cliente[d].sesion
              /\ cliente'[d].socket = cliente[d].socket,
         \A d \in Clientes : \A h \in oyentes'[d] :
           h \in oyentes[d] \/ (h.pc # "arranca"
                                /\ \E g \in oyentes[d] : g.sd = h.sd),
         \A d \in Clientes : \A h, i \in oyentes'[d] :
           h.sd = i.sd /\ h.sd # Nada => h = i
  PROVE  SesionInv'
<1>1. \A d \in Clientes : cliente'[d].op = "CONNECT" =>
        /\ cliente'[d] = cliente[d] /\ cliente'[d].pc = "espera"
  BY DEF ClienteInv, SesionInv, Conectandose
<1>2. \A d \in Clientes : /\ cliente'[d].sesion = cliente[d].sesion
                          /\ cliente'[d].socket = cliente[d].socket
  OBVIOUS
<1> QED
  BY <1>1, <1>2, SesionesSiguen DEF ClienteInv

\* accept(): the first call of the queue passes to the thread.
LEMMA AceptaKeeps ==
  ASSUME ClienteInv, NEW c \in Clientes, NEW h \in oyentes[c], Acepta(c, h)
  PROVE  ClienteInv'
<1> DEFINE p == h.sd
<1>1. h \in Oyentes /\ p \in Puertos /\ p # Nada /\ cola[p] # <<>>
  BY DEF Acepta, ClienteInv, CTypeOK, Oyentes
<1>2. cola[p] \in Seq(Llamantes) /\ Head(cola[p]) \in Llamantes
  BY <1>1 DEF ClienteInv, CTypeOK
<1>3. PICK x \in Llamantes : x = Head(cola[p])
  BY <1>2
<1> DEFINE n == [h EXCEPT !.pc = "lee", !.par = x]
<1>4. n \in Oyentes /\ n.sd = p /\ n.pc = "lee" /\ n.par = x
  BY <1>1 DEF Oyentes, OyentePCs
<1>5. /\ UNCHANGED <<cliente, escuchando>>
      /\ cola' = [cola EXCEPT ![p] = Tail(@)]
      /\ Cambia(c, h, {n})
  BY <1>3 DEF Acepta
<1>6. /\ cola'[p] \in Seq(Llamantes)
      /\ 1 \in DOMAIN cola[p] /\ cola[p][1] = x
      /\ \A i \in DOMAIN cola'[p] : /\ i + 1 \in DOMAIN cola[p]
                                    /\ i + 1 # 1
                                    /\ cola'[p][i] = cola[p][i + 1]
      /\ \A i \in DOMAIN cola'[p], j \in DOMAIN cola'[p] : i + 1 = j + 1 => i = j
      /\ \A q \in Puertos \ {p} : cola'[q] = cola[q]
  <2>1. cola'[p] = Tail(cola[p]) /\ \A q \in Puertos \ {p} : cola'[q] = cola[q]
    BY <1>1, <1>5 DEF ClienteInv, CTypeOK
  <2> QED
    BY <1>1, <1>2, <1>3, <2>1
<1> HIDE DEF p, n
<1>7. /\ oyentes' \in [Clientes -> SUBSET Oyentes]
      /\ oyentes'[c] = (oyentes[c] \ {h}) \cup {n}
      /\ \A d \in Clientes \ {c} : oyentes'[d] = oyentes[d]
  BY <1>4, <1>5, CambiaOyentes DEF ClienteInv
<1>8. CTypeOK'
  BY <1>5, <1>6, <1>7 DEF ClienteInv, CTypeOK
<1>9. \A a \in Clientes, q \in Puertos : EnCola(a, q)' => EnCola(a, q)
  BY <1>6 DEF EnCola
<1>10. x \in Clientes => EnCola(x, p) /\ \A q \in Puertos : ~EnCola(x, q)'
  <2> SUFFICES ASSUME x \in Clientes
               PROVE  EnCola(x, p) /\ \A q \in Puertos : ~EnCola(x, q)'
    OBVIOUS
  <2>1. EnCola(x, p)
    BY <1>6 DEF EnCola
  <2>2. ASSUME NEW q \in Puertos, NEW i \in DOMAIN cola'[q], cola'[q][i] = x
        PROVE  FALSE
    <3>1. CASE q = p
      BY <1>1, <1>6, <2>2, <3>1 DEF ClienteInv, LlamadasInv, EnUnaCola
    <3>2. CASE q # p
      BY <1>1, <1>6, <2>2, <3>2 DEF ClienteInv, LlamadasInv, EnUnaCola
    <3> QED
      BY <3>1, <3>2
  <2> QED
    BY <2>1, <2>2 DEF EnCola
<1>11. \A d \in Clientes : \A i \in oyentes'[d] :
         i \in oyentes[d] \/ (d = c /\ i = n)
  BY <1>7
<1>12. ASSUME NEW a \in Clientes, Servido(a)' \/ \E q \in Puertos : EnCola(a, q)'
       PROVE  cliente'[a].pc \in {"llama", "pide"}
  <2>1. Servido(a)' => Servido(a) \/ a = x
    BY <1>4, <1>11 DEF Servido
  <2> QED
    BY <1>1, <1>5, <1>9, <1>10, <1>12, <2>1 DEF ClienteInv, LlamadasInv, CallsMatch
<1>13. ASSUME NEW a \in Clientes, NEW d \in Clientes, NEW i \in oyentes'[d],
              i.par = a
       PROVE  /\ \A q \in Puertos : ~EnCola(a, q)'
              /\ \A e \in Clientes : \A j \in oyentes'[e] :
                   j.par = a => e = d /\ j = i
  <2>1. CASE a = x
    <3>1. ASSUME NEW e \in Clientes, NEW j \in oyentes'[e], j.par = a
          PROVE  e = c /\ j = n
      BY <1>1, <1>10, <1>11, <2>1, <3>1 DEF ClienteInv, LlamadasInv, CallsMatch
    <3> QED
      BY <1>10, <1>13, <2>1, <3>1
  <2>2. CASE a # x
    <3>1. ASSUME NEW e \in Clientes, NEW j \in oyentes'[e], j.par = a
          PROVE  j \in oyentes[e]
      BY <1>4, <1>11, <2>2, <3>1
    <3>2. i \in oyentes[d]
      BY <1>13, <3>1
    <3> QED
      BY <1>9, <1>13, <3>1, <3>2 DEF ClienteInv, LlamadasInv, CallsMatch
  <2> QED
    BY <2>1, <2>2
<1>14. \A q \in Puertos : cola'[q] # <<>> => q \in escuchando'
  BY <1>1, <1>5, <1>6 DEF ClienteInv, LlamadasInv, CallsMatch
<1>15. CallsMatch'
  BY <1>12, <1>13, <1>14 DEF CallsMatch
<1>16. EnUnaCola'
  <2> SUFFICES ASSUME NEW a \in Clientes, NEW q \in Puertos, NEW r \in Puertos,
                      NEW i \in DOMAIN cola'[q], NEW j \in DOMAIN cola'[r],
                      cola'[q][i] = a, cola'[r][j] = a
               PROVE  q = r /\ i = j
    BY DEF EnUnaCola
  <2>1. /\ \E k \in DOMAIN cola[q] : cola[q][k] = a /\ k = IF q = p THEN i + 1 ELSE i
        /\ \E k \in DOMAIN cola[r] : cola[r][k] = a /\ k = IF r = p THEN j + 1 ELSE j
    BY <1>6
  <2>2. q = r /\ (IF q = p THEN i + 1 ELSE i) = IF r = p THEN j + 1 ELSE j
    BY <2>1 DEF ClienteInv, LlamadasInv, EnUnaCola
  <2> QED
    BY <1>6, <2>2
<1>17. \A d \in Clientes : \A i, j \in oyentes'[d] :
         i.sd = j.sd /\ i.sd # Nada => i = j
  BY <1>1, <1>4, <1>7 DEF ClienteInv, SesionInv, OneListener, p
<1>18. \A d \in Clientes : \A i \in oyentes'[d] :
         i \in oyentes[d] \/ (i.pc # "arranca" /\ \E g \in oyentes[d] : g.sd = i.sd)
  BY <1>4, <1>11 DEF p
<1>19. SesionInv'
  BY <1>5, <1>17, <1>18, OyentesSiguen
<1> QED
  BY <1>8, <1>15, <1>16, <1>19 DEF ClienteInv, LlamadasInv

\* A thread is done with its caller: it goes on or ends, and the caller has an
\* answer or waits for ever for one.
LEMMA AtiendeSigue ==
  ASSUME ClienteInv, NEW c \in Clientes, NEW h \in oyentes[c], h.pc = "lee",
         NEW N \in SUBSET Oyentes, Cambia(c, h, N),
         \A n \in N : n.sd = h.sd /\ n.pc = "acepta" /\ n.par = Nada,
         \A m, n \in N : m = n,
         UNCHANGED <<escuchando, cola>>,
         NEW pc \in {"shell", "colgado"},
         \/ h.par = Ido /\ cliente' = cliente
         \/ /\ h.par \in Clientes /\ En(h.par, "pide")
            /\ cliente' = [cliente EXCEPT ![h.par].pc = pc,
                                          ![h.par].destino = Nada]
  PROVE  ClienteInv'
<1>1. /\ oyentes' \in [Clientes -> SUBSET Oyentes]
      /\ oyentes'[c] = (oyentes[c] \ {h}) \cup N
      /\ \A d \in Clientes \ {c} : oyentes'[d] = oyentes[d]
  BY CambiaOyentes DEF ClienteInv
<1>2. /\ Nada \notin Clientes /\ Ido \notin Clientes /\ Nada \notin Puertos
  BY ClienteAssumption
<1>3. h.par \in Clientes => Mueve(h.par, pc, Nada)
  <2>1. pc \in ShellPCs
    BY DEF ShellPCs
  <2> QED
    BY <1>2, <2>1, DestinoMueve DEF ClienteInv
<1>4. cliente' \in [Clientes -> Procesos]
      /\ \A d \in Clientes : d # h.par => cliente'[d] = cliente[d]
  BY <1>2, <1>3 DEF ClienteInv, CTypeOK, Mueve
<1>5. CTypeOK'
  BY <1>1, <1>4 DEF ClienteInv, CTypeOK
<1>6. \A d \in Clientes : \A i \in oyentes'[d] : i.par \in Clientes =>
        i \in oyentes[d] /\ ~(d = c /\ i = h)
  BY <1>1, <1>2
<1>7. \A d \in Clientes : \A i, j \in oyentes[d] :
        i.par = j.par /\ i.par \in Clientes => i = j
  BY DEF ClienteInv, LlamadasInv, CallsMatch
<1>8. \A d \in Clientes : \A i, j \in oyentes'[d] :
        i.par = j.par /\ i.par \in Clientes => i = j
  BY <1>6, <1>7
<1>9. h.par \in Clientes =>
        ~Servido(h.par)' /\ \A p \in Puertos : ~EnCola(h.par, p)'
  <2> SUFFICES ASSUME NEW x \in Clientes, x = h.par
               PROVE  ~Servido(x)' /\ \A p \in Puertos : ~EnCola(x, p)'
    BY DEF Servido, EnCola
  <2>1. /\ \A p \in Puertos : ~EnCola(x, p)
        /\ \A e \in Clientes : \A i \in oyentes[e] : i.par = x => e = c /\ i = h
    BY DEF ClienteInv, LlamadasInv, CallsMatch
  <2>2. ~Servido(x)'
    BY <1>6, <2>1 DEF Servido
  <2> QED
    BY <2>1, <2>2 DEF EnCola
<1>10. ASSUME NEW d \in Clientes, EnLlamada(d)
       PROVE  EnLlamada(d)' \/ (~Servido(d)' /\ \A p \in Puertos : ~EnCola(d, p)')
  <2>1. CASE d # h.par
    BY <1>4, <1>10, <2>1 DEF EnLlamada
  <2>2. CASE d = h.par
    <3>1. \A x \in Clientes : x = h.par =>
            ~Servido(x)' /\ \A p \in Puertos : ~EnCola(x, p)'
      BY <1>9 DEF Servido, EnCola
    <3> QED
      BY <2>2, <3>1
  <2> QED
    BY <2>1, <2>2
<1>11. \A p \in Puertos : cola'[p] # <<>> => p \in escuchando'
  BY DEF ClienteInv, LlamadasInv, CallsMatch
<1>12. LlamadasInv'
  BY <1>6, <1>8, <1>10, <1>11, LlamadasSiguen DEF ClienteInv
<1>13. \A d \in Clientes :
         \/ cliente'[d] = cliente[d]
         \/ /\ cliente[d].pc # "espera" /\ cliente'[d].op = cliente[d].op
            /\ cliente'[d].sesion = cliente[d].sesion
            /\ cliente'[d].socket = cliente[d].socket
  BY <1>3, <1>4 DEF Mueve, En
<1>14. \A d \in Clientes : \A i, j \in oyentes'[d] :
         i.sd = j.sd /\ i.sd # Nada => i = j
  BY <1>1 DEF ClienteInv, SesionInv, OneListener
<1>15. \A d \in Clientes : \A i \in oyentes'[d] :
         i \in oyentes[d] \/ (i.pc # "arranca" /\ \E g \in oyentes[d] : g.sd = i.sd)
  BY <1>1
<1>16. SesionInv'
  BY <1>13, <1>14, <1>15, OyentesSiguen
<1> QED
  BY <1>5, <1>12, <1>16 DEF ClienteInv

LEMMA AtiendeKeeps ==
  ASSUME ClienteInv, NEW c \in Clientes, NEW h \in oyentes[c], Atiende(c, h)
  PROVE  ClienteInv'
<1> DEFINE n == [h EXCEPT !.pc = "acepta", !.par = Nada]
           sigue == IF h.sd = Nada THEN {} ELSE {n}
<1>1. h \in Oyentes /\ Nada \notin Clientes /\ Ido \notin Clientes
  BY ClienteAssumption DEF ClienteInv, CTypeOK
<1>2. n \in Oyentes /\ n.sd = h.sd /\ n.pc = "acepta" /\ n.par = Nada
  BY <1>1 DEF Oyentes, OyentePCs
<1>3. /\ h.pc = "lee" /\ UNCHANGED <<escuchando, cola>>
      /\ h.par = Ido \/ (h.par \in Clientes /\ En(h.par, "pide"))
      /\ \E N \in {sigue, {}}, pc \in {"shell", "colgado"} :
           /\ Cambia(c, h, N)
           /\ cliente' = IF h.par = Ido THEN cliente
                         ELSE [cliente EXCEPT ![h.par].pc = pc,
                                              ![h.par].destino = Nada]
  BY DEF Atiende
<1> HIDE DEF n
<1>4. PICK N \in {sigue, {}}, pc \in {"shell", "colgado"} :
        /\ Cambia(c, h, N)
        /\ cliente' = IF h.par = Ido THEN cliente
                      ELSE [cliente EXCEPT ![h.par].pc = pc,
                                           ![h.par].destino = Nada]
  BY <1>3
<1>5. /\ N \in SUBSET Oyentes
      /\ \A m \in N : m.sd = h.sd /\ m.pc = "acepta" /\ m.par = Nada
      /\ \A l, m \in N : l = m
  BY <1>2
<1>6. \/ h.par = Ido /\ cliente' = cliente
      \/ /\ h.par \in Clientes /\ En(h.par, "pide")
         /\ cliente' = [cliente EXCEPT ![h.par].pc = pc, ![h.par].destino = Nada]
  BY <1>1, <1>3, <1>4
<1> QED
  BY <1>3, <1>4, <1>5, <1>6, AtiendeSigue

\* A process ends: its sockets close, whom it called keeps what is left of the
\* call, and whom it served has no answer.
LEMMA DesapareceKeeps ==
  ASSUME ClienteInv, NEW c \in Clientes, Desaparece(c) PROVE ClienteInv'
<1> DEFINE atiende == {d \in Clientes \ {c} : \E h \in oyentes[c] : h.par = d}
           pasa(d, S) == [cliente[d] EXCEPT !.destino = Nada,
                            !.pc = IF d \in S THEN "colgado" ELSE "shell"]
           queda(h) == [h EXCEPT !.par = IF h.par = c THEN Resto(c) ELSE h.par]
<1>1. PICK p \in Puertos \cup {Nada} : p = cliente[c].socket
  BY DEF ClienteInv, CTypeOK, Procesos
<1>2. PICK r \in Llamantes : r = Resto(c) /\ r \notin Clientes /\ r # Nada
  BY ClienteAssumption DEF Resto, Llamantes
<1>3. PICK S \in SUBSET atiende :
        cliente' = [d \in Clientes |->
          IF d = c THEN Apagado
          ELSE IF d \notin atiende THEN cliente[d] ELSE pasa(d, S)]
  BY DEF Desaparece
<1>4. /\ oyentes' = [d \in Clientes |->
           IF d = c THEN {} ELSE {queda(h) : h \in oyentes[d]}]
      /\ escuchando' = escuchando \ {p}
      /\ cola' = [q \in Puertos |->
           IF q = p THEN <<>>
           ELSE [i \in DOMAIN cola[q] |-> IF cola[q][i] = c THEN r ELSE cola[q][i]]]
  <2>1. escuchando' = escuchando \ {p}
    BY <1>1 DEF Desaparece
  <2>2. oyentes' = [d \in Clientes |->
          IF d = c THEN {} ELSE {queda(h) : h \in oyentes[d]}]
    BY Zenon DEF Desaparece
  <2>3. cola' = [q \in Puertos |->
          IF q = cliente[c].socket THEN <<>>
          ELSE [i \in DOMAIN cola[q] |->
                  IF cola[q][i] = c THEN Resto(c) ELSE cola[q][i]]]
    BY Zenon DEF Desaparece
  <2> QED
    BY <1>1, <1>2, <2>1, <2>2, <2>3, Zenon
<1>5. ASSUME NEW d \in Clientes, NEW h \in oyentes[d]
      PROVE  /\ queda(h) \in Oyentes /\ queda(h).sd = h.sd /\ queda(h).pc = h.pc
             /\ queda(h).par = IF h.par = c THEN r ELSE h.par
  <2>1. h \in Oyentes
    BY DEF ClienteInv, CTypeOK
  <2> QED
    BY <1>2, <2>1 DEF Oyentes
<1>6. ASSUME NEW d \in atiende
      PROVE  /\ pasa(d, S) \in Procesos /\ pasa(d, S).op = cliente[d].op
             /\ pasa(d, S).sesion = cliente[d].sesion
             /\ pasa(d, S).socket = cliente[d].socket
             /\ pasa(d, S).pc \in {"colgado", "shell"}
  <2>1. cliente[d] \in Procesos
    BY DEF ClienteInv, CTypeOK
  <2> QED
    BY <2>1 DEF Procesos, ShellPCs
<1>7. \A d \in Clientes :
        /\ d = c => cliente'[d] = Apagado
        /\ d # c /\ d \notin atiende => cliente'[d] = cliente[d]
        /\ d \in atiende => cliente'[d] = pasa(d, S)
  BY <1>3
<1>8. oyentes'[c] = {}
      /\ \A d \in Clientes \ {c} : oyentes'[d] = {queda(h) : h \in oyentes[d]}
  BY <1>4
<1>9. \A d \in atiende : d # c /\ \E h \in oyentes[c] : h.par = d
  OBVIOUS
<1> HIDE DEF atiende, pasa, queda
<1>10. /\ Apagado \in Procesos /\ Apagado.op = "" /\ Apagado.sesion = Nada
       /\ Apagado.socket = Nada
  BY DEF Apagado, Procesos, ShellPCs
<1>11. cliente' \in [Clientes -> Procesos]
  BY <1>3, <1>6, <1>10 DEF ClienteInv, CTypeOK
<1>12. oyentes' \in [Clientes -> SUBSET Oyentes]
  BY <1>4, <1>5
<1>13. ASSUME NEW q \in Puertos
       PROVE  /\ cola'[q] \in Seq(Llamantes)
              /\ cola'[q] # <<>> => q # p /\ cola[q] # <<>>
              /\ \A i \in DOMAIN cola'[q] : cola'[q][i] \in Clientes =>
                   /\ i \in DOMAIN cola[q] /\ cola[q][i] = cola'[q][i]
                   /\ cola'[q][i] # c
  <2>1. CASE q = p
    BY <1>4, <2>1
  <2>2. CASE q # p
    <3>1. cola[q] \in Seq(Llamantes)
      BY DEF ClienteInv, CTypeOK
    <3> DEFINE s == [i \in DOMAIN cola[q] |->
                       IF cola[q][i] = c THEN r ELSE cola[q][i]]
    <3>2. s \in Seq(Llamantes) /\ DOMAIN s = DOMAIN cola[q]
      BY <1>2, <3>1
    <3>3. s # <<>> => cola[q] # <<>>
      BY <3>1, <3>2
    <3>4. \A i \in DOMAIN s : s[i] \in Clientes => cola[q][i] = s[i] /\ s[i] # c
      BY <1>2
    <3>5. cola'[q] = s
      BY <1>4, <2>2
    <3> HIDE DEF s
    <3> QED
      BY <2>2, <3>2, <3>3, <3>4, <3>5
  <2> QED
    BY <2>1, <2>2
<1>14. cola' \in [Puertos -> Seq(Llamantes)]
  <2>1. cola' = [q \in Puertos |-> cola'[q]]
    BY <1>4
  <2> QED
    BY <1>13, <2>1
<1>15. CTypeOK'
  BY <1>4, <1>11, <1>12, <1>14 DEF ClienteInv, CTypeOK
<1>16. ASSUME NEW d \in Clientes, NEW h \in oyentes'[d]
       PROVE  d # c /\ \E g \in oyentes[d] :
                h = queda(g) /\ h.sd = g.sd /\ h.pc = g.pc
                /\ h.par = IF g.par = c THEN r ELSE g.par
  <2>1. d # c
    BY <1>8
  <2>2. PICK g \in oyentes[d] : h = queda(g)
    BY <1>8, <2>1
  <2> QED
    BY <1>5, <2>1, <2>2
<1>17. \A d \in Clientes : \A h \in oyentes'[d] : h.par \in Clientes =>
         h.par # c /\ \E g \in oyentes[d] : h = queda(g) /\ g.par = h.par
  BY <1>2, <1>16
<1>18. \A d \in Clientes : \A h, i \in oyentes'[d] :
         h.par = i.par /\ h.par \in Clientes => h = i
  <2>1. \A d \in Clientes : \A h, i \in oyentes[d] :
          h.par = i.par /\ h.par \in Clientes => h = i
    BY DEF ClienteInv, LlamadasInv, CallsMatch
  <2> QED
    BY <1>17, <2>1
<1>19. ASSUME NEW d \in Clientes, d = c \/ d \in atiende
       PROVE  ~Servido(d)' /\ \A q \in Puertos : ~EnCola(d, q)'
  <2>1. CASE d = c
    BY <1>13, <1>17, <2>1 DEF Servido, EnCola
  <2>2. CASE d \in atiende
    <3>1. PICK h \in oyentes[c] : h.par = d
      BY <1>9, <2>2
    <3>2. /\ \A q \in Puertos : ~EnCola(d, q)
          /\ \A e \in Clientes : \A i \in oyentes[e] : i.par = d => e = c
      BY <3>1 DEF ClienteInv, LlamadasInv, CallsMatch
    <3>3. ~Servido(d)'
      BY <1>16, <1>17, <3>2 DEF Servido
    <3>4. \A q \in Puertos : ~EnCola(d, q)'
      BY <1>13, <3>2 DEF EnCola
    <3> QED
      BY <3>3, <3>4
  <2> QED
    BY <1>19, <2>1, <2>2
<1>20. \A d \in Clientes : EnLlamada(d) =>
         EnLlamada(d)' \/ (~Servido(d)' /\ \A q \in Puertos : ~EnCola(d, q)')
  BY <1>7, <1>19 DEF EnLlamada
<1>21. \A q \in Puertos : cola'[q] # <<>> => q \in escuchando'
  BY <1>4, <1>13 DEF ClienteInv, LlamadasInv, CallsMatch
<1>22. LlamadasInv'
  BY <1>13, <1>17, <1>18, <1>20, <1>21, LlamadasSiguen DEF ClienteInv
<1>23. \A d \in atiende : d \in Clientes /\ cliente[d].op # "CONNECT"
  <2>1. \A d \in atiende : d \in Clientes /\ cliente[d].pc \in {"llama", "pide"}
    BY <1>9 DEF ClienteInv, LlamadasInv, CallsMatch, Servido, atiende
  <2> QED
    BY <2>1 DEF ClienteInv, SesionInv, Conectandose
<1>24. \A d \in Clientes : cliente'[d].op = "CONNECT" =>
         cliente'[d] = cliente[d] /\ cliente'[d].pc = "espera"
  <2>1. \A d \in Clientes : cliente'[d].op = "CONNECT" =>
          cliente'[d] = cliente[d]
    BY <1>6, <1>7, <1>10, <1>23
  <2> QED
    BY <2>1 DEF ClienteInv, SesionInv, Conectandose
<1>25. \A d \in Clientes \ {c} : /\ cliente'[d].sesion = cliente[d].sesion
                                 /\ cliente'[d].socket = cliente[d].socket
  BY <1>6, <1>7
<1>26. \A d \in Clientes : cliente'[d].socket \in {cliente[d].socket, Nada}
  BY <1>7, <1>10, <1>25
<1>27. \A d \in Clientes :
         \/ /\ cliente'[d].sesion = cliente[d].sesion
            /\ cliente'[d].socket = cliente[d].socket
         \/ /\ cliente[d].socket \notin escuchando'
            /\ \A h \in oyentes'[d] : h.sd = Nada
  BY <1>1, <1>4, <1>8, <1>25
<1>28. \A d \in Clientes : \A h \in oyentes'[d] :
         \E g \in oyentes[d] : g.sd = h.sd /\ g.pc = h.pc
  BY <1>16
<1>29. \A d \in Clientes : \A h, i \in oyentes'[d] :
         h.sd = i.sd /\ h.sd # Nada => h = i
  <2>1. \A d \in Clientes : \A h, i \in oyentes[d] :
          h.sd = i.sd /\ h.sd # Nada => h = i
    BY DEF ClienteInv, SesionInv, OneListener
  <2> QED
    BY <1>16, <2>1
<1>30. SesionInv'
  BY <1>4, <1>24, <1>26, <1>27, <1>28, <1>29, SesionesSiguen DEF ClienteInv
<1> QED
  BY <1>15, <1>22, <1>30 DEF ClienteInv

\* The steps that a client takes without the server.
LEMMA SesionKeeps ==
  ASSUME ClienteInv, NEW c \in Clientes, Sesion(c) \/ Llamada(c)
  PROVE  ClienteInv'
<1>1. ASSUME NEW h \in oyentes[c], PasoOyente(c, h) PROVE ClienteInv'
  BY <1>1, EscuchaKeeps, AceptaKeeps, AtiendeKeeps DEF PasoOyente
<1>2. CASE Sesion(c)
  BY <1>1, <1>2, ArrancaKeeps, CierraKeeps, SaleKeeps DEF Sesion
<1>3. CASE Llamada(c)
  BY <1>3, ConsultaKeeps, MarcaKeeps, PideKeeps, CortadaKeeps DEF Llamada
<1> QED
  BY <1>2, <1>3

LEMMA ClienteInit == CInit => ClienteInv
<1> SUFFICES ASSUME CInit PROVE ClienteInv
  OBVIOUS
<1>1. Apagado \in Procesos /\ Apagado.op # "CONNECT" /\ Apagado.socket = Nada
  BY DEF Apagado, Procesos, ShellPCs
<1>2. CTypeOK
  BY <1>1 DEF CInit, CTypeOK
<1>3. \A q \in Puertos : cola[q] = <<>> /\ DOMAIN cola[q] = {}
  BY DEF CInit
<1>4. \A c \in Clientes : cliente[c] = Apagado /\ oyentes[c] = {}
  BY DEF CInit
<1>5. LlamadasInv
  BY <1>3, <1>4 DEF LlamadasInv, CallsMatch, EnUnaCola, Servido, EnCola
<1>6. SesionInv
  BY <1>1, <1>4
     DEF CInit, SesionInv, OneListener, Conectandose, SocketPropio, ArrancaSorda
<1> QED
  BY <1>2, <1>5, <1>6 DEF ClienteInv

LEMMA ClienteStep == ClienteInv /\ [CNext]_cvars => ClienteInv'
<1> SUFFICES ASSUME ClienteInv, [CNext]_cvars PROVE ClienteInv'
  OBVIOUS
<1>1. ASSUME NEW c \in Clientes, NEW op \in {"CONNECT", "DISCONNECT", "QUIT"},
             NEW n \in Nombres, Envia(c, op, n)
      PROVE  ClienteInv'
  BY <1>1, EnviaKeeps DEF Ordenes
<1>2. ASSUME NEW c \in Clientes, NEW ret \in 0..2, Recibe(c, ret)
      PROVE  ClienteInv'
  BY <1>2, RecibeKeeps
<1>3. ASSUME NEW c \in Clientes, NEW p \in Puertos \cup {Nada}, Informa(c, p)
      PROVE  ClienteInv'
  BY <1>3, InformaKeeps
<1>4. ASSUME NEW c \in Clientes, Sesion(c) \/ Llamada(c)
      PROVE  ClienteInv'
  BY <1>4, SesionKeeps
<1>5. ASSUME NEW c \in Clientes, Termina(c) \/ Muere(c)
      PROVE  ClienteInv'
  BY <1>5, DesapareceKeeps DEF Termina, Muere
<1>6. CASE PierdeServidor
  BY <1>6, PierdeServidorKeeps
<1>7. CASE UNCHANGED cvars
  BY <1>7 DEF cvars, ClienteInv, CTypeOK, LlamadasInv, SesionInv, CallsMatch,
              EnUnaCola, OneListener, Conectandose, SocketPropio, ArrancaSorda,
              Servido, EnCola
<1> QED
  BY <1>1, <1>2, <1>3, <1>4, <1>5, <1>6, <1>7 DEF CNext

-----------------------------------------------------------------------------
\* Whatever the server answers, and whoever falls, the invariant holds.
THEOREM ClienteInvariant == CSpec => []ClienteInv
<1>1. CInit => ClienteInv
  BY ClienteInit
<1>2. ClienteInv /\ [CNext]_cvars => ClienteInv'
  BY ClienteStep
<1> QED
  BY <1>1, <1>2, PTL DEF CSpec

\* The shells, the threads and the queues of the clients have the types that
\* Cliente declares (client.py:17-20).
THEOREM ClienteTypes == CSpec => []CTypeOK
<1>1. ClienteInv => CTypeOK
  BY DEF ClienteInv
<1> QED
  BY <1>1, ClienteInvariant, PTL

\* Whom a thread serves, or a queue holds, is in a GET_FILE of its own and
\* there only, and calls wait at a socket that listens (client.py:186-204,
\* 478-480): closing one side never leaves the other with a call that nobody
\* makes.
THEOREM CallsAlwaysMatch == CSpec => []CallsMatch
<1>1. ClienteInv => CallsMatch
  BY DEF ClienteInv, LlamadasInv
<1> QED
  BY <1>1, ClienteInvariant, PTL

\* However often a client connects and disconnects, its open socket has one
\* thread at most and belongs to the session it has (client.py:140-164,
\* 235-239).
THEOREM OneListenerEver == CSpec => []OneListener
<1>1. ClienteInv => OneListener
  BY DEF ClienteInv, SesionInv
<1> QED
  BY <1>1, ClienteInvariant, PTL
=============================================================================
