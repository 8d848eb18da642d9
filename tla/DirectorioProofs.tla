-------------------------- MODULE DirectorioProofs --------------------------
(***************************************************************************)
(* Servidor implements Directorio, for every set of threads, users, ports  *)
(* and names, as long as requests in progress do not concern the same user *)
(* or the same publication: what a thread finds still holds when it acts,  *)
(* and each request is served by one of its steps.                         *)
(***************************************************************************)
EXTENDS ServidorProofs

\* What is assumed of the clients: requests are whole, name a user, a port or
\* a file as their operation needs, and concern nobody else's; and of the
\* installation: the directories exist, and no name under which clients publish
\* is that of the description file of another.
ClientesSeparados ==
  /\ Solapan = FALSE
  /\ Carpetas = {"registrados", "conectados", "publicaciones"}
  /\ \A p \in Peticiones :
       /\ p.llega = 3 /\ p.user \in Usuarios
       /\ p.op = "CONNECT" => p.dato \in Puertos
       /\ p.op \in {"PUBLISH", "DELETE"} => p.dato \in Ficheros
  /\ \A f \in Ficheros : Descripcion[f] \notin Ficheros

Activo(t) == hilo[t].pc # "libre"

\* The operation that each position in the code belongs to.
Fase == [REGISTER   |-> {"reg_existe", "reg_crea"},
         UNREGISTER |-> {"unreg_existe", "unreg_borra"},
         CONNECT    |-> {"con_registro", "con_conexion", "con_crea",
                         "con_escribe"},
         DISCONNECT |-> {"dis_registro", "dis_conexion", "dis_borra"},
         PUBLISH    |-> {"pub_registro", "pub_conexion", "pub_existe",
                         "pub_crea", "pub_escribe"},
         DELETE     |-> {"del_registro", "del_conexion", "del_existe",
                         "del_borra", "del_desc", "del_limpia"}]

\* t serves a request of a client, and is where that request leads.
Sirviendo(t) ==
  /\ Enviada(t) \in Peticiones
  /\ hilo[t].pc \in {"rpc", "responde"} \cup Fase[hilo[t].op]

\* What t has found still holds, and a record that it has open is its own.
Sabe(t) ==
  LET pc == hilo[t].pc  u == hilo[t].user  f == hilo[t].dato IN
  /\ pc = "reg_crea" => u \notin registrados
  /\ pc \in {"unreg_borra", "con_conexion", "con_crea", "dis_conexion",
             "dis_borra", "pub_conexion", "pub_existe", "pub_crea",
             "del_conexion", "del_existe", "del_borra"} => u \in registrados
  /\ pc = "con_crea" => conectados[u] = Ausente
  /\ pc \in {"dis_borra", "pub_existe", "pub_crea", "del_existe",
             "del_borra"} => conectados[u] # Ausente
  /\ pc = "pub_crea" => publicaciones[f] = Ausente
  /\ pc = "del_borra" => publicaciones[f] # Ausente
  /\ pc = "con_escribe" => t \in enlazados /\ conectados[u] = Vacio
  /\ pc = "pub_escribe" => t \in enlazados /\ publicaciones[f] = Vacio

\* Requests in progress concern different users and publications.
Separados(t, v) ==
  /\ hilo[t].user # hilo[v].user
  /\ hilo[t].dato \in Ficheros => hilo[t].dato # hilo[v].dato

SeparaInv ==
  /\ ServidorInv
  /\ carpetas = {"registrados", "conectados", "publicaciones"}
  /\ \A t \in Hilos : Activo(t) => Sirviendo(t) /\ Sabe(t)
  /\ \A t, v \in Hilos : Activo(t) /\ Activo(v) /\ t # v => Separados(t, v)
  /\ \A t \in enlazados : hilo[t].pc \in {"con_escribe", "pub_escribe"}

-----------------------------------------------------------------------------
\* The fields of a request in progress.
LEMMA CamposSirviendo ==
  ASSUME ClientesSeparados, NEW t \in Hilos, Sirviendo(t)
  PROVE  /\ hilo[t].op \in Operaciones /\ hilo[t].user \in Usuarios
         /\ hilo[t].llega = 3 /\ Enviada(t) # Ausente
         /\ hilo[t].op = "CONNECT" => hilo[t].dato \in Puertos
         /\ hilo[t].op \in {"PUBLISH", "DELETE"} => hilo[t].dato \in Ficheros
<1> DEFINE p == Enviada(t)
<1>1. p \in Peticiones /\ p \in [op : Operaciones, user : Cuentas, dato : Datos,
                                 llega : 0..3]
  BY ServidorAssumption DEF Sirviendo
<1>2. /\ p.op = hilo[t].op /\ p.user = hilo[t].user
      /\ p.dato = hilo[t].dato /\ p.llega = hilo[t].llega
  BY DEF Enviada
<1>3. p # Ausente
  BY <1>1, ServidorAssumption
<1> HIDE DEF p
<1> QED
  BY <1>1, <1>2, <1>3 DEF ClientesSeparados, p

\* Where a thread is tells what it has been asked.
LEMMA OpDeFase ==
  ASSUME NEW op \in Operaciones, NEW pc \in Fase[op]
  PROVE  /\ pc \in {"reg_existe", "reg_crea"} => op = "REGISTER"
         /\ pc \in {"unreg_existe", "unreg_borra"} => op = "UNREGISTER"
         /\ pc \in {"con_registro", "con_conexion", "con_crea", "con_escribe"}
              => op = "CONNECT"
         /\ pc \in {"dis_registro", "dis_conexion", "dis_borra"}
              => op = "DISCONNECT"
         /\ pc \in {"pub_registro", "pub_conexion", "pub_existe", "pub_crea",
                    "pub_escribe"} => op = "PUBLISH"
         /\ pc \in {"del_registro", "del_conexion", "del_existe", "del_borra",
                    "del_desc", "del_limpia"} => op = "DELETE"
<1>1. CASE op = "REGISTER"   BY <1>1 DEF Fase
<1>2. CASE op = "UNREGISTER" BY <1>2 DEF Fase
<1>3. CASE op = "CONNECT"    BY <1>3 DEF Fase
<1>4. CASE op = "DISCONNECT" BY <1>4 DEF Fase
<1>5. CASE op = "PUBLISH"    BY <1>5 DEF Fase
<1>6. CASE op = "DELETE"     BY <1>6 DEF Fase
<1> QED
  BY <1>1, <1>2, <1>3, <1>4, <1>5, <1>6 DEF Operaciones

\* The same, with what the request names.
LEMMA FaseNombra ==
  ASSUME ClientesSeparados, NEW t \in Hilos, Sirviendo(t)
  PROVE  /\ hilo[t].pc \in {"con_registro", "con_conexion", "con_crea",
                            "con_escribe"}
              => hilo[t].op = "CONNECT" /\ hilo[t].dato \in Puertos
         /\ hilo[t].pc \in {"pub_registro", "pub_conexion", "pub_existe",
                            "pub_crea", "pub_escribe"}
              => hilo[t].op = "PUBLISH" /\ hilo[t].dato \in Ficheros
         /\ hilo[t].pc \in {"del_registro", "del_conexion", "del_existe",
                            "del_borra", "del_desc", "del_limpia"}
              => hilo[t].op = "DELETE" /\ hilo[t].dato \in Ficheros
         /\ hilo[t].pc \in {"reg_existe", "reg_crea"} => hilo[t].op = "REGISTER"
         /\ hilo[t].pc \in {"unreg_existe", "unreg_borra"}
              => hilo[t].op = "UNREGISTER"
         /\ hilo[t].pc \in {"dis_registro", "dis_conexion", "dis_borra"}
              => hilo[t].op = "DISCONNECT"
<1> DEFINE pc == hilo[t].pc
<1>1. hilo[t].op \in Operaciones
  BY CamposSirviendo
<1>2. pc \notin {"rpc", "responde"} => pc \in Fase[hilo[t].op]
  BY DEF Sirviendo
<1> HIDE DEF pc
<1>3. pc \notin {"rpc", "responde"} =>
         /\ pc \in {"reg_existe", "reg_crea"} => hilo[t].op = "REGISTER"
         /\ pc \in {"unreg_existe", "unreg_borra"} => hilo[t].op = "UNREGISTER"
         /\ pc \in {"con_registro", "con_conexion", "con_crea", "con_escribe"}
              => hilo[t].op = "CONNECT"
         /\ pc \in {"dis_registro", "dis_conexion", "dis_borra"}
              => hilo[t].op = "DISCONNECT"
         /\ pc \in {"pub_registro", "pub_conexion", "pub_existe", "pub_crea",
                    "pub_escribe"} => hilo[t].op = "PUBLISH"
         /\ pc \in {"del_registro", "del_conexion", "del_existe", "del_borra",
                    "del_desc", "del_limpia"} => hilo[t].op = "DELETE"
  BY <1>1, <1>2, OpDeFase
<1> QED
  BY <1>3, CamposSirviendo DEF pc

\* Moving on and answering leave the request as it is.
LEMMA SigueCampos ==
  ASSUME TypeOK, NEW t \in Hilos, NEW pc \in HiloPCs, Sigue(t, pc)
  PROVE  /\ hilo'[t].pc = pc /\ Enviada(t)' = Enviada(t)
         /\ hilo'[t].op = hilo[t].op /\ hilo'[t].user = hilo[t].user
         /\ hilo'[t].dato = hilo[t].dato
         /\ \A v \in Hilos \ {t} : hilo'[v] = hilo[v]
BY DEF TypeOK, Sigue, Marcos, Enviada

LEMMA ContestaCampos ==
  ASSUME TypeOK, NEW t \in Hilos, NEW ret, Contesta(t, ret)
  PROVE  /\ hilo'[t].pc = "responde" /\ hilo'[t].ret = ret
         /\ Enviada(t)' = Enviada(t)
         /\ hilo'[t].op = hilo[t].op /\ hilo'[t].user = hilo[t].user
         /\ hilo'[t].dato = hilo[t].dato
         /\ \A v \in Hilos \ {t} : hilo'[v] = hilo[v]
BY DEF TypeOK, Contesta, Marcos, Enviada

\* A step of t alone that keeps to the records of its own user and publication.
Propio(t) ==
  /\ Activo(t)
  /\ \A v \in Hilos \ {t} :
       hilo'[v] = hilo[v] /\ (v \in enlazados' <=> v \in enlazados)
  /\ \A u \in Usuarios \ {hilo[t].user} :
       (u \in registrados' <=> u \in registrados)
       /\ conectados'[u] = conectados[u]
  /\ \A f \in Ficheros \ {hilo[t].dato} : publicaciones'[f] = publicaciones[f]
  /\ Enviada(t)' = Enviada(t)
  /\ hilo'[t].op = hilo[t].op /\ hilo'[t].user = hilo[t].user
  /\ hilo'[t].dato = hilo[t].dato
  /\ carpetas' = carpetas

\* Such a step leaves alone what the other threads know.
LEMMA AjenoSabe ==
  ASSUME ClientesSeparados, SeparaInv, NEW t \in Hilos, Propio(t),
         NEW v \in Hilos \ {t}, Activo(v)
  PROVE  Sirviendo(v)' /\ Sabe(v)'
<1>1. /\ hilo'[v] = hilo[v] /\ (v \in enlazados' <=> v \in enlazados)
      /\ Sirviendo(v) /\ Sabe(v) /\ Separados(t, v)
  BY DEF Propio, SeparaInv
<1>2. Sirviendo(v)'
  BY <1>1 DEF Sirviendo, Enviada
<1> DEFINE u == hilo[v].user
           f == hilo[v].dato
<1>3. /\ u \in registrados' <=> u \in registrados
      /\ conectados'[u] = conectados[u]
  BY <1>1, CamposSirviendo DEF Propio, Separados
<1>4. f \in Ficheros => publicaciones'[f] = publicaciones[f]
  BY <1>1 DEF Propio, Separados
<1>5. hilo[v].pc \in {"pub_crea", "pub_escribe", "del_borra"} => f \in Ficheros
  BY <1>1, FaseNombra
<1>6. Sabe(v)'
  BY <1>1, <1>3, <1>4, <1>5 DEF Sabe
<1> QED
  BY <1>2, <1>6

\* Such a step keeps the invariant if t is where its request leads, and knows
\* what it has to know there.
LEMMA PropioKeeps ==
  ASSUME ClientesSeparados, SeparaInv, ServidorInv', NEW t \in Hilos, Propio(t),
         hilo'[t].pc \in {"rpc", "responde"} \cup Fase[hilo[t].op],
         Sabe(t)',
         t \in enlazados' => hilo'[t].pc \in {"con_escribe", "pub_escribe"}
  PROVE  SeparaInv'
<1>1. carpetas' = {"registrados", "conectados", "publicaciones"}
  BY DEF SeparaInv, Propio
<1>2. Sirviendo(t)'
  BY DEF Propio, SeparaInv, Sirviendo
<1>3. ASSUME NEW v \in Hilos, Activo(v)' PROVE Sirviendo(v)' /\ Sabe(v)'
  <2>1. v # t => Activo(v)
    BY <1>3 DEF Propio, Activo
  <2> QED
    BY <1>2, <2>1, AjenoSabe
<1>4. ASSUME NEW v \in Hilos, NEW w \in Hilos, Activo(v)', Activo(w)', v # w
      PROVE  Separados(v, w)'
  <2>1. Activo(v) /\ Activo(w)
    BY <1>4 DEF Propio, Activo
  <2>2. Separados(v, w)
    BY <1>4, <2>1 DEF SeparaInv
  <2>3. /\ hilo'[v].user = hilo[v].user /\ hilo'[v].dato = hilo[v].dato
        /\ hilo'[w].user = hilo[w].user /\ hilo'[w].dato = hilo[w].dato
    BY DEF Propio
  <2> QED
    BY <2>2, <2>3 DEF Separados
<1>5. ASSUME NEW v \in enlazados'
      PROVE  hilo'[v].pc \in {"con_escribe", "pub_escribe"}
  <2>1. v \in Hilos
    BY DEF ServidorInv, TypeOK
  <2> QED
    BY <2>1 DEF Propio, SeparaInv
<1> QED
  BY <1>1, <1>3, <1>4, <1>5 DEF SeparaInv

\* Looking, with what it finds.
LEMMA MiraPropio ==
  ASSUME ClientesSeparados, SeparaInv, NEW t \in Hilos, Activo(t),
         UNCHANGED disco, Enviada(t)' = Enviada(t),
         hilo'[t].op = hilo[t].op, hilo'[t].user = hilo[t].user,
         hilo'[t].dato = hilo[t].dato,
         \A v \in Hilos \ {t} : hilo'[v] = hilo[v]
  PROVE  Propio(t)
BY DEF Propio, disco

LEMMA SigueKeeps ==
  ASSUME ClientesSeparados, SeparaInv, ServidorInv', NEW t \in Hilos, Activo(t),
         NEW pc \in HiloPCs, Sigue(t, pc), UNCHANGED disco,
         pc \in Fase[hilo[t].op], t \notin enlazados, Sabe(t)'
  PROVE  SeparaInv' /\ Propio(t)
<1>1. TypeOK
  BY DEF SeparaInv, ServidorInv
<1>2. Propio(t) /\ hilo'[t].pc = pc
  BY <1>1, SigueCampos, MiraPropio
<1>3. t \notin enlazados'
  BY DEF disco
<1> QED
  BY <1>2, <1>3, PropioKeeps

LEMMA ContestaKeeps ==
  ASSUME ClientesSeparados, SeparaInv, ServidorInv', NEW t \in Hilos, Activo(t),
         NEW ret, Contesta(t, ret), UNCHANGED disco, t \notin enlazados
  PROVE  SeparaInv' /\ Propio(t)
<1>1. TypeOK
  BY DEF SeparaInv, ServidorInv
<1>2. Propio(t) /\ hilo'[t].pc = "responde"
  BY <1>1, ContestaCampos, MiraPropio
<1>3. t \notin enlazados'
  BY DEF disco
<1>4. Sabe(t)'
  BY <1>2 DEF Sabe
<1> QED
  BY <1>2, <1>3, <1>4, PropioKeeps

-----------------------------------------------------------------------------
\* What Directorio sees of the user and the publication of a request: nobody
\* else has their records open.
LEMMA VistaPropia ==
  ASSUME ClientesSeparados
  PROVE  SeparaInv => \A t \in Hilos : \A u, f : Activo(t) =>
           /\ hilo[t].user = u => Conexion(u) =
                IF hilo[t].pc = "con_escribe" THEN hilo[t].dato ELSE conectados[u]
           /\ hilo[t].dato = f /\ f \in Ficheros => Publicacion(f) =
                IF hilo[t].pc = "pub_escribe" THEN hilo[t].user
                ELSE publicaciones[f]
<1> SUFFICES ASSUME SeparaInv, NEW t \in Hilos, NEW u, NEW f, Activo(t)
             PROVE  /\ hilo[t].user = u => Conexion(u) =
                         IF hilo[t].pc = "con_escribe" THEN hilo[t].dato
                         ELSE conectados[u]
                    /\ hilo[t].dato = f /\ f \in Ficheros => Publicacion(f) =
                         IF hilo[t].pc = "pub_escribe" THEN hilo[t].user
                         ELSE publicaciones[f]
  OBVIOUS
<1>1. \A v \in Hilos \ {t} : Activo(v) =>
        /\ hilo[v].user # hilo[t].user
        /\ hilo[t].dato \in Ficheros => hilo[v].dato # hilo[t].dato
  BY DEF SeparaInv, Separados
<1>2. Sabe(t)
  BY DEF SeparaInv
<1>3. ASSUME hilo[t].user = u
      PROVE  Conexion(u) = IF hilo[t].pc = "con_escribe" THEN hilo[t].dato
                           ELSE conectados[u]
  <2>1. Conectando(u) = IF hilo[t].pc = "con_escribe" THEN {t} ELSE {}
    BY <1>1, <1>3 DEF Conectando, Activo
  <2>2. CASE hilo[t].pc = "con_escribe"
    <3>1. Conectando(u) \cap enlazados = {t} /\ conectados[u] = Vacio
      BY <1>2, <1>3, <2>1, <2>2 DEF Sabe
    <3>2. (CHOOSE v \in Conectando(u) \cap enlazados : TRUE) = t
      BY <3>1
    <3> QED
      BY <3>1, <3>2, <2>2 DEF Conexion
  <2> QED
    BY <2>1, <2>2 DEF Conexion
<1>4. ASSUME hilo[t].dato = f, f \in Ficheros
      PROVE  Publicacion(f) = IF hilo[t].pc = "pub_escribe" THEN hilo[t].user
                              ELSE publicaciones[f]
  <2>1. Publicando(f) = IF hilo[t].pc = "pub_escribe" THEN {t} ELSE {}
    BY <1>1, <1>4 DEF Publicando, Activo
  <2>2. CASE hilo[t].pc = "pub_escribe"
    <3>1. Publicando(f) \cap enlazados = {t} /\ publicaciones[f] = Vacio
      BY <1>2, <1>4, <2>1, <2>2 DEF Sabe
    <3>2. (CHOOSE v \in Publicando(f) \cap enlazados : TRUE) = t
      BY <3>1
    <3> QED
      BY <3>1, <3>2, <2>2 DEF Publicacion
  <2> QED
    BY <2>1, <2>2 DEF Publicacion
<1> QED
  BY <1>3, <1>4

LEMMA VistaPropiaPrima ==
  ASSUME ClientesSeparados
  PROVE  SeparaInv' => \A t \in Hilos : \A u, f : Activo(t)' =>
           /\ hilo'[t].user = u => Conexion(u)' =
                IF hilo'[t].pc = "con_escribe" THEN hilo'[t].dato
                ELSE conectados'[u]
           /\ hilo'[t].dato = f /\ f \in Ficheros => Publicacion(f)' =
                IF hilo'[t].pc = "pub_escribe" THEN hilo'[t].user
                ELSE publicaciones'[f]
<1> DEFINE P == \A t \in Hilos : \A u, f : Activo(t) =>
           /\ hilo[t].user = u => Conexion(u) =
                IF hilo[t].pc = "con_escribe" THEN hilo[t].dato ELSE conectados[u]
           /\ hilo[t].dato = f /\ f \in Ficheros => Publicacion(f) =
                IF hilo[t].pc = "pub_escribe" THEN hilo[t].user
                ELSE publicaciones[f]
<1>1. SeparaInv => P
  BY VistaPropia
<1> HIDE DEF P
<1>2. SeparaInv' => P'
  BY <1>1, PTL
<1> QED
  BY <1>2 DEF P

\* The code of the other threads stays when t alone takes a step.
LEMMA CodigoCambia ==
  ASSUME NEW t \in Hilos, \A v \in Hilos \ {t} : hilo'[v] = hilo[v]
  PROVE  /\ CodigoDir' = [CodigoDir EXCEPT ![t] = CodigoDir'[t]]
         /\ CodigoDir'[t] = CodigoDir[t] => CodigoDir' = CodigoDir
<1>1. \A v \in Hilos \ {t} : CodigoDir'[v] = CodigoDir[v]
  BY DEF CodigoDir, Servida
<1>2. /\ CodigoDir' = [v \in Hilos |-> CodigoDir'[v]]
      /\ CodigoDir = [v \in Hilos |-> CodigoDir[v]]
  BY DEF CodigoDir
<1> QED
  BY <1>1, <1>2

\* A step of t alone changes only what Directorio sees of its own.
LEMMA VistaCambia ==
  ASSUME ClientesSeparados, SeparaInv, SeparaInv', NEW t \in Hilos, Propio(t),
         Activo(t)'
  PROVE  /\ ConectadoDir' = [ConectadoDir EXCEPT ![hilo[t].user] =
              IF hilo'[t].pc = "con_escribe" THEN hilo[t].dato
              ELSE conectados'[hilo[t].user]]
         /\ PublicadoDir' = [PublicadoDir EXCEPT ![hilo[t].dato] =
              IF hilo'[t].pc = "pub_escribe" THEN hilo[t].user
              ELSE publicaciones'[hilo[t].dato]]
         /\ PeticionDir' = PeticionDir /\ PeticionDir[t] = Enviada(t)
         /\ CodigoDir' = [CodigoDir EXCEPT ![t] =
              IF hilo'[t].pc = "responde" THEN hilo'[t].ret
              ELSE IF Servida(t)' THEN 0 ELSE 9]
<1> DEFINE u == hilo[t].user
           f == hilo[t].dato
<1>1. hilo'[t].user = u /\ hilo'[t].dato = f
  BY DEF Propio
<1>2. ASSUME NEW v \in Usuarios, v # u PROVE Conexion(v)' = Conexion(v)
  <2>1. Conectando(v)' = Conectando(v) /\ t \notin Conectando(v)
    BY <1>1, <1>2 DEF Conectando, Propio
  <2>2. Conectando(v)' \cap enlazados' = Conectando(v) \cap enlazados
    BY <2>1 DEF Propio, Conectando
  <2> DEFINE c(S) == CHOOSE w \in S : TRUE
             E == Conectando(v) \cap enlazados
  <2>3. E # {} => hilo'[c(E)] = hilo[c(E)]
    <3>1. E # {} => c(E) \in Conectando(v)
      OBVIOUS
    <3> QED
      BY <2>1, <3>1 DEF Propio, Conectando
  <2>4. conectados'[v] = conectados[v]
    BY <1>2 DEF Propio
  <2>5. /\ Conexion(v) = IF conectados[v] = Vacio /\ E # {}
                         THEN hilo[c(E)].dato ELSE conectados[v]
        /\ Conexion(v)' = IF conectados'[v] = Vacio /\ E' # {}
                          THEN hilo'[c(E')].dato ELSE conectados'[v]
    BY DEF Conexion
  <2>6. E' = E
    BY <2>2
  <2> HIDE DEF c, E
  <2> QED
    BY <2>3, <2>4, <2>5, <2>6
<1>3. ASSUME NEW g \in Ficheros, g # f PROVE Publicacion(g)' = Publicacion(g)
  <2>1. Publicando(g)' = Publicando(g) /\ t \notin Publicando(g)
    BY <1>1, <1>3 DEF Publicando, Propio
  <2>2. Publicando(g)' \cap enlazados' = Publicando(g) \cap enlazados
    BY <2>1 DEF Propio, Publicando
  <2> DEFINE c(S) == CHOOSE w \in S : TRUE
             E == Publicando(g) \cap enlazados
  <2>3. E # {} => hilo'[c(E)] = hilo[c(E)]
    <3>1. E # {} => c(E) \in Publicando(g)
      OBVIOUS
    <3> QED
      BY <2>1, <3>1 DEF Propio, Publicando
  <2>4. publicaciones'[g] = publicaciones[g]
    BY <1>3 DEF Propio
  <2>5. /\ Publicacion(g) = IF publicaciones[g] = Vacio /\ E # {}
                            THEN hilo[c(E)].user ELSE publicaciones[g]
        /\ Publicacion(g)' = IF publicaciones'[g] = Vacio /\ E' # {}
                             THEN hilo'[c(E')].user ELSE publicaciones'[g]
    BY DEF Publicacion
  <2>6. E' = E
    BY <2>2
  <2> HIDE DEF c, E
  <2> QED
    BY <2>3, <2>4, <2>5, <2>6
<1>4. /\ \A v \in Usuarios : v = u => Conexion(v)' =
           IF hilo'[t].pc = "con_escribe" THEN f ELSE conectados'[v]
      /\ \A g \in Ficheros : g = f => Publicacion(g)' =
           IF hilo'[t].pc = "pub_escribe" THEN u ELSE publicaciones'[g]
  BY <1>1, VistaPropiaPrima
<1>5. u \in Usuarios
  BY CamposSirviendo DEF SeparaInv, Propio
<1>6. ConectadoDir' = [ConectadoDir EXCEPT ![u] =
        IF hilo'[t].pc = "con_escribe" THEN f ELSE conectados'[u]]
  <2>1. \A v \in Usuarios : Conexion(v)' =
          IF v = u THEN IF hilo'[t].pc = "con_escribe" THEN f
                        ELSE conectados'[u]
          ELSE Conexion(v)
    BY <1>2, <1>4, <1>5
  <2>2. ConectadoDir' = [v \in Usuarios |-> Conexion(v)']
    BY DEF ConectadoDir
  <2> QED
    BY <2>1, <2>2 DEF ConectadoDir
<1>7. PublicadoDir' = [PublicadoDir EXCEPT ![f] =
        IF hilo'[t].pc = "pub_escribe" THEN u ELSE publicaciones'[f]]
  <2>1. \A g \in Ficheros : Publicacion(g)' =
          IF g = f THEN IF hilo'[t].pc = "pub_escribe" THEN u
                        ELSE publicaciones'[f]
          ELSE Publicacion(g)
    BY <1>3, <1>4
  <2>2. PublicadoDir' = [g \in Ficheros |-> Publicacion(g)']
    BY DEF PublicadoDir
  <2> QED
    BY <2>1, <2>2 DEF PublicadoDir
<1>8. PeticionDir' = PeticionDir /\ PeticionDir[t] = Enviada(t)
  BY DEF PeticionDir, Propio, Activo, Enviada
<1>9. CodigoDir' = [CodigoDir EXCEPT ![t] =
        IF hilo'[t].pc = "responde" THEN hilo'[t].ret
        ELSE IF Servida(t)' THEN 0 ELSE 9]
  <2>1. CodigoDir'[t] = IF hilo'[t].pc = "responde" THEN hilo'[t].ret
                        ELSE IF Servida(t)' THEN 0 ELSE 9
    BY DEF CodigoDir
  <2> QED
    BY <2>1, CodigoCambia DEF Propio
<1> QED
  BY <1>6, <1>7, <1>8, <1>9

-----------------------------------------------------------------------------
\* The code that the request of t deserves, from the files that its thread
\* looks at, as long as it has none of them open.
LEMMA CodigoEs ==
  ASSUME ClientesSeparados, SeparaInv, NEW t \in Hilos, Activo(t),
         hilo[t].pc \notin {"con_escribe", "pub_escribe"}
  PROVE  LET u == hilo[t].user
             f == hilo[t].dato
             op == hilo[t].op
             c == Dir!Codigo(Enviada(t)) IN
         /\ op = "REGISTER" => c = IF u \in registrados THEN 1 ELSE 0
         /\ op = "UNREGISTER" => c = IF u \in registrados THEN 0 ELSE 1
         /\ op \notin {"REGISTER", "UNREGISTER"} /\ u \notin registrados => c = 1
         /\ op = "CONNECT" /\ u \in registrados =>
              c = IF conectados[u] = Ausente THEN 0 ELSE 2
         /\ op \in {"DISCONNECT", "PUBLISH", "DELETE"} /\ u \in registrados
            /\ conectados[u] = Ausente => c = 2
         /\ op = "DISCONNECT" /\ u \in registrados /\ conectados[u] # Ausente
              => c = 0
         /\ op = "PUBLISH" /\ u \in registrados /\ conectados[u] # Ausente
              => c = IF publicaciones[f] = Ausente THEN 0 ELSE 3
         /\ op = "DELETE" /\ u \in registrados /\ conectados[u] # Ausente
              => c = IF publicaciones[f] = Ausente THEN 3 ELSE 0
<1> DEFINE u == hilo[t].user
           f == hilo[t].dato
           op == hilo[t].op
           p == Enviada(t)
<1>1. p.op = op /\ p.user = u /\ p.dato = f
  BY DEF Enviada
<1>2. /\ u \in Usuarios /\ op \in Operaciones
      /\ op \in {"PUBLISH", "DELETE"} => f \in Ficheros
  BY CamposSirviendo DEF SeparaInv
<1>3. ConectadoDir[u] = conectados[u]
  BY <1>2, VistaPropia DEF ConectadoDir
<1>4. f \in Ficheros => PublicadoDir[f] = publicaciones[f]
  BY VistaPropia DEF PublicadoDir
<1> HIDE DEF u, f, op, p
<1>5. Dir!Codigo(p) =
        CASE op = "REGISTER"   -> IF u \in registrados THEN 1 ELSE 0
          [] op = "UNREGISTER" -> IF u \in registrados THEN 0 ELSE 1
          [] OTHER -> IF ~(u \in registrados) THEN 1
                      ELSE IF (ConectadoDir[u] # Ausente) = (op = "CONNECT") THEN 2
                      ELSE CASE op = "PUBLISH" ->
                                  IF PublicadoDir[f] = Ausente THEN 0 ELSE 3
                             [] op = "DELETE" ->
                                  IF PublicadoDir[f] = Ausente THEN 3 ELSE 0
                             [] OTHER -> 0
  BY <1>1 DEF Dir!Codigo
<1> DEFINE c == Dir!Codigo(p)
<1> HIDE DEF c
<1>6. /\ op = "REGISTER" => c = IF u \in registrados THEN 1 ELSE 0
      /\ op = "UNREGISTER" => c = IF u \in registrados THEN 0 ELSE 1
  BY <1>5 DEF c
<1>7. op \notin {"REGISTER", "UNREGISTER"} /\ u \notin registrados => c = 1
  BY <1>5 DEF c
<1>8. ASSUME u \in registrados
      PROVE  /\ op = "CONNECT" => c = IF conectados[u] = Ausente THEN 0 ELSE 2
             /\ op = "DISCONNECT" => c = IF conectados[u] = Ausente THEN 2 ELSE 0
  BY <1>2, <1>3, <1>5, <1>8 DEF c
<1>9. ASSUME u \in registrados, op \in {"PUBLISH", "DELETE"}
      PROVE  c = IF conectados[u] = Ausente THEN 2
                 ELSE IF op = "PUBLISH"
                 THEN IF publicaciones[f] = Ausente THEN 0 ELSE 3
                 ELSE IF publicaciones[f] = Ausente THEN 3 ELSE 0
  BY <1>2, <1>3, <1>4, <1>5, <1>9 DEF c
<1> QED
  BY <1>6, <1>7, <1>8, <1>9 DEF u, f, op, p, c

\* A step of t alone that decides its request is the step of Directorio that
\* serves it, if the answer and the files are those that Directorio says.
LEMMA DirSirve ==
  ASSUME ClientesSeparados, SeparaInv, SeparaInv', NEW t \in Hilos, Propio(t),
         Activo(t)', ~Servida(t),
         CodigoDir'[t] = Dir!Codigo(Enviada(t)),
         IF Dir!Codigo(Enviada(t)) = 0 THEN Dir!Efecto(Enviada(t))
         ELSE UNCHANGED <<registrados, ConectadoDir, PublicadoDir>>
  PROVE  Dir!Sirve(t)
<1>1. /\ PeticionDir' = PeticionDir /\ PeticionDir[t] = Enviada(t)
      /\ \A v \in Hilos \ {t} : CodigoDir'[v] = CodigoDir[v]
  BY VistaCambia DEF CodigoDir, Servida, Propio
<1>2. CodigoDir[t] = 9
  BY DEF CodigoDir, Servida
<1>3. CodigoDir' = [CodigoDir EXCEPT ![t] = Dir!Codigo(Enviada(t))]
  BY <1>1 DEF CodigoDir
<1>4. Enviada(t) # Ausente
  BY CamposSirviendo DEF SeparaInv, Propio
<1> QED
  BY <1>1, <1>2, <1>3, <1>4 DEF Dir!Sirve, Dir!Pendiente

\* A step of t alone that leaves the records of its user and its publication
\* as Directorio sees them.
LEMMA VistaQuieta ==
  ASSUME ClientesSeparados, SeparaInv, SeparaInv', NEW t \in Hilos, Propio(t),
         Activo(t)'
  PROVE  /\ (IF hilo'[t].pc = "con_escribe" THEN hilo[t].dato
             ELSE conectados'[hilo[t].user]) =
            (IF hilo[t].pc = "con_escribe" THEN hilo[t].dato
             ELSE conectados[hilo[t].user])
            => ConectadoDir' = ConectadoDir
         /\ (hilo[t].dato \in Ficheros =>
              (IF hilo'[t].pc = "pub_escribe" THEN hilo[t].user
               ELSE publicaciones'[hilo[t].dato]) =
              (IF hilo[t].pc = "pub_escribe" THEN hilo[t].user
               ELSE publicaciones[hilo[t].dato]))
            => PublicadoDir' = PublicadoDir
<1> DEFINE u == hilo[t].user
           f == hilo[t].dato
           c == IF hilo[t].pc = "con_escribe" THEN f ELSE conectados[u]
           d == IF hilo'[t].pc = "con_escribe" THEN f ELSE conectados'[u]
           q == IF hilo[t].pc = "pub_escribe" THEN u ELSE publicaciones[f]
           r == IF hilo'[t].pc = "pub_escribe" THEN u ELSE publicaciones'[f]
<1>1. /\ ConectadoDir' = [ConectadoDir EXCEPT ![u] = d]
      /\ PublicadoDir' = [PublicadoDir EXCEPT ![f] = r]
  BY VistaCambia
<1>2. u \in Usuarios
  BY CamposSirviendo DEF SeparaInv, Propio
<1>3. ConectadoDir[u] = c
  BY <1>2, VistaPropia DEF Propio, ConectadoDir
<1>4. f \in Ficheros => PublicadoDir[f] = q
  BY VistaPropia DEF Propio, PublicadoDir
<1>5. /\ ConectadoDir = [v \in Usuarios |-> ConectadoDir[v]]
      /\ PublicadoDir = [g \in Ficheros |-> PublicadoDir[g]]
  BY DEF ConectadoDir, PublicadoDir
<1> HIDE DEF u, f, c, d, q, r
<1>6. d = c => ConectadoDir' = ConectadoDir
  BY <1>1, <1>3, <1>5
<1>7. f \in Ficheros /\ r = q => PublicadoDir' = PublicadoDir
  BY <1>1, <1>4, <1>5
<1>8. f \notin Ficheros => PublicadoDir' = PublicadoDir
  BY <1>1, <1>5
<1> QED
  BY <1>6, <1>7, <1>8 DEF u, f, c, d, q, r

\* A request that is refused changes nothing.
LEMMA DirNiega ==
  ASSUME ClientesSeparados, SeparaInv, ServidorInv', NEW t \in Hilos, Activo(t),
         ~Servida(t), NEW ret \in {1, 2, 3}, Contesta(t, ret), UNCHANGED disco,
         Dir!Codigo(Enviada(t)) = ret
  PROVE  SeparaInv' /\ Dir!Sirve(t)
<1>1. t \notin enlazados
  BY DEF SeparaInv, Servida
<1>2. SeparaInv' /\ Propio(t)
  BY <1>1, ContestaKeeps
<1>3. hilo'[t].pc = "responde" /\ hilo'[t].ret = ret
  BY ContestaCampos DEF SeparaInv, ServidorInv
<1>4. Activo(t)' /\ CodigoDir'[t] = ret
  BY <1>3 DEF Activo, CodigoDir
<1>5. UNCHANGED <<registrados, conectados, publicaciones>>
  BY DEF disco
<1>6. UNCHANGED <<ConectadoDir, PublicadoDir>>
  <2>1. {hilo[t].pc, hilo'[t].pc} \cap {"con_escribe", "pub_escribe"} = {}
    BY <1>3 DEF Servida
  <2> QED
    BY <1>2, <1>4, <1>5, <2>1, VistaQuieta
<1> QED
  BY <1>2, <1>4, <1>5, <1>6, DirSirve

\* Looking without an answer is no step of Directorio.
LEMMA DirSigue ==
  ASSUME ClientesSeparados, SeparaInv, ServidorInv', NEW t \in Hilos, Activo(t),
         ~Servida(t), NEW pc \in HiloPCs, Sigue(t, pc), UNCHANGED disco,
         pc \in Fase[hilo[t].op], ~Servida(t)', Sabe(t)'
  PROVE  SeparaInv' /\ UNCHANGED Dir!vars
<1>1. t \notin enlazados
  BY DEF SeparaInv, Servida
<1>2. SeparaInv' /\ Propio(t)
  BY <1>1, SigueKeeps
<1>3. hilo'[t].pc = pc
  BY SigueCampos DEF SeparaInv, ServidorInv
<1>4. Activo(t)'
  <2>1. hilo[t].op \in Operaciones
    BY CamposSirviendo DEF SeparaInv
  <2>2. pc # "libre"
    BY <2>1 DEF Fase, Operaciones
  <2> QED
    BY <1>3, <2>2 DEF Activo
<1>5. UNCHANGED <<registrados, conectados, publicaciones>>
  BY DEF disco
<1>6. UNCHANGED <<ConectadoDir, PublicadoDir>>
  <2>1. {hilo[t].pc, hilo'[t].pc} \cap {"con_escribe", "pub_escribe"} = {}
    BY <1>3 DEF Servida
  <2> QED
    BY <1>2, <1>4, <1>5, <2>1, VistaQuieta
<1>7. UNCHANGED <<PeticionDir, CodigoDir>>
  BY <1>2, <1>4, VistaCambia DEF CodigoDir, Servida
<1> QED
  BY <1>2, <1>5, <1>6, <1>7 DEF Dir!vars

-----------------------------------------------------------------------------
\* What fopen(..., "r") finds for a request that is whole.
LEMMA Halla ==
  ASSUME ClientesSeparados, SeparaInv, NEW t \in Hilos, Activo(t)
  PROVE  /\ hilo[t].user \in Usuarios /\ hilo[t].user # Blanco
         /\ HayRegistro(hilo[t].user) <=> hilo[t].user \in registrados
         /\ HayConexion(hilo[t].user) <=> conectados[hilo[t].user] # Ausente
         /\ hilo[t].dato \in Ficheros =>
              /\ hilo[t].dato # Blanco
              /\ HayPublicacion(hilo[t].dato)
                   <=> publicaciones[hilo[t].dato] # Ausente
<1>1. hilo[t].user \in Usuarios
  BY CamposSirviendo DEF SeparaInv
<1>2. Blanco \notin Usuarios \cup Ficheros
  BY ServidorAssumption DEF Rutas
<1> QED
  BY <1>1, <1>2 DEF SeparaInv, HayRegistro, HayConexion, HayPublicacion

\* What a step of a thread does to Directorio: it serves the request or nothing.
PasoDir(t) == Dir!Sirve(t) \/ UNCHANGED Dir!vars

LEMMA DirRegister ==
  ASSUME ClientesSeparados, SeparaInv, ServidorInv', NEW t \in Hilos, Register(t)
  PROVE  SeparaInv' /\ PasoDir(t)
<1> DEFINE u == hilo[t].user
<1>1. Activo(t) /\ ~Servida(t) /\ hilo[t].pc \in {"reg_existe", "reg_crea"}
  BY DEF Register, Mira, En, Activo, Servida
<1>2. hilo[t].op = "REGISTER" /\ Sabe(t)
  BY <1>1, FaseNombra DEF SeparaInv
<1>3. /\ u \in Usuarios /\ u # Blanco /\ (HayRegistro(u) <=> u \in registrados)
      /\ "registrados" \in carpetas
  BY <1>1, Halla DEF SeparaInv
<1>4. Dir!Codigo(Enviada(t)) = IF u \in registrados THEN 1 ELSE 0
  BY <1>1, <1>2, CodigoEs
<1> HIDE DEF u
<1>5. CASE HayRegistro(u) /\ Contesta(t, 1) /\ UNCHANGED disco
  BY <1>1, <1>3, <1>4, <1>5, DirNiega DEF PasoDir
<1>6. CASE ~HayRegistro(u) /\ Sigue(t, "reg_crea") /\ UNCHANGED disco
  <2>1. hilo'[t].pc = "reg_crea" /\ hilo'[t].user = u
    BY <1>6, SigueCampos DEF SeparaInv, ServidorInv, HiloPCs, u
  <2>2. Sabe(t)' /\ ~Servida(t)'
    BY <1>3, <1>6, <2>1 DEF Sabe, Servida, disco
  <2>3. "reg_crea" \in Fase[hilo[t].op] /\ "reg_crea" \in HiloPCs
    BY <1>2 DEF Fase, HiloPCs
  <2> QED
    BY <1>1, <1>6, <2>2, <2>3, DirSigue DEF PasoDir
<1>7. CASE /\ hilo[t].pc = "reg_crea" /\ registrados' = registrados \cup {u}
           /\ Contesta(t, 0)
           /\ UNCHANGED <<carpetas, conectados, publicaciones, enlazados>>
  <2>1. /\ hilo'[t].pc = "responde" /\ hilo'[t].ret = 0
        /\ Enviada(t)' = Enviada(t)
        /\ hilo'[t].op = hilo[t].op /\ hilo'[t].user = u
        /\ hilo'[t].dato = hilo[t].dato
        /\ \A v \in Hilos \ {t} : hilo'[v] = hilo[v]
    BY <1>7, ContestaCampos DEF SeparaInv, ServidorInv, u
  <2>2. Propio(t)
    BY <1>1, <1>7, <2>1 DEF Propio, u
  <2>3. Sabe(t)' /\ Activo(t)' /\ CodigoDir'[t] = 0 /\ t \notin enlazados'
    BY <1>1, <1>7, <2>1 DEF Sabe, Activo, CodigoDir, SeparaInv
  <2>4. SeparaInv'
    BY <2>1, <2>2, <2>3, PropioKeeps
  <2>5. UNCHANGED <<ConectadoDir, PublicadoDir>>
    BY <1>1, <1>7, <2>1, <2>2, <2>3, <2>4, VistaQuieta DEF u
  <2>6. Dir!Codigo(Enviada(t)) = 0
    BY <1>2, <1>4, <1>7 DEF Sabe, u
  <2>7. Dir!Efecto(Enviada(t))
    BY <1>2, <1>7, <2>5 DEF Dir!Efecto, Enviada, u
  <2> QED
    BY <1>1, <2>2, <2>3, <2>4, <2>6, <2>7, DirSirve DEF PasoDir
<1> QED
  BY <1>3, <1>5, <1>6, <1>7 DEF Register, Mira, En, u

LEMMA DirUnregister ==
  ASSUME ClientesSeparados, SeparaInv, ServidorInv', NEW t \in Hilos,
         Unregister(t)
  PROVE  SeparaInv' /\ PasoDir(t)
<1> DEFINE u == hilo[t].user
<1>1. Activo(t) /\ ~Servida(t) /\ hilo[t].pc \in {"unreg_existe", "unreg_borra"}
  BY DEF Unregister, Mira, En, Activo, Servida
<1>2. hilo[t].op = "UNREGISTER" /\ Sabe(t)
  BY <1>1, FaseNombra DEF SeparaInv
<1>3. u \in Usuarios /\ u # Blanco /\ (HayRegistro(u) <=> u \in registrados)
  BY <1>1, Halla
<1>4. Dir!Codigo(Enviada(t)) = IF u \in registrados THEN 0 ELSE 1
  BY <1>1, <1>2, CodigoEs
<1> HIDE DEF u
<1>5. CASE ~HayRegistro(u) /\ Contesta(t, 1) /\ UNCHANGED disco
  BY <1>1, <1>3, <1>4, <1>5, DirNiega DEF PasoDir
<1>6. CASE HayRegistro(u) /\ Sigue(t, "unreg_borra") /\ UNCHANGED disco
  <2>1. hilo'[t].pc = "unreg_borra" /\ hilo'[t].user = u
    BY <1>6, SigueCampos DEF SeparaInv, ServidorInv, HiloPCs, u
  <2>2. Sabe(t)' /\ ~Servida(t)'
    BY <1>3, <1>6, <2>1 DEF Sabe, Servida, disco
  <2>3. "unreg_borra" \in Fase[hilo[t].op] /\ "unreg_borra" \in HiloPCs
    BY <1>2 DEF Fase, HiloPCs
  <2> QED
    BY <1>1, <1>6, <2>2, <2>3, DirSigue DEF PasoDir
<1>7. CASE /\ hilo[t].pc = "unreg_borra" /\ registrados' = registrados \ {u}
           /\ Contesta(t, 0)
           /\ UNCHANGED <<carpetas, conectados, publicaciones, enlazados>>
  <2>1. /\ hilo'[t].pc = "responde" /\ hilo'[t].ret = 0
        /\ Enviada(t)' = Enviada(t)
        /\ hilo'[t].op = hilo[t].op /\ hilo'[t].user = u
        /\ hilo'[t].dato = hilo[t].dato
        /\ \A v \in Hilos \ {t} : hilo'[v] = hilo[v]
    BY <1>7, ContestaCampos DEF SeparaInv, ServidorInv, u
  <2>2. Propio(t)
    BY <1>1, <1>7, <2>1 DEF Propio, u
  <2>3. Sabe(t)' /\ Activo(t)' /\ CodigoDir'[t] = 0 /\ t \notin enlazados'
    BY <1>1, <1>7, <2>1 DEF Sabe, Activo, CodigoDir, SeparaInv
  <2>4. SeparaInv'
    BY <2>1, <2>2, <2>3, PropioKeeps
  <2>5. UNCHANGED <<ConectadoDir, PublicadoDir>>
    BY <1>1, <1>7, <2>1, <2>2, <2>3, <2>4, VistaQuieta DEF u
  <2>6. Dir!Codigo(Enviada(t)) = 0
    BY <1>2, <1>4, <1>7 DEF Sabe, u
  <2>7. Dir!Efecto(Enviada(t))
    BY <1>2, <1>7, <2>5 DEF Dir!Efecto, Enviada, u
  <2> QED
    BY <1>1, <2>2, <2>3, <2>4, <2>6, <2>7, DirSirve DEF PasoDir
<1> QED
  BY <1>3, <1>5, <1>6, <1>7 DEF Unregister, Mira, En, u

\* The record is created, and the request decided, by one step; the other one
\* that CONNECT takes changes nothing that Directorio sees.
LEMMA DirConnect ==
  ASSUME ClientesSeparados, SeparaInv, ServidorInv', NEW t \in Hilos, Connect(t)
  PROVE  SeparaInv' /\ PasoDir(t)
<1> DEFINE u == hilo[t].user
           d == hilo[t].dato
<1>1. /\ Activo(t)
      /\ hilo[t].pc \in {"con_registro", "con_conexion", "con_crea",
                         "con_escribe"}
      /\ hilo[t].pc # "con_escribe" => ~Servida(t)
  BY DEF Connect, Mira, En, Activo, Servida
<1>2. hilo[t].op = "CONNECT" /\ d \in Puertos /\ Sabe(t) /\ d \notin Ficheros
  BY <1>1, FaseNombra, ServidorAssumption DEF SeparaInv, Rutas
<1>3. /\ u \in Usuarios /\ u # Blanco /\ (HayRegistro(u) <=> u \in registrados)
      /\ HayConexion(u) <=> conectados[u] # Ausente
      /\ "conectados" \in carpetas
  BY <1>1, Halla DEF SeparaInv
<1>4. hilo[t].pc # "con_escribe" =>
        /\ u \notin registrados => Dir!Codigo(Enviada(t)) = 1
        /\ u \in registrados => Dir!Codigo(Enviada(t)) =
             IF conectados[u] = Ausente THEN 0 ELSE 2
  BY <1>1, <1>2, CodigoEs
<1> HIDE DEF u, d
<1>5. CASE /\ hilo[t].pc = "con_registro" /\ ~HayRegistro(u)
           /\ Contesta(t, 1) /\ UNCHANGED disco
  BY <1>1, <1>3, <1>4, <1>5, DirNiega DEF PasoDir
<1>6. CASE /\ hilo[t].pc = "con_conexion" /\ HayConexion(u)
           /\ Contesta(t, 2) /\ UNCHANGED disco
  <2>1. Dir!Codigo(Enviada(t)) = 2
    BY <1>2, <1>3, <1>4, <1>6 DEF Sabe, u
  <2> QED
    BY <1>1, <1>6, <2>1, DirNiega DEF PasoDir
<1>7. ASSUME NEW pc \in {"con_conexion", "con_crea"}, Sigue(t, pc),
             UNCHANGED disco, HayRegistro(u),
             hilo[t].pc \in {"con_registro", "con_conexion"},
             pc = "con_crea" => ~HayConexion(u)
      PROVE  SeparaInv' /\ PasoDir(t)
  <2>1. hilo'[t].pc = pc /\ hilo'[t].user = u
    BY <1>7, SigueCampos DEF SeparaInv, ServidorInv, HiloPCs, u
  <2>2. Sabe(t)' /\ ~Servida(t)'
    BY <1>3, <1>7, <2>1 DEF Sabe, Servida, disco
  <2>3. pc \in Fase[hilo[t].op] /\ pc \in HiloPCs
    BY <1>2, <1>7 DEF Fase, HiloPCs
  <2> QED
    BY <1>1, <1>7, <2>2, <2>3, DirSigue DEF PasoDir
<1>8. CASE /\ hilo[t].pc = "con_crea"
           /\ conectados' = [conectados EXCEPT ![u] = Vacio]
           /\ hilo' = [hilo EXCEPT ![t] = [hilo[t] EXCEPT
                         !.pc = "con_escribe", !.dato = d]]
           /\ enlazados' = enlazados \cup {t}
           /\ UNCHANGED <<carpetas, registrados, publicaciones>>
  <2>1. /\ hilo'[t].pc = "con_escribe"
        /\ Enviada(t)' = Enviada(t)
        /\ hilo'[t].op = hilo[t].op /\ hilo'[t].user = u
        /\ hilo'[t].dato = hilo[t].dato
        /\ \A v \in Hilos \ {t} : hilo'[v] = hilo[v]
    <3> DEFINE m == [hilo[t] EXCEPT !.pc = "con_escribe", !.dato = d]
    <3>1. hilo \in [Hilos -> Marcos]
      BY DEF SeparaInv, ServidorInv, TypeOK
    <3>2. /\ m.pc = "con_escribe" /\ m.op = hilo[t].op /\ m.user = u
          /\ m.dato = d /\ m.llega = hilo[t].llega
      BY <3>1 DEF Marcos, u
    <3>3. hilo' = [hilo EXCEPT ![t] = m]
      BY <1>8
    <3> HIDE DEF m
    <3> QED
      BY <3>1, <3>2, <3>3 DEF Enviada, u, d
  <2>2. Propio(t) /\ conectados'[u] = Vacio
    BY <1>1, <1>3, <1>8, <2>1 DEF Propio, SeparaInv, ServidorInv, TypeOK, u
  <2>3. Sabe(t)' /\ Activo(t)' /\ CodigoDir'[t] = 0
    BY <1>8, <2>1, <2>2 DEF Sabe, Activo, CodigoDir, Servida
  <2>4. "con_escribe" \in Fase[hilo[t].op]
    BY <1>2 DEF Fase
  <2>5. SeparaInv'
    BY <2>1, <2>2, <2>3, <2>4, PropioKeeps
  <2>6. ConectadoDir' = [ConectadoDir EXCEPT ![u] = d]
    BY <2>1, <2>2, <2>3, <2>5, VistaCambia DEF u, d
  <2>7. PublicadoDir' = PublicadoDir
    BY <1>2, <2>2, <2>3, <2>5, VistaQuieta DEF d
  <2>8. Dir!Codigo(Enviada(t)) = 0
    BY <1>2, <1>4, <1>8 DEF Sabe, u
  <2>9. Dir!Efecto(Enviada(t))
    BY <1>2, <1>8, <2>6, <2>7 DEF Dir!Efecto, Enviada, u, d
  <2> QED
    BY <1>1, <1>8, <2>2, <2>3, <2>5, <2>8, <2>9, DirSirve DEF PasoDir
<1>9. CASE /\ hilo[t].pc = "con_escribe"
           /\ \E c \in IF conectados[u] \in {Vacio, d} THEN {d} ELSE {d, Mezcla} :
                conectados' = [conectados EXCEPT ![u] = c]
           /\ enlazados' = enlazados \ {t}
           /\ Contesta(t, 0)
           /\ UNCHANGED <<carpetas, registrados, publicaciones>>
  <2>1. /\ hilo'[t].pc = "responde" /\ hilo'[t].ret = 0
        /\ Enviada(t)' = Enviada(t)
        /\ hilo'[t].op = hilo[t].op /\ hilo'[t].user = u
        /\ hilo'[t].dato = hilo[t].dato
        /\ \A v \in Hilos \ {t} : hilo'[v] = hilo[v]
    BY <1>9, ContestaCampos DEF SeparaInv, ServidorInv, u
  <2>2. conectados' = [conectados EXCEPT ![u] = d]
    BY <1>2, <1>9 DEF Sabe, u
  <2>3. Propio(t) /\ conectados'[u] = d
    BY <1>1, <1>3, <1>9, <2>1, <2>2
    DEF Propio, SeparaInv, ServidorInv, TypeOK, u
  <2>4. Sabe(t)' /\ Activo(t)' /\ t \notin enlazados'
    BY <1>9, <2>1 DEF Sabe, Activo
  <2>5. SeparaInv'
    BY <2>1, <2>3, <2>4, PropioKeeps
  <2>6. UNCHANGED <<ConectadoDir, PublicadoDir>>
    BY <1>2, <1>9, <2>1, <2>3, <2>4, <2>5, VistaQuieta DEF u, d
  <2>7. UNCHANGED <<PeticionDir, CodigoDir>>
    <3>1. CodigoDir'[t] = CodigoDir[t]
      BY <1>9, <2>1 DEF CodigoDir, Servida
    <3> QED
      BY <2>1, <2>3, <2>4, <2>5, <3>1, CodigoCambia, VistaCambia
  <2> QED
    BY <1>9, <2>5, <2>6, <2>7 DEF PasoDir, Dir!vars
<1> QED
  <2>1. hilo[t].pc = "con_escribe" => t \in enlazados
    BY <1>2 DEF Sabe
  <2>2. hilo[t].pc = "con_conexion" => HayRegistro(u)
    BY <1>2, <1>3 DEF Sabe, u
  <2> QED
    BY <1>1, <1>2, <1>3, <1>5, <1>6, <1>7, <1>8, <1>9, <2>1, <2>2
    DEF Connect, Mira, En, u, d

LEMMA DirDisconnect ==
  ASSUME ClientesSeparados, SeparaInv, ServidorInv', NEW t \in Hilos,
         Disconnect(t)
  PROVE  SeparaInv' /\ PasoDir(t)
<1> DEFINE u == hilo[t].user
<1>1. /\ Activo(t) /\ ~Servida(t)
      /\ hilo[t].pc \in {"dis_registro", "dis_conexion", "dis_borra"}
  BY DEF Disconnect, Mira, En, Activo, Servida
<1>2. hilo[t].op = "DISCONNECT" /\ Sabe(t)
  BY <1>1, FaseNombra DEF SeparaInv
<1>3. /\ u \in Usuarios /\ u # Blanco /\ (HayRegistro(u) <=> u \in registrados)
      /\ HayConexion(u) <=> conectados[u] # Ausente
  BY <1>1, Halla
<1>4. /\ u \notin registrados => Dir!Codigo(Enviada(t)) = 1
      /\ u \in registrados => Dir!Codigo(Enviada(t)) =
           IF conectados[u] = Ausente THEN 2 ELSE 0
  BY <1>1, <1>2, CodigoEs
<1> HIDE DEF u
<1>5. CASE /\ hilo[t].pc = "dis_registro" /\ ~HayRegistro(u)
           /\ Contesta(t, 1) /\ UNCHANGED disco
  BY <1>1, <1>3, <1>4, <1>5, DirNiega DEF PasoDir
<1>6. CASE /\ hilo[t].pc = "dis_conexion" /\ ~HayConexion(u)
           /\ Contesta(t, 2) /\ UNCHANGED disco
  <2>1. Dir!Codigo(Enviada(t)) = 2
    BY <1>2, <1>3, <1>4, <1>6 DEF Sabe, u
  <2> QED
    BY <1>1, <1>6, <2>1, DirNiega DEF PasoDir
<1>7. ASSUME NEW pc \in {"dis_conexion", "dis_borra"}, Sigue(t, pc),
             UNCHANGED disco, HayRegistro(u),
             hilo[t].pc \in {"dis_registro", "dis_conexion"},
             pc = "dis_borra" => HayConexion(u)
      PROVE  SeparaInv' /\ PasoDir(t)
  <2>1. hilo'[t].pc = pc /\ hilo'[t].user = u
    BY <1>7, SigueCampos DEF SeparaInv, ServidorInv, HiloPCs, u
  <2>2. Sabe(t)' /\ ~Servida(t)'
    BY <1>3, <1>7, <2>1 DEF Sabe, Servida, disco
  <2>3. pc \in Fase[hilo[t].op] /\ pc \in HiloPCs
    BY <1>2, <1>7 DEF Fase, HiloPCs
  <2> QED
    BY <1>1, <1>7, <2>2, <2>3, DirSigue DEF PasoDir
<1>8. CASE /\ hilo[t].pc = "dis_borra"
           /\ conectados' = [v \in Usuarios |->
                               IF v = u THEN Ausente ELSE conectados[v]]
           /\ enlazados' = enlazados \ Conectando(u)
           /\ Contesta(t, 0)
           /\ UNCHANGED <<carpetas, registrados, publicaciones>>
  <2>1. /\ hilo'[t].pc = "responde" /\ hilo'[t].ret = 0
        /\ Enviada(t)' = Enviada(t)
        /\ hilo'[t].op = hilo[t].op /\ hilo'[t].user = u
        /\ hilo'[t].dato = hilo[t].dato
        /\ \A v \in Hilos \ {t} : hilo'[v] = hilo[v]
    BY <1>8, ContestaCampos DEF SeparaInv, ServidorInv, u
  <2>2. Conectando(u) = {}
    BY <1>1, <1>8 DEF Conectando, SeparaInv, Separados, Activo, u
  <2>3. Propio(t) /\ conectados'[u] = Ausente
    BY <1>1, <1>3, <1>8, <2>1, <2>2 DEF Propio, u
  <2>4. Sabe(t)' /\ Activo(t)' /\ CodigoDir'[t] = 0 /\ t \notin enlazados'
    BY <1>1, <1>8, <2>1 DEF Sabe, Activo, CodigoDir, SeparaInv
  <2>5. SeparaInv'
    BY <2>1, <2>3, <2>4, PropioKeeps
  <2>6. ConectadoDir' = [ConectadoDir EXCEPT ![u] = Ausente]
    BY <2>1, <2>3, <2>4, <2>5, VistaCambia DEF u
  <2>7. PublicadoDir' = PublicadoDir
    BY <1>8, <2>1, <2>3, <2>4, <2>5, VistaQuieta
  <2>8. Dir!Codigo(Enviada(t)) = 0
    BY <1>2, <1>4, <1>8 DEF Sabe, u
  <2>9. Dir!Efecto(Enviada(t))
    BY <1>2, <1>8, <2>6, <2>7 DEF Dir!Efecto, Enviada, u
  <2> QED
    BY <1>1, <2>3, <2>4, <2>5, <2>8, <2>9, DirSirve DEF PasoDir
<1> QED
  <2>1. hilo[t].pc = "dis_conexion" => HayRegistro(u)
    BY <1>2, <1>3 DEF Sabe, u
  <2> QED
    BY <1>1, <1>3, <1>5, <1>6, <1>7, <1>8, <2>1
    DEF Disconnect, Mira, En, u

\* The publication is created, and the request decided, by one step; writing
\* it changes nothing that Directorio sees.
LEMMA DirPublish ==
  ASSUME ClientesSeparados, SeparaInv, ServidorInv', NEW t \in Hilos, Publish(t)
  PROVE  SeparaInv' /\ PasoDir(t)
<1> DEFINE u == hilo[t].user
           f == hilo[t].dato
<1>1. /\ Activo(t)
      /\ hilo[t].pc \in {"pub_registro", "pub_conexion", "pub_existe",
                         "pub_crea", "pub_escribe"}
      /\ hilo[t].pc # "pub_escribe" => ~Servida(t)
  BY DEF Publish, Mira, En, Activo, Servida
<1>2. hilo[t].op = "PUBLISH" /\ f \in Ficheros /\ Sabe(t)
  BY <1>1, FaseNombra DEF SeparaInv
<1>3. /\ u \in Usuarios /\ (HayRegistro(u) <=> u \in registrados)
      /\ HayConexion(u) <=> conectados[u] # Ausente
      /\ f # Blanco /\ (HayPublicacion(f) <=> publicaciones[f] # Ausente)
      /\ "publicaciones" \in carpetas
  BY <1>1, <1>2, Halla DEF SeparaInv
<1>4. hilo[t].pc # "pub_escribe" =>
        /\ u \notin registrados => Dir!Codigo(Enviada(t)) = 1
        /\ u \in registrados => Dir!Codigo(Enviada(t)) =
             IF conectados[u] = Ausente THEN 2
             ELSE IF publicaciones[f] = Ausente THEN 0 ELSE 3
  BY <1>1, <1>2, CodigoEs
<1> HIDE DEF u, f
<1>5. CASE /\ hilo[t].pc = "pub_registro" /\ ~HayRegistro(u)
           /\ Contesta(t, 1) /\ UNCHANGED disco
  BY <1>1, <1>3, <1>4, <1>5, DirNiega DEF PasoDir
<1>6. CASE /\ hilo[t].pc = "pub_conexion" /\ ~HayConexion(u)
           /\ Contesta(t, 2) /\ UNCHANGED disco
  <2>1. Dir!Codigo(Enviada(t)) = 2
    BY <1>2, <1>3, <1>4, <1>6 DEF Sabe, u
  <2> QED
    BY <1>1, <1>6, <2>1, DirNiega DEF PasoDir
<1>7. CASE /\ hilo[t].pc = "pub_existe" /\ HayPublicacion(f)
           /\ Contesta(t, 3) /\ UNCHANGED disco
  <2>1. Dir!Codigo(Enviada(t)) = 3
    BY <1>2, <1>3, <1>4, <1>7 DEF Sabe, u
  <2> QED
    BY <1>1, <1>7, <2>1, DirNiega DEF PasoDir
<1>8. ASSUME NEW pc \in {"pub_conexion", "pub_existe", "pub_crea"},
             Sigue(t, pc), UNCHANGED disco, HayRegistro(u),
             hilo[t].pc \in {"pub_registro", "pub_conexion", "pub_existe"},
             pc \in {"pub_existe", "pub_crea"} => HayConexion(u),
             pc = "pub_crea" => ~HayPublicacion(f)
      PROVE  SeparaInv' /\ PasoDir(t)
  <2>1. hilo'[t].pc = pc /\ hilo'[t].user = u /\ hilo'[t].dato = f
    BY <1>8, SigueCampos DEF SeparaInv, ServidorInv, HiloPCs, u, f
  <2>2. Sabe(t)' /\ ~Servida(t)'
    BY <1>3, <1>8, <2>1 DEF Sabe, Servida, disco
  <2>3. pc \in Fase[hilo[t].op] /\ pc \in HiloPCs
    BY <1>2, <1>8 DEF Fase, HiloPCs
  <2> QED
    BY <1>1, <1>8, <2>2, <2>3, DirSigue DEF PasoDir
<1>9. CASE /\ hilo[t].pc = "pub_crea"
           /\ publicaciones' = [publicaciones EXCEPT ![f] = Vacio]
           /\ enlazados' = enlazados \cup {t}
           /\ Sigue(t, "pub_escribe")
           /\ UNCHANGED <<carpetas, registrados, conectados>>
  <2>1. /\ hilo'[t].pc = "pub_escribe"
        /\ Enviada(t)' = Enviada(t)
        /\ hilo'[t].op = hilo[t].op /\ hilo'[t].user = hilo[t].user
        /\ hilo'[t].dato = f
        /\ \A v \in Hilos \ {t} : hilo'[v] = hilo[v]
    BY <1>9, SigueCampos DEF SeparaInv, ServidorInv, HiloPCs, f
  <2>2. /\ publicaciones'[f] = Vacio
        /\ \A g \in Ficheros \ {f} : publicaciones'[g] = publicaciones[g]
    BY <1>2, <1>9 DEF SeparaInv, ServidorInv, TypeOK, Rutas
  <2>3. Propio(t)
    BY <1>1, <1>9, <2>1, <2>2 DEF Propio, f
  <2>4. Sabe(t)' /\ Activo(t)' /\ CodigoDir'[t] = 0
    BY <1>9, <2>1, <2>2 DEF Sabe, Activo, CodigoDir, Servida
  <2>5. "pub_escribe" \in Fase[hilo[t].op]
    BY <1>2 DEF Fase
  <2>6. SeparaInv'
    BY <2>1, <2>3, <2>4, <2>5, PropioKeeps
  <2>7. PublicadoDir' = [PublicadoDir EXCEPT ![f] = u]
    BY <2>1, <2>3, <2>4, <2>6, VistaCambia DEF u, f
  <2>8. ConectadoDir' = ConectadoDir
    BY <1>9, <2>1, <2>3, <2>4, <2>6, VistaQuieta
  <2>9. Dir!Codigo(Enviada(t)) = 0
    BY <1>2, <1>4, <1>9 DEF Sabe, u, f
  <2>10. Dir!Efecto(Enviada(t))
    BY <1>2, <1>9, <2>7, <2>8 DEF Dir!Efecto, Enviada, u, f
  <2> QED
    BY <1>1, <1>9, <2>3, <2>4, <2>6, <2>9, <2>10, DirSirve DEF PasoDir
<1>10. CASE /\ hilo[t].pc = "pub_escribe"
            /\ publicaciones' = [publicaciones EXCEPT ![f] = u]
            /\ enlazados' = enlazados \ {t}
            /\ Contesta(t, 0)
            /\ UNCHANGED <<carpetas, registrados, conectados>>
  <2>1. /\ hilo'[t].pc = "responde" /\ hilo'[t].ret = 0
        /\ Enviada(t)' = Enviada(t)
        /\ hilo'[t].op = hilo[t].op /\ hilo'[t].user = hilo[t].user
        /\ hilo'[t].dato = f
        /\ \A v \in Hilos \ {t} : hilo'[v] = hilo[v]
    BY <1>10, ContestaCampos DEF SeparaInv, ServidorInv, f
  <2>2. /\ publicaciones'[f] = u
        /\ \A g \in Ficheros \ {f} : publicaciones'[g] = publicaciones[g]
    BY <1>2, <1>10 DEF SeparaInv, ServidorInv, TypeOK, Rutas
  <2>3. Propio(t)
    BY <1>1, <1>10, <2>1, <2>2 DEF Propio, f
  <2>4. Sabe(t)' /\ Activo(t)' /\ t \notin enlazados'
    BY <1>10, <2>1 DEF Sabe, Activo
  <2>5. SeparaInv'
    BY <2>1, <2>3, <2>4, PropioKeeps
  <2>6. UNCHANGED <<ConectadoDir, PublicadoDir>>
    BY <1>10, <2>1, <2>2, <2>3, <2>4, <2>5, VistaQuieta DEF u, f
  <2>7. UNCHANGED <<PeticionDir, CodigoDir>>
    <3>1. CodigoDir'[t] = CodigoDir[t]
      BY <1>10, <2>1 DEF CodigoDir, Servida
    <3> QED
      BY <2>1, <2>3, <2>4, <2>5, <3>1, CodigoCambia, VistaCambia
  <2> QED
    BY <1>10, <2>5, <2>6, <2>7 DEF PasoDir, Dir!vars
<1> QED
  <2>1. hilo[t].pc = "pub_escribe" => t \in enlazados
    BY <1>2 DEF Sabe
  <2>2. /\ hilo[t].pc \in {"pub_conexion", "pub_existe"} => HayRegistro(u)
        /\ hilo[t].pc = "pub_existe" => HayConexion(u)
    BY <1>2, <1>3 DEF Sabe, u
  <2> QED
    BY <1>1, <1>3, <1>5, <1>6, <1>7, <1>8, <1>9, <1>10, <2>1, <2>2
    DEF Publish, Mira, En, u, f

\* The publication is removed, and the request decided, by one step; the
\* description file is none of the names that Directorio sees.
LEMMA DirDelete ==
  ASSUME ClientesSeparados, SeparaInv, ServidorInv', NEW t \in Hilos, Delete(t)
  PROVE  SeparaInv' /\ PasoDir(t)
<1> DEFINE u == hilo[t].user
           f == hilo[t].dato
           d == Descripcion[f]
           pcs == {"del_registro", "del_conexion", "del_existe", "del_borra"}
<1>1. /\ Activo(t)
      /\ hilo[t].pc \in pcs \cup {"del_desc", "del_limpia"}
      /\ hilo[t].pc \in pcs => ~Servida(t)
  BY DEF Delete, Mira, En, Activo, Servida
<1>2. hilo[t].op = "DELETE" /\ f \in Ficheros /\ Sabe(t) /\ d \notin Ficheros
  BY <1>1, FaseNombra DEF SeparaInv, ClientesSeparados
<1>3. /\ u \in Usuarios /\ (HayRegistro(u) <=> u \in registrados)
      /\ HayConexion(u) <=> conectados[u] # Ausente
      /\ f # Blanco /\ (HayPublicacion(f) <=> publicaciones[f] # Ausente)
      /\ "publicaciones" \in carpetas
  BY <1>1, <1>2, Halla DEF SeparaInv
<1>4. hilo[t].pc \in pcs =>
        /\ u \notin registrados => Dir!Codigo(Enviada(t)) = 1
        /\ u \in registrados => Dir!Codigo(Enviada(t)) =
             IF conectados[u] = Ausente THEN 2
             ELSE IF publicaciones[f] = Ausente THEN 3 ELSE 0
  BY <1>1, <1>2, CodigoEs
<1> HIDE DEF u, f, d
<1>5. CASE /\ hilo[t].pc = "del_registro" /\ ~HayRegistro(u)
           /\ Contesta(t, 1) /\ UNCHANGED disco
  BY <1>1, <1>3, <1>4, <1>5, DirNiega DEF PasoDir
<1>6. CASE /\ hilo[t].pc = "del_conexion" /\ ~HayConexion(u)
           /\ Contesta(t, 2) /\ UNCHANGED disco
  <2>1. Dir!Codigo(Enviada(t)) = 2
    BY <1>2, <1>3, <1>4, <1>6 DEF Sabe, u
  <2> QED
    BY <1>1, <1>6, <2>1, DirNiega DEF PasoDir
<1>7. CASE /\ hilo[t].pc = "del_existe" /\ ~HayPublicacion(f)
           /\ Contesta(t, 3) /\ UNCHANGED disco
  <2>1. Dir!Codigo(Enviada(t)) = 3
    BY <1>2, <1>3, <1>4, <1>7 DEF Sabe, u
  <2> QED
    BY <1>1, <1>7, <2>1, DirNiega DEF PasoDir
<1>8. ASSUME NEW pc \in pcs \ {"del_registro"},
             Sigue(t, pc), UNCHANGED disco, HayRegistro(u),
             hilo[t].pc \in {"del_registro", "del_conexion", "del_existe"},
             pc \in {"del_existe", "del_borra"} => HayConexion(u),
             pc = "del_borra" => HayPublicacion(f)
      PROVE  SeparaInv' /\ PasoDir(t)
  <2>1. hilo'[t].pc = pc /\ hilo'[t].user = u /\ hilo'[t].dato = f
    BY <1>8, SigueCampos DEF SeparaInv, ServidorInv, HiloPCs, u, f
  <2>2. Sabe(t)' /\ ~Servida(t)'
    BY <1>3, <1>8, <2>1 DEF Sabe, Servida, disco
  <2>3. pc \in Fase[hilo[t].op] /\ pc \in HiloPCs
    BY <1>2, <1>8 DEF Fase, HiloPCs
  <2> QED
    BY <1>1, <1>8, <2>2, <2>3, DirSigue DEF PasoDir
<1>9. CASE /\ hilo[t].pc = "del_borra"
           /\ publicaciones' = [r \in Rutas |->
                                  IF r = f THEN Ausente ELSE publicaciones[r]]
           /\ enlazados' = enlazados \ Publicando(f)
           /\ Sigue(t, "del_desc")
           /\ UNCHANGED <<carpetas, registrados, conectados>>
  <2>1. /\ hilo'[t].pc = "del_desc"
        /\ Enviada(t)' = Enviada(t)
        /\ hilo'[t].op = hilo[t].op /\ hilo'[t].user = hilo[t].user
        /\ hilo'[t].dato = f
        /\ \A v \in Hilos \ {t} : hilo'[v] = hilo[v]
    BY <1>9, SigueCampos DEF SeparaInv, ServidorInv, HiloPCs, f
  <2>2. Publicando(f) = {}
    BY <1>1, <1>2, <1>9 DEF Publicando, SeparaInv, Separados, Activo, f
  <2>3. /\ publicaciones'[f] = Ausente
        /\ \A g \in Ficheros \ {f} : publicaciones'[g] = publicaciones[g]
    BY <1>2, <1>9 DEF Rutas
  <2>4. Propio(t)
    BY <1>1, <1>9, <2>1, <2>2, <2>3 DEF Propio, f
  <2>5. Sabe(t)' /\ Activo(t)' /\ CodigoDir'[t] = 0 /\ t \notin enlazados'
    BY <1>9, <2>1 DEF Sabe, Activo, CodigoDir, Servida, SeparaInv
  <2>6. "del_desc" \in Fase[hilo[t].op]
    BY <1>2 DEF Fase
  <2>7. SeparaInv'
    BY <2>1, <2>4, <2>5, <2>6, PropioKeeps
  <2>8. PublicadoDir' = [PublicadoDir EXCEPT ![f] = Ausente]
    BY <2>1, <2>3, <2>4, <2>5, <2>7, VistaCambia DEF f
  <2>9. ConectadoDir' = ConectadoDir
    BY <1>9, <2>1, <2>4, <2>5, <2>7, VistaQuieta
  <2>10. Dir!Codigo(Enviada(t)) = 0
    BY <1>2, <1>4, <1>9 DEF Sabe, u, f
  <2>11. Dir!Efecto(Enviada(t))
    BY <1>2, <1>9, <2>8, <2>9 DEF Dir!Efecto, Enviada, f
  <2> QED
    BY <1>1, <1>9, <2>4, <2>5, <2>7, <2>10, <2>11, DirSirve DEF PasoDir
<1>10. CASE /\ hilo[t].pc \in {"del_desc", "del_limpia"}
            /\ \E c : publicaciones' = [publicaciones EXCEPT ![d] = c]
            /\ enlazados' \in {enlazados, enlazados \ Publicando(d)}
            /\ \/ hilo[t].pc = "del_desc" /\ Sigue(t, "del_limpia")
               \/ hilo[t].pc = "del_limpia" /\ Contesta(t, 0)
            /\ UNCHANGED <<carpetas, registrados, conectados>>
  <2>1. /\ \/ hilo'[t].pc = "del_limpia"
           \/ hilo'[t].pc = "responde" /\ hilo'[t].ret = 0
        /\ Enviada(t)' = Enviada(t)
        /\ hilo'[t].op = hilo[t].op /\ hilo'[t].user = hilo[t].user
        /\ hilo'[t].dato = hilo[t].dato
        /\ \A v \in Hilos \ {t} : hilo'[v] = hilo[v]
    <3>1. TypeOK
      BY DEF SeparaInv, ServidorInv
    <3>2. CASE Sigue(t, "del_limpia")
      BY <3>1, <3>2, SigueCampos DEF HiloPCs
    <3>3. CASE Contesta(t, 0)
      BY <3>1, <3>3, ContestaCampos
    <3> QED
      BY <1>10, <3>2, <3>3
  <2>2. Publicando(d) = {}
    <3>1. ASSUME NEW v \in Hilos, hilo[v].pc = "pub_escribe"
          PROVE  hilo[v].dato \in Ficheros
      BY <3>1, FaseNombra DEF SeparaInv, Activo
    <3> QED
      BY <1>2, <3>1 DEF Publicando
  <2>3. \A g \in Ficheros : publicaciones'[g] = publicaciones[g]
    BY <1>2, <1>10 DEF SeparaInv, ServidorInv, TypeOK, Rutas
  <2>4. Propio(t)
    BY <1>1, <1>10, <2>1, <2>2, <2>3 DEF Propio
  <2>5. Sabe(t)' /\ Activo(t)' /\ t \notin enlazados'
    BY <1>10, <2>1, <2>2 DEF Sabe, Activo, SeparaInv
  <2>6. "del_limpia" \in Fase[hilo[t].op]
    BY <1>2 DEF Fase
  <2>7. SeparaInv'
    BY <2>1, <2>4, <2>5, <2>6, PropioKeeps
  <2>8. ConectadoDir' = ConectadoDir
    BY <1>10, <2>1, <2>4, <2>5, <2>7, VistaQuieta
  <2>9. PublicadoDir' = PublicadoDir
    BY <1>10, <2>1, <2>3, <2>4, <2>5, <2>7, VistaQuieta
  <2>10. UNCHANGED <<PeticionDir, CodigoDir>>
    <3>1. CodigoDir'[t] = CodigoDir[t]
      BY <1>10, <2>1 DEF CodigoDir, Servida
    <3> QED
      BY <2>1, <2>4, <2>5, <2>7, <3>1, CodigoCambia, VistaCambia
  <2> QED
    BY <1>10, <2>7, <2>8, <2>9, <2>10 DEF PasoDir, Dir!vars
<1> QED
  <2>1. /\ hilo[t].pc \in {"del_conexion", "del_existe"} => HayRegistro(u)
        /\ hilo[t].pc = "del_existe" => HayConexion(u)
    BY <1>2, <1>3 DEF Sabe, u
  <2>2. CASE hilo[t].pc \in {"del_registro", "del_conexion", "del_existe"}
    BY <1>1, <1>3, <1>5, <1>6, <1>7, <1>8, <2>1, <2>2
    DEF Delete, Mira, En, u, f
  <2>3. CASE hilo[t].pc = "del_borra"
    BY <1>3, <1>9, <2>3 DEF Delete, Mira, En, f
  <2>4. CASE hilo[t].pc \in {"del_desc", "del_limpia"}
    BY <1>3, <1>10, <2>4 DEF Delete, Mira, En, f, d
  <2> QED
    BY <1>1, <2>2, <2>3, <2>4

-----------------------------------------------------------------------------
\* A step of a thread that has no file open, and opens none, is none of the
\* records' business.
LEMMA VistaAparte ==
  ASSUME NEW t \in Hilos, Aparte(t),
         UNCHANGED <<conectados, publicaciones, enlazados>>
  PROVE  UNCHANGED <<ConectadoDir, PublicadoDir>>
<1> DEFINE c(S) == CHOOSE w \in S : TRUE
<1>1. /\ \A u : Conectando(u)' = Conectando(u) /\ t \notin Conectando(u)
      /\ \A r : Publicando(r)' = Publicando(r) /\ t \notin Publicando(r)
  BY AparteKeepsSets DEF Aparte, Ocupado, Conectando, Publicando
<1>2. ASSUME NEW u PROVE Conexion(u)' = Conexion(u)
  <2> DEFINE E == Conectando(u) \cap enlazados
  <2>1. E' = E
    BY <1>1
  <2>2. E # {} => c(E) \in Conectando(u)
    OBVIOUS
  <2>3. E # {} => hilo'[c(E)] = hilo[c(E)]
    BY <1>1, <2>2 DEF Aparte, Conectando
  <2>4. /\ Conexion(u) = IF conectados[u] = Vacio /\ E # {}
                         THEN hilo[c(E)].dato ELSE conectados[u]
        /\ Conexion(u)' = IF conectados'[u] = Vacio /\ E' # {}
                          THEN hilo'[c(E')].dato ELSE conectados'[u]
    BY DEF Conexion
  <2> HIDE DEF c, E
  <2> QED
    BY <2>1, <2>3, <2>4
<1>3. ASSUME NEW f PROVE Publicacion(f)' = Publicacion(f)
  <2> DEFINE E == Publicando(f) \cap enlazados
  <2>1. E' = E
    BY <1>1
  <2>2. E # {} => c(E) \in Publicando(f)
    OBVIOUS
  <2>3. E # {} => hilo'[c(E)] = hilo[c(E)]
    BY <1>1, <2>2 DEF Aparte, Publicando
  <2>4. /\ Publicacion(f) = IF publicaciones[f] = Vacio /\ E # {}
                            THEN hilo[c(E)].user ELSE publicaciones[f]
        /\ Publicacion(f)' = IF publicaciones'[f] = Vacio /\ E' # {}
                             THEN hilo'[c(E')].user ELSE publicaciones'[f]
    BY DEF Publicacion
  <2> HIDE DEF c, E
  <2> QED
    BY <2>1, <2>3, <2>4
<1> QED
  BY <1>2, <1>3 DEF ConectadoDir, PublicadoDir

\* The request of a client whose user and publication no other concerns.
LEMMA DirRecibe ==
  ASSUME ClientesSeparados, SeparaInv, ServidorInv', NEW t \in Hilos,
         NEW p \in Peticiones, Recibe(t, p)
  PROVE  SeparaInv' /\ Dir!Pide(t, p)
<1> DEFINE m == [pc |-> "rpc", ret |-> hilo[t].ret, op |-> p.op,
                 user |-> p.user, dato |-> p.dato, llega |-> 3]
<1>1. /\ p \in [op : Operaciones, user : Cuentas, dato : Datos, llega : 0..3]
      /\ p.llega = 3 /\ p.user \in Usuarios
  BY ServidorAssumption DEF ClientesSeparados
<1>2. hilo' = [hilo EXCEPT ![t] = m]
  BY <1>1 DEF Recibe
<1>3. /\ hilo'[t] = m
      /\ \A v \in Hilos \ {t} : hilo'[v] = hilo[v]
  BY <1>2 DEF SeparaInv, ServidorInv, TypeOK
<1>4. /\ hilo[t].pc = "libre"
      /\ \A v \in Hilos : Activo(v) =>
           p.user # hilo[v].user /\ (p.dato \in Ficheros => p.dato # hilo[v].dato)
      /\ UNCHANGED <<carpetas, registrados, conectados, publicaciones, enlazados>>
  BY DEF Recibe, En, Chocan, Activo, ClientesSeparados, disco
<1>5. Enviada(t)' = p /\ hilo'[t].pc = "rpc" /\ hilo'[t].user = p.user
      /\ hilo'[t].dato = p.dato
  BY <1>1, <1>3 DEF Enviada
<1> HIDE DEF m
<1>6. ASSUME NEW v \in Hilos, Activo(v)' PROVE Sirviendo(v)' /\ Sabe(v)'
  <2>1. CASE v = t
    BY <1>5, <2>1 DEF Sirviendo, Sabe
  <2>2. CASE v # t
    <3>1. hilo'[v] = hilo[v] /\ Sirviendo(v) /\ Sabe(v)
      BY <1>3, <1>6, <2>2 DEF Activo, SeparaInv
    <3> QED
      BY <1>4, <3>1 DEF Sirviendo, Sabe, Enviada
  <2> QED
    BY <2>1, <2>2
<1>7. ASSUME NEW v \in Hilos, NEW w \in Hilos, Activo(v)', Activo(w)', v # w
      PROVE  Separados(v, w)'
  <2>1. CASE v = t
    BY <1>3, <1>4, <1>5, <1>7, <2>1 DEF Separados, Activo
  <2>2. CASE w = t
    BY <1>3, <1>4, <1>5, <1>7, <2>2 DEF Separados, Activo
  <2>3. CASE v # t /\ w # t
    BY <1>3, <1>7, <2>3 DEF Separados, Activo, SeparaInv
  <2> QED
    BY <2>1, <2>2, <2>3
<1>8. ASSUME NEW v \in enlazados'
      PROVE  hilo'[v].pc \in {"con_escribe", "pub_escribe"}
  BY <1>3, <1>4 DEF SeparaInv, ServidorInv, TypeOK
<1>9. SeparaInv'
  BY <1>4, <1>6, <1>7, <1>8 DEF SeparaInv
<1>10. UNCHANGED <<ConectadoDir, PublicadoDir>>
  BY <1>3, <1>4, <1>5, VistaAparte DEF Aparte, Ocupado
<1>11. PeticionDir[t] = Ausente /\ PeticionDir' = [PeticionDir EXCEPT ![t] = p]
  <2>1. PeticionDir'[t] = p /\ PeticionDir[t] = Ausente
    BY <1>4, <1>5 DEF PeticionDir
  <2>2. \A v \in Hilos \ {t} : PeticionDir'[v] = PeticionDir[v]
    BY <1>3 DEF PeticionDir, Enviada
  <2> QED
    BY <2>1, <2>2 DEF PeticionDir
<1>12. CodigoDir' = CodigoDir
  <2>1. CodigoDir'[t] = CodigoDir[t]
    BY <1>4, <1>5 DEF CodigoDir, Servida
  <2>2. \A v \in Hilos \ {t} : CodigoDir'[v] = CodigoDir[v]
    BY <1>3 DEF CodigoDir, Servida
  <2> QED
    BY <2>1, <2>2 DEF CodigoDir
<1> QED
  BY <1>4, <1>9, <1>10, <1>11, <1>12 DEF Dir!Pide

LEMMA DirResponde ==
  ASSUME ClientesSeparados, SeparaInv, ServidorInv', NEW t \in Hilos, Responde(t)
  PROVE  SeparaInv' /\ Dir!Contesta(t)
<1>1. /\ hilo[t].pc = "responde" /\ hilo'[t].pc = "libre"
      /\ \A v \in Hilos \ {t} : hilo'[v] = hilo[v]
      /\ UNCHANGED <<carpetas, registrados, conectados, publicaciones, enlazados>>
  BY DEF Responde, En, disco, PilaNueva, SeparaInv, ServidorInv, TypeOK
<1>2. ASSUME NEW v \in Hilos, Activo(v)' PROVE Sirviendo(v)' /\ Sabe(v)'
  <2>1. v # t /\ Activo(v) /\ hilo'[v] = hilo[v]
    BY <1>1, <1>2 DEF Activo
  <2> QED
    BY <1>1, <2>1 DEF SeparaInv, Sirviendo, Sabe, Enviada
<1>3. ASSUME NEW v \in Hilos, NEW w \in Hilos, Activo(v)', Activo(w)', v # w
      PROVE  Separados(v, w)'
  BY <1>1, <1>3 DEF Separados, Activo, SeparaInv
<1>4. ASSUME NEW v \in enlazados'
      PROVE  hilo'[v].pc \in {"con_escribe", "pub_escribe"}
  BY <1>1 DEF SeparaInv, ServidorInv, TypeOK
<1>5. SeparaInv'
  BY <1>1, <1>2, <1>3, <1>4 DEF SeparaInv
<1>6. UNCHANGED <<ConectadoDir, PublicadoDir>>
  BY <1>1, VistaAparte DEF Aparte, Ocupado
<1>7. PeticionDir' = [PeticionDir EXCEPT ![t] = Ausente]
  <2>1. PeticionDir'[t] = Ausente
    BY <1>1 DEF PeticionDir
  <2>2. \A v \in Hilos \ {t} : PeticionDir'[v] = PeticionDir[v]
    BY <1>1 DEF PeticionDir, Enviada
  <2> QED
    BY <2>1, <2>2 DEF PeticionDir
<1>8. CodigoDir[t] # 9 /\ CodigoDir' = [CodigoDir EXCEPT ![t] = 9]
  <2>1. CodigoDir[t] = hilo[t].ret /\ CodigoDir'[t] = 9
    BY <1>1 DEF CodigoDir, Servida
  <2>2. hilo[t].ret \in 0..3
    BY MarcoFields DEF SeparaInv, ServidorInv
  <2>3. \A v \in Hilos \ {t} : CodigoDir'[v] = CodigoDir[v]
    BY <1>1 DEF CodigoDir, Servida
  <2>4. CodigoDir' = [CodigoDir EXCEPT ![t] = 9]
    BY <2>1, <2>3 DEF CodigoDir
  <2>5. CodigoDir[t] # 9
    BY <2>1, <2>2
  <2> QED
    BY <2>4, <2>5
<1> QED
  BY <1>1, <1>5, <1>6, <1>7, <1>8 DEF Dir!Contesta, Dir!Pendiente

LEMMA DirRpc ==
  ASSUME ClientesSeparados, SeparaInv, ServidorInv', NEW t \in Hilos, Rpc(t)
  PROVE  SeparaInv' /\ PasoDir(t)
<1> DEFINE pc == Comienzo[hilo[t].op]
<1>1. /\ hilo[t].pc = "rpc" /\ hilo[t].op \in Operaciones
      /\ Sigue(t, pc) /\ UNCHANGED disco
  BY DEF Rpc, En
<1>2. /\ pc \in {"reg_existe", "unreg_existe", "con_registro", "dis_registro",
                  "pub_registro", "del_registro"}
      /\ pc \in Fase[hilo[t].op]
  <2>1. pc \in {"reg_existe", "unreg_existe", "con_registro", "dis_registro",
                "pub_registro", "del_registro"}
    BY <1>1 DEF Comienzo, Operaciones
  <2> DEFINE op == hilo[t].op
  <2>2. op \in Operaciones /\ pc = Comienzo[op]
    BY <1>1
  <2> HIDE DEF pc, op
  <2>3. op \in {"REGISTER", "UNREGISTER", "CONNECT"} => pc \in Fase[op]
    BY <2>2 DEF Comienzo, Operaciones, Fase
  <2>4. op \in {"DISCONNECT", "PUBLISH", "DELETE"} => pc \in Fase[op]
    BY <2>2 DEF Comienzo, Operaciones, Fase
  <2> QED
    BY <2>1, <2>2, <2>3, <2>4 DEF Operaciones, op
<1>3. pc \in HiloPCs
  BY <1>2 DEF HiloPCs
<1> HIDE DEF pc
<1>4. hilo'[t].pc = pc
  BY <1>1, <1>3, SigueCampos DEF SeparaInv, ServidorInv
<1>5. Activo(t) /\ ~Servida(t) /\ ~Servida(t)' /\ Sabe(t)'
  BY <1>1, <1>2, <1>4 DEF Activo, Servida, Sabe
<1> QED
  BY <1>1, <1>2, <1>3, <1>5, DirSigue DEF PasoDir

\* When the server falls, the records that were open are lost or written, as
\* Directorio says, and nothing else changes.
LEMMA DirMuere ==
  ASSUME ClientesSeparados, SeparaInv, ServidorInv', Muere
  PROVE  SeparaInv' /\ Dir!Cae
<1>1. PICK F \in SUBSET enlazados, M \in SUBSET Usuarios :
        /\ \A u \in M :
             SeMezclan(conectados[u], {hilo[t].dato : t \in F \cap Conectando(u)})
        /\ conectados' = [u \in Usuarios |->
             IF u \in M THEN Mezcla
             ELSE IF F \cap Conectando(u) = {} THEN conectados[u]
             ELSE hilo[CHOOSE t \in F \cap Conectando(u) : TRUE].dato]
        /\ publicaciones' = [r \in Rutas |->
             IF F \cap Publicando(r) = {} THEN publicaciones[r]
             ELSE hilo[CHOOSE t \in F \cap Publicando(r) : TRUE].user]
  BY DEF Muere
<1>2. /\ enlazados' = {} /\ UNCHANGED <<carpetas, registrados>>
      /\ \A t \in Hilos : hilo'[t].pc = "libre"
  BY DEF Muere, PilaNueva
<1>3. SeparaInv'
  BY <1>2 DEF SeparaInv, Activo
<1> DEFINE P == enlazados \ F
           c(S) == CHOOSE t \in S : TRUE
<1>4. P \subseteq Hilos /\ F \subseteq Hilos
  BY DEF SeparaInv, ServidorInv, TypeOK
<1>5. \A t \in Hilos :
        /\ hilo[t].pc = "con_escribe" =>
             /\ Dir!Servida(t, "CONNECT") /\ t \in enlazados
             /\ conectados[hilo[t].user] = Vacio
        /\ hilo[t].pc = "pub_escribe" =>
             /\ Dir!Servida(t, "PUBLISH") /\ t \in enlazados
             /\ publicaciones[hilo[t].dato] = Vacio /\ hilo[t].dato \in Ficheros
        /\ Activo(t) => /\ PeticionDir[t] = Enviada(t)
                        /\ PeticionDir[t].user = hilo[t].user
                        /\ PeticionDir[t].dato = hilo[t].dato
  <2> SUFFICES ASSUME NEW t \in Hilos, Activo(t)
               PROVE  /\ hilo[t].pc = "con_escribe" =>
                           /\ Dir!Servida(t, "CONNECT") /\ t \in enlazados
                           /\ conectados[hilo[t].user] = Vacio
                      /\ hilo[t].pc = "pub_escribe" =>
                           /\ Dir!Servida(t, "PUBLISH") /\ t \in enlazados
                           /\ publicaciones[hilo[t].dato] = Vacio
                           /\ hilo[t].dato \in Ficheros
                      /\ PeticionDir[t] = Enviada(t)
                      /\ PeticionDir[t].user = hilo[t].user
                      /\ PeticionDir[t].dato = hilo[t].dato
    BY DEF Activo
  <2>1. PeticionDir[t] = Enviada(t) /\ Enviada(t) # Ausente
    BY CamposSirviendo DEF PeticionDir, Activo, SeparaInv
  <2>2. /\ Enviada(t).op = hilo[t].op /\ Enviada(t).user = hilo[t].user
        /\ Enviada(t).dato = hilo[t].dato
    BY DEF Enviada
  <2>3. hilo[t].pc \in {"con_escribe", "pub_escribe"} => CodigoDir[t] = 0
    BY DEF CodigoDir, Servida
  <2>4. /\ hilo[t].pc = "con_escribe" => hilo[t].op = "CONNECT"
        /\ hilo[t].pc = "pub_escribe" =>
             hilo[t].op = "PUBLISH" /\ hilo[t].dato \in Ficheros
    BY FaseNombra DEF SeparaInv
  <2>5. Sabe(t)
    BY DEF SeparaInv
  <2> QED
    BY <2>1, <2>2, <2>3, <2>4, <2>5 DEF Dir!Servida, Sabe
<1>6. \A t \in P : /\ Activo(t)
                   /\ Dir!Servida(t, "CONNECT") => hilo[t].pc = "con_escribe"
                   /\ Dir!Servida(t, "PUBLISH") => hilo[t].pc = "pub_escribe"
  <2> SUFFICES ASSUME NEW t \in P
               PROVE  /\ Activo(t)
                      /\ Dir!Servida(t, "CONNECT") => hilo[t].pc = "con_escribe"
                      /\ Dir!Servida(t, "PUBLISH") => hilo[t].pc = "pub_escribe"
    OBVIOUS
  <2>1. t \in Hilos /\ hilo[t].pc \in {"con_escribe", "pub_escribe"}
    BY <1>4 DEF SeparaInv
  <2>2. Activo(t)
    BY <2>1 DEF Activo
  <2>3. PeticionDir[t].op = hilo[t].op
    <3>1. PeticionDir[t] = Enviada(t)
      BY <1>5, <2>1, <2>2
    <3>2. Enviada(t).op = hilo[t].op
      BY DEF Enviada
    <3> QED
      BY <3>1, <3>2
  <2>4. /\ hilo[t].pc = "con_escribe" => hilo[t].op = "CONNECT"
        /\ hilo[t].pc = "pub_escribe" => hilo[t].op = "PUBLISH"
    BY <2>1, <2>2, FaseNombra DEF SeparaInv
  <2> QED
    BY <2>1, <2>2, <2>3, <2>4 DEF Dir!Servida
<1>7. ASSUME NEW u \in Usuarios
      PROVE  Conexion(u)' =
               IF \E t \in P : Dir!Servida(t, "CONNECT") /\ PeticionDir[t].user = u
               THEN Vacio ELSE Conexion(u)
  <2>1. Conexion(u)' = conectados'[u]
    BY <1>2 DEF Conexion
  <2>2. /\ \A t, v \in Conectando(u) : t = v
        /\ Conectando(u) # {} => conectados[u] = Vacio
    BY <1>5 DEF Conectando, SeparaInv, Separados, Activo
  <2>6. u \notin M
    <3>1. ASSUME NEW t \in Conectando(u),
                 SeMezclan(Vacio, {hilo[v].dato : v \in {t}})
          PROVE  FALSE
      BY <3>1 DEF SeMezclan
    <3> SUFFICES ASSUME u \in M PROVE FALSE
      OBVIOUS
    <3>2. PICK t : F \cap Conectando(u) = {t}
      BY <1>1, <2>2 DEF SeMezclan
    <3> QED
      BY <1>1, <2>2, <3>1, <3>2
  <2>3. CASE \E t \in P : Dir!Servida(t, "CONNECT") /\ PeticionDir[t].user = u
    <3>1. PICK t \in P : Dir!Servida(t, "CONNECT") /\ PeticionDir[t].user = u
      BY <2>3
    <3>2. t \in Conectando(u) /\ conectados[u] = Vacio
      BY <1>4, <1>5, <1>6, <3>1 DEF Conectando
    <3>3. F \cap Conectando(u) = {}
      BY <2>2, <3>2
    <3> QED
      BY <1>1, <2>1, <2>3, <2>6, <3>2, <3>3
  <2>4. CASE /\ ~ \E t \in P : Dir!Servida(t, "CONNECT") /\ PeticionDir[t].user = u
             /\ F \cap Conectando(u) # {}
    <3>1. PICK t \in F \cap Conectando(u) : TRUE
      BY <2>4
    <3>2. F \cap Conectando(u) = {t}
      BY <2>2
    <3>3. c({t}) = t
      OBVIOUS
    <3>4. conectados'[u] = hilo[t].dato
      BY <1>1, <2>4, <2>6, <3>2, <3>3
    <3>5. Conexion(u) = hilo[t].dato
      BY <3>1, VistaPropia DEF Conectando, Activo
    <3> QED
      BY <2>1, <2>4, <3>4, <3>5
  <2>5. CASE /\ ~ \E t \in P : Dir!Servida(t, "CONNECT") /\ PeticionDir[t].user = u
             /\ F \cap Conectando(u) = {}
    <3>1. Conectando(u) = {}
      BY <1>5, <2>5 DEF Conectando, Activo
    <3>2. Conexion(u) = conectados[u]
      BY <3>1 DEF Conexion
    <3> QED
      BY <1>1, <2>1, <2>5, <2>6, <3>2
  <2> QED
    BY <2>3, <2>4, <2>5
<1>8. ASSUME NEW f \in Ficheros
      PROVE  Publicacion(f)' =
               IF \E t \in P : Dir!Servida(t, "PUBLISH") /\ PeticionDir[t].dato = f
               THEN Vacio ELSE Publicacion(f)
  <2>1. Publicacion(f)' = publicaciones'[f] /\ f \in Rutas
    BY <1>2 DEF Publicacion, Rutas
  <2>2. \A t, v \in Publicando(f) : t = v
    BY DEF Publicando, SeparaInv, Separados, Activo
  <2>3. CASE \E t \in P : Dir!Servida(t, "PUBLISH") /\ PeticionDir[t].dato = f
    <3>1. PICK t \in P : Dir!Servida(t, "PUBLISH") /\ PeticionDir[t].dato = f
      BY <2>3
    <3>2. t \in Publicando(f) /\ publicaciones[f] = Vacio
      BY <1>4, <1>5, <1>6, <3>1 DEF Publicando
    <3>3. F \cap Publicando(f) = {}
      BY <2>2, <3>2
    <3> QED
      BY <1>1, <2>1, <2>3, <3>2, <3>3
  <2>4. CASE /\ ~ \E t \in P : Dir!Servida(t, "PUBLISH") /\ PeticionDir[t].dato = f
             /\ F \cap Publicando(f) # {}
    <3>1. PICK t \in F \cap Publicando(f) : TRUE
      BY <2>4
    <3>2. F \cap Publicando(f) = {t}
      BY <2>2
    <3>3. c({t}) = t
      OBVIOUS
    <3>4. publicaciones'[f] = hilo[t].user
      BY <1>1, <2>1, <2>4, <3>2, <3>3
    <3>5. Publicacion(f) = hilo[t].user
      BY <3>1, VistaPropia DEF Publicando, Activo
    <3> QED
      BY <2>1, <2>4, <3>4, <3>5
  <2>5. CASE /\ ~ \E t \in P : Dir!Servida(t, "PUBLISH") /\ PeticionDir[t].dato = f
             /\ F \cap Publicando(f) = {}
    <3>1. Publicando(f) = {}
      BY <1>5, <2>5 DEF Publicando, Activo
    <3>2. Publicacion(f) = publicaciones[f]
      BY <3>1 DEF Publicacion
    <3> QED
      BY <1>1, <2>1, <2>5, <3>2
  <2> QED
    BY <2>3, <2>4, <2>5
<1>9. /\ PeticionDir' = [t \in Hilos |-> Ausente]
      /\ CodigoDir' = [t \in Hilos |-> 9]
  BY <1>2 DEF PeticionDir, CodigoDir, Servida
<1>10. /\ ConectadoDir' = [u \in Usuarios |->
            IF \E t \in P : Dir!Servida(t, "CONNECT") /\ PeticionDir[t].user = u
            THEN Vacio ELSE ConectadoDir[u]]
       /\ PublicadoDir' = [f \in Ficheros |->
            IF \E t \in P : Dir!Servida(t, "PUBLISH") /\ PeticionDir[t].dato = f
            THEN Vacio ELSE PublicadoDir[f]]
  BY <1>7, <1>8 DEF ConectadoDir, PublicadoDir
<1> HIDE DEF P
<1>11. P \in SUBSET Hilos
  BY <1>4 DEF P
<1> QED
  BY <1>2, <1>3, <1>9, <1>10, <1>11 DEF Dir!Cae, Dir!Pendiente

-----------------------------------------------------------------------------
LEMMA SeparaInit == ClientesSeparados /\ Init => SeparaInv /\ Dir!Init
<1> SUFFICES ASSUME ClientesSeparados, Init PROVE SeparaInv /\ Dir!Init
  OBVIOUS
<1>1. \A t \in Hilos : hilo[t].pc = "libre"
  BY DEF Init, PilaNueva
<1>2. ServidorInv
  BY InitInv
<1>3. SeparaInv
  BY <1>1, <1>2 DEF SeparaInv, Activo, Init, ClientesSeparados
<1>4. \A u \in Usuarios : Conexion(u) = Ausente
  BY ContentsDiffer DEF Init, Conexion
<1>5. \A f \in Ficheros : Publicacion(f) = Ausente
  BY ContentsDiffer DEF Init, Publicacion, Rutas
<1>6. /\ ConectadoDir = [u \in Usuarios |-> Ausente]
      /\ PublicadoDir = [f \in Ficheros |-> Ausente]
  BY <1>4, <1>5 DEF ConectadoDir, PublicadoDir
<1>7. /\ PeticionDir = [t \in Hilos |-> Ausente]
      /\ CodigoDir = [t \in Hilos |-> 9]
  BY <1>1 DEF PeticionDir, CodigoDir, Servida
<1> QED
  BY <1>3, <1>6, <1>7 DEF Init, Dir!Init, Dir!Pendiente

\* Every step keeps the invariant, and is a step of Directorio or leaves it as
\* it is.
LEMMA SeparaStep ==
  ASSUME ClientesSeparados, SeparaInv, [Next]_vars
  PROVE  SeparaInv' /\ [Dir!Next]_(Dir!vars)
<1>1. ServidorInv'
  BY StepInv DEF SeparaInv
<1>2. ASSUME NEW t \in Hilos, NEW p \in Peticiones, Recibe(t, p)
      PROVE  SeparaInv' /\ Dir!Next
  BY <1>1, <1>2, DirRecibe DEF Dir!Next
<1>3. ASSUME NEW t \in Hilos, Desconocida(t) PROVE FALSE
  BY <1>3, CamposSirviendo DEF Desconocida, En, SeparaInv, Activo
<1>4. ASSUME NEW t \in Hilos, Responde(t) PROVE SeparaInv' /\ Dir!Next
  BY <1>1, <1>4, DirResponde DEF Dir!Next
<1>5. ASSUME NEW t \in Hilos, Trata(t), ~Responde(t)
      PROVE  SeparaInv' /\ [Dir!Next]_(Dir!vars)
  <2>1. SeparaInv' /\ PasoDir(t)
    BY <1>1, <1>3, <1>5, DirRpc, DirRegister, DirUnregister, DirConnect,
       DirDisconnect, DirPublish, DirDelete DEF Trata
  <2> QED
    BY <2>1 DEF PasoDir, Dir!Next
<1>6. CASE Muere
  BY <1>1, <1>6, DirMuere DEF Dir!Next
<1>7. CASE Reinicia \/ UNCHANGED vars
  <2>1. UNCHANGED <<carpetas, registrados, conectados, publicaciones, enlazados,
                    hilo>>
    BY <1>7 DEF Reinicia, vars, disco
  <2>2. SeparaInv'
    BY <1>1, <2>1 DEF SeparaInv, Activo, Sirviendo, Sabe, Separados, Enviada
  <2>3. \A u, f : Conexion(u)' = Conexion(u) /\ Publicacion(f)' = Publicacion(f)
    BY <2>1 DEF Conexion, Publicacion, Conectando, Publicando
  <2>4. UNCHANGED <<ConectadoDir, PublicadoDir, PeticionDir, CodigoDir>>
    BY <2>1, <2>3
    DEF ConectadoDir, PublicadoDir, PeticionDir, CodigoDir, Servida, Enviada
  <2> QED
    BY <2>1, <2>2, <2>4 DEF Dir!vars
<1> QED
  BY <1>2, <1>4, <1>5, <1>6, <1>7 DEF Next, Falla, Sigint

-----------------------------------------------------------------------------
\* What a thread has found still holds when it acts, as long as requests in
\* progress concern different users and publications (servidor.c:73-552).
THEOREM SeparaCorrect == ASSUME ClientesSeparados PROVE Spec => []SeparaInv
<1>1. Init => SeparaInv
  BY SeparaInit
<1>2. SeparaInv /\ [Next]_vars => SeparaInv'
  BY SeparaStep
<1> QED
  BY <1>1, <1>2, PTL DEF Spec

\* The server answers each request as if it were served in one step, and a fall
\* loses no more than the records that were open (servidor.c:73-552).
THEOREM DirectorioImplemented ==
  ASSUME ClientesSeparados PROVE Spec => ImplementsDirectorio
<1>1. Init => Dir!Init
  BY SeparaInit
<1>2. SeparaInv /\ [Next]_vars => [Dir!Next]_(Dir!vars)
  BY SeparaStep
<1>3. Dir!Init /\ [][Dir!Next]_(Dir!vars) => ImplementsDirectorio
  BY DEF ImplementsDirectorio, Dir!Spec
<1> QED
  BY <1>1, <1>2, <1>3, SeparaCorrect, PTL DEF Spec
=============================================================================
