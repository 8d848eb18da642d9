---------------------------- MODULE ListadosProofs ---------------------------
(***************************************************************************)
(* Proofs about Listados, for every set of threads, readers, users,        *)
(* publications and requests: what the readers keep has its types and,     *)
(* when the requests in progress concern different users and publications, *)
(* each file that stays as it is while a reader goes through its directory *)
(* is listed, or found, as it should be.                                   *)
(***************************************************************************)
EXTENDS Listados, ServidorProofs

\* Every request arrives whole, and those in progress name different users and
\* publications.
PeticionesEnteras == ~Solapan /\ \A p \in Peticiones : p.llega = 3

Activo(t) == hilo[t].pc # "libre"
Separados(t, v) ==
  /\ hilo[t].user # hilo[v].user
  /\ hilo[t].dato \in Ficheros => hilo[t].dato # hilo[v].dato

\* Where t writes there is no record: what it creates is new, or so it is
\* until a DELETE of another name has made its description file there.
SobreVacio(t) ==
  LET u == hilo[t].user
      f == hilo[t].dato IN
  /\ hilo[t].pc = "con_crea" /\ u \in Usuarios /\ "conectados" \in carpetas =>
       conectados[u] = Ausente
  /\ hilo[t].pc = "con_escribe" /\ t \in enlazados => conectados[u] = Vacio
  /\ hilo[t].pc = "pub_crea" /\ f \in Ficheros /\ "publicaciones" \in carpetas =>
       publicaciones[f] \in {Ausente, Vacio}
  /\ hilo[t].pc = "pub_escribe" /\ t \in enlazados /\ f \in Ficheros =>
       publicaciones[f] = Vacio

EscriturasInv ==
  /\ ServidorInv
  /\ \A t, v \in Hilos : t # v /\ Activo(t) /\ Activo(v) => Separados(t, v)
  /\ \A t \in Hilos : SobreVacio(t)

\* A record that is written stays as it is until it is removed.
RegistrosQuedan ==
  /\ \A u \in Usuarios : conectados[u] \notin {Ausente, Vacio} =>
       conectados'[u] \in {conectados[u], Ausente}
  /\ \A r \in Rutas : publicaciones[r] \notin {Ausente, Vacio} =>
       publicaciones'[r] \in {publicaciones[r], Ausente}

-----------------------------------------------------------------------------
\* A step of t that touches the record of its user and of its publication, and
\* description files, at most.
SoloLoSuyo(t) ==
  /\ \A v \in Hilos \ {t} : hilo'[v] = hilo[v]
  /\ Activo(t)
  /\ carpetas' \subseteq carpetas
  /\ enlazados' \subseteq enlazados \cup {t}
  /\ \A u \in Usuarios : u # hilo[t].user => conectados'[u] = conectados[u]
  /\ \A r \in Rutas : r # hilo[t].dato =>
       \/ publicaciones'[r] = publicaciones[r]
       \/ publicaciones[r] = Ausente /\ publicaciones'[r] = Vacio
       \/ publicaciones'[r] = Ausente /\ enlazados' \cap Publicando(r) = {}

LEMMA SoloLoSuyoKeeps ==
  ASSUME EscriturasInv, ServidorInv', NEW t \in Hilos, SoloLoSuyo(t),
         hilo'[t].user = hilo[t].user \/ ~Activo(t)',
         hilo'[t].dato = hilo[t].dato \/ hilo'[t].dato \notin Ficheros,
         SobreVacio(t)'
  PROVE  EscriturasInv'
<1>1. ASSUME NEW v \in Hilos \ {t}, NEW w \in Hilos \ {v},
             Activo(v)', Activo(w)'
      PROVE  Separados(v, w)' /\ Separados(w, v)'
  <2>1. Separados(v, w) /\ Separados(w, v)
    BY <1>1 DEF EscriturasInv, SoloLoSuyo, Activo
  <2>2. CASE w = t
    BY <1>1, <2>1, <2>2 DEF SoloLoSuyo, Separados
  <2>3. CASE w # t
    BY <1>1, <2>1, <2>3 DEF SoloLoSuyo, Separados
  <2> QED
    BY <2>2, <2>3
<1>2. ASSUME NEW v \in Hilos \ {t} PROVE SobreVacio(v)'
  <2>1. hilo'[v] = hilo[v] /\ SobreVacio(v) /\ (Activo(v) => Separados(v, t))
    BY DEF SoloLoSuyo, EscriturasInv
  <2>2. hilo[v].pc = "con_escribe" => hilo[v].user \in Usuarios
    BY DEF EscriturasInv, ServidorInv, ConectaBien
  <2>3. v \in enlazados' => v \in enlazados
    BY DEF SoloLoSuyo
  <2>4. hilo[v].pc \in {"con_crea", "con_escribe"} /\ hilo[v].user \in Usuarios =>
          conectados'[hilo[v].user] = conectados[hilo[v].user]
    BY <2>1 DEF SoloLoSuyo, Separados, Activo
  <2>5. Ficheros \subseteq Rutas /\ Ausente # Vacio
    BY ContentsDiffer DEF Rutas
  <2>6. ASSUME hilo[v].pc = "pub_crea", hilo[v].dato \in Ficheros,
               publicaciones[hilo[v].dato] \in {Ausente, Vacio}
        PROVE  publicaciones'[hilo[v].dato] \in {Ausente, Vacio}
    BY <2>1, <2>5, <2>6 DEF SoloLoSuyo, Separados, Activo
  <2>7. ASSUME hilo[v].pc = "pub_escribe", hilo[v].dato \in Ficheros,
               v \in enlazados', publicaciones[hilo[v].dato] = Vacio
        PROVE  publicaciones'[hilo[v].dato] = Vacio
    <3>1. v \in Publicando(hilo[v].dato)
      BY <2>7 DEF Publicando
    <3> QED
      BY <2>1, <2>5, <2>7, <3>1 DEF SoloLoSuyo, Separados, Activo
  <2>8. carpetas' \subseteq carpetas
    BY DEF SoloLoSuyo
  <2> QED
    BY <2>1, <2>2, <2>3, <2>4, <2>6, <2>7, <2>8 DEF SobreVacio
<1> QED
  BY <1>1, <1>2 DEF EscriturasInv

\* A step that writes no record.
LEMMA SinEscribir ==
  ASSUME EscriturasInv, ServidorInv', NEW t \in Hilos, Activo(t),
         \A v \in Hilos \ {t} : hilo'[v] = hilo[v],
         carpetas' \subseteq carpetas,
         UNCHANGED <<conectados, publicaciones, enlazados>>,
         hilo'[t].user = hilo[t].user \/ ~Activo(t)',
         hilo'[t].dato = hilo[t].dato \/ hilo'[t].dato \notin Ficheros,
         SobreVacio(t)'
  PROVE  EscriturasInv' /\ RegistrosQuedan
<1>1. SoloLoSuyo(t)
  BY DEF SoloLoSuyo
<1> QED
  BY <1>1, SoloLoSuyoKeeps DEF RegistrosQuedan

LEMMA OtroPaso ==
  ASSUME NEW t \in Hilos,
         hilo'[t].pc \notin {"con_crea", "con_escribe", "pub_crea", "pub_escribe"}
  PROVE  SobreVacio(t)'
BY DEF SobreVacio

LEMMA ContestaCampos ==
  ASSUME TypeOK, NEW t \in Hilos, NEW ret \in 0..3, Contesta(t, ret)
  PROVE  /\ hilo'[t].pc = "responde"
         /\ hilo'[t].user = hilo[t].user /\ hilo'[t].dato = hilo[t].dato
         /\ \A v \in Hilos \ {t} : hilo'[v] = hilo[v]
<1> DEFINE m == [hilo[t] EXCEPT !.pc = "responde", !.ret = ret]
<1>1. m.pc = "responde" /\ m.user = hilo[t].user /\ m.dato = hilo[t].dato
  <2>1. hilo[t] \in Marcos
    BY DEF TypeOK
  <2> QED
    BY <2>1 DEF Marcos
<1>2. hilo' = [hilo EXCEPT ![t] = m]
  BY DEF Contesta
<1> HIDE DEF m
<1> QED
  BY <1>1, <1>2 DEF TypeOK

\* Answering, and moving on without having looked at anything.
LEMMA ContestaSinEscribir ==
  ASSUME EscriturasInv, ServidorInv', NEW t \in Hilos, Activo(t),
         NEW ret \in 0..3, Contesta(t, ret), carpetas' \subseteq carpetas,
         UNCHANGED <<conectados, publicaciones, enlazados>>
  PROVE  EscriturasInv' /\ RegistrosQuedan
<1>1. /\ hilo'[t].pc = "responde"
      /\ hilo'[t].user = hilo[t].user /\ hilo'[t].dato = hilo[t].dato
      /\ \A v \in Hilos \ {t} : hilo'[v] = hilo[v]
  BY ContestaCampos DEF EscriturasInv, ServidorInv
<1>2. SobreVacio(t)'
  BY <1>1, OtroPaso
<1> QED
  BY <1>1, <1>2, SinEscribir

LEMMA SigueSinEscribir ==
  ASSUME EscriturasInv, ServidorInv', NEW t \in Hilos, Activo(t),
         NEW pc \in HiloPCs \ {"con_escribe", "pub_escribe"}, Sigue(t, pc),
         UNCHANGED disco,
         pc = "con_crea" => ~HayConexion(hilo[t].user),
         pc = "pub_crea" => ~HayPublicacion(hilo[t].dato)
  PROVE  EscriturasInv' /\ RegistrosQuedan
<1>1. /\ hilo'[t].pc = pc
      /\ hilo'[t].user = hilo[t].user /\ hilo'[t].dato = hilo[t].dato
      /\ \A v \in Hilos \ {t} : hilo'[v] = hilo[v]
  BY SigueType DEF EscriturasInv, ServidorInv
<1>2. UNCHANGED <<carpetas, conectados, publicaciones, enlazados>>
  BY DEF disco
<1>3. SobreVacio(t)'
  BY <1>1, <1>2 DEF SobreVacio, HayConexion, HayPublicacion
<1> QED
  BY <1>1, <1>2, <1>3, SinEscribir

\* The requests that only look, answer or touch the registrations.
LEMMA ComienzoQueda ==
  ASSUME EscriturasInv, ServidorInv', NEW t \in Hilos,
         Rpc(t) \/ Desconocida(t) \/ Responde(t)
  PROVE  EscriturasInv' /\ RegistrosQuedan
<1>1. CASE Rpc(t)
  <2>1. Comienzo[hilo[t].op] \in HiloPCs \ {"con_escribe", "pub_escribe", "con_crea", "pub_crea"}
    BY <1>1 DEF Rpc, Comienzo, Operaciones, HiloPCs
  <2> QED
    BY <1>1, <2>1, SigueSinEscribir DEF Rpc, En, Activo
<1>2. CASE Desconocida(t)
  BY <1>2, Codes, ContestaSinEscribir DEF Desconocida, En, Activo, disco
<1>3. CASE Responde(t)
  <2>1. hilo'[t].pc = "libre" /\ hilo'[t].dato = Blanco
        /\ \A v \in Hilos \ {t} : hilo'[v] = hilo[v]
    BY <1>3 DEF Responde, PilaNueva, EscriturasInv, ServidorInv, TypeOK
  <2>2. SobreVacio(t)'
    BY <2>1, OtroPaso
  <2>3. Blanco \notin Ficheros
    BY ServidorAssumption DEF Rutas
  <2> QED
    BY <1>3, <2>1, <2>2, <2>3, SinEscribir DEF Responde, En, Activo, disco
<1> QED
  BY <1>1, <1>2, <1>3

LEMMA RegistroQueda ==
  ASSUME EscriturasInv, ServidorInv', vivo', NEW t \in Hilos,
         Register(t) \/ Unregister(t)
  PROVE  EscriturasInv' /\ RegistrosQuedan
<1>1. ~Muere /\ {"reg_crea", "unreg_borra"} \subseteq
                  HiloPCs \ {"con_escribe", "pub_escribe", "con_crea", "pub_crea"}
  BY DEF Muere, HiloPCs
<1>2. CASE Register(t)
  <2>1. CASE \E ret \in {0, 1} : /\ hilo[t].pc \in {"reg_existe", "reg_crea"}
               /\ Contesta(t, ret)
               /\ UNCHANGED <<carpetas, conectados, publicaciones, enlazados>>
    BY <2>1, Codes, ContestaSinEscribir DEF Activo
  <2>2. CASE Mira(t, "reg_existe") /\ Sigue(t, "reg_crea")
    BY <1>1, <2>2, SigueSinEscribir DEF Mira, En, Activo
  <2> QED
    BY <1>1, <1>2, <2>1, <2>2 DEF Register, Mira, En, disco
<1>3. CASE Unregister(t)
  <2>1. CASE \E ret \in {0, 1} : /\ hilo[t].pc \in {"unreg_existe", "unreg_borra"}
               /\ Contesta(t, ret) /\ carpetas' \subseteq carpetas
               /\ UNCHANGED <<conectados, publicaciones, enlazados>>
    BY <2>1, Codes, ContestaSinEscribir DEF Activo
  <2>2. CASE Mira(t, "unreg_existe") /\ Sigue(t, "unreg_borra")
    BY <1>1, <2>2, SigueSinEscribir DEF Mira, En, Activo
  <2> QED
    BY <1>3, <2>1, <2>2 DEF Unregister, Mira, En, disco
<1> QED
  BY <1>2, <1>3

\* CONNECT creates the record of its user and writes it.
LEMMA ConnectQueda ==
  ASSUME EscriturasInv, ServidorInv', vivo', NEW t \in Hilos, Connect(t)
  PROVE  EscriturasInv' /\ RegistrosQuedan
<1> DEFINE u == hilo[t].user
           puerto == IF hilo[t].dato \in Puertos THEN hilo[t].dato ELSE Blanco
<1>1. ~Muere /\ {"con_conexion", "con_crea"} \subseteq
                  HiloPCs \ {"con_escribe", "pub_escribe", "pub_crea"}
  BY DEF Muere, HiloPCs
<1>2. /\ TypeOK /\ u \in Cuentas /\ puerto \in Puertos \cup {Blanco}
      /\ puerto \notin Ficheros
  BY MarcoFields, ServidorAssumption DEF EscriturasInv, ServidorInv, Rutas
<1>3. CASE /\ hilo[t].pc \in {"con_registro", "con_conexion"}
           /\ \E ret \in {1, 2} : Contesta(t, ret)
           /\ UNCHANGED disco
  BY <1>3, Codes, ContestaSinEscribir DEF Activo, disco
<1>4. CASE /\ hilo[t].pc = "con_registro" /\ Sigue(t, "con_conexion")
           /\ UNCHANGED disco
  BY <1>1, <1>4, SigueSinEscribir DEF Activo
<1>5. CASE /\ hilo[t].pc = "con_conexion" /\ ~HayConexion(u)
           /\ Sigue(t, "con_crea") /\ UNCHANGED disco
  BY <1>1, <1>5, SigueSinEscribir DEF Activo
<1>6. CASE /\ hilo[t].pc = "con_crea" /\ "conectados" \in carpetas /\ u # Blanco
           /\ conectados' = [conectados EXCEPT ![u] = Vacio]
           /\ hilo' = [hilo EXCEPT ![t] = [hilo[t] EXCEPT
                         !.pc = "con_escribe", !.dato = puerto]]
           /\ enlazados' = enlazados \cup {t}
           /\ UNCHANGED <<carpetas, publicaciones>>
  <2>1. u \in Usuarios /\ conectados[u] = Ausente
    BY <1>2, <1>6 DEF Cuentas, EscriturasInv, SobreVacio
  <2>2. /\ conectados'[u] = Vacio
        /\ \A v \in Usuarios : v # u => conectados'[v] = conectados[v]
    BY <1>2, <1>6, <2>1 DEF TypeOK
  <2>3. /\ hilo'[t].pc = "con_escribe" /\ hilo'[t].user = u
        /\ hilo'[t].dato = puerto /\ \A v \in Hilos \ {t} : hilo'[v] = hilo[v]
    BY <1>2, <1>6, AbreConexionType
  <2> HIDE DEF u, puerto
  <2>4. SobreVacio(t)'
    BY <2>2, <2>3 DEF SobreVacio
  <2>5. SoloLoSuyo(t)
    BY <1>6, <2>2, <2>3 DEF SoloLoSuyo, Activo, u
  <2>6. RegistrosQuedan
    BY <1>6, <2>1, <2>2 DEF RegistrosQuedan
  <2> QED
    BY <1>2, <2>3, <2>4, <2>5, <2>6, SoloLoSuyoKeeps DEF u
<1>7. CASE /\ hilo[t].pc = "con_escribe"
           /\ IF t \in enlazados
              THEN \E c : conectados' = [conectados EXCEPT ![u] = c]
              ELSE UNCHANGED conectados
           /\ enlazados' = enlazados \ {t}
           /\ Contesta(t, 0)
           /\ UNCHANGED <<carpetas, publicaciones>>
  <2>1. u \in Usuarios /\ (t \in enlazados => conectados[u] = Vacio)
    BY <1>7 DEF EscriturasInv, ServidorInv, ConectaBien, SobreVacio
  <2>2. /\ \A v \in Usuarios : v # u => conectados'[v] = conectados[v]
        /\ conectados[u] # Vacio => conectados'[u] = conectados[u]
    BY <1>2, <1>7, <2>1 DEF TypeOK
  <2>3. /\ hilo'[t].pc = "responde" /\ hilo'[t].user = u
        /\ hilo'[t].dato = hilo[t].dato
        /\ \A v \in Hilos \ {t} : hilo'[v] = hilo[v]
    BY <1>2, <1>7, Codes, ContestaCampos
  <2> HIDE DEF u, puerto
  <2>4. SobreVacio(t)'
    BY <2>3, OtroPaso
  <2>5. SoloLoSuyo(t)
    BY <1>7, <2>2, <2>3 DEF SoloLoSuyo, Activo, u
  <2>6. RegistrosQuedan
    BY <1>7, <2>2 DEF RegistrosQuedan
  <2> QED
    BY <2>3, <2>4, <2>5, <2>6, SoloLoSuyoKeeps DEF u
<1> QED
  BY <1>1, <1>3, <1>4, <1>5, <1>6, <1>7 DEF Connect, Mira, En

\* DISCONNECT removes it.
LEMMA DisconnectQueda ==
  ASSUME EscriturasInv, ServidorInv', NEW t \in Hilos, Disconnect(t)
  PROVE  EscriturasInv' /\ RegistrosQuedan
<1> DEFINE u == hilo[t].user
<1>1. {"dis_conexion", "dis_borra"} \subseteq
        HiloPCs \ {"con_escribe", "pub_escribe", "con_crea", "pub_crea"}
  BY DEF HiloPCs
<1>2. CASE /\ hilo[t].pc \in {"dis_registro", "dis_conexion"}
           /\ \E ret \in {1, 2} : Contesta(t, ret)
           /\ UNCHANGED disco
  BY <1>2, Codes, ContestaSinEscribir DEF Activo, disco
<1>3. CASE /\ hilo[t].pc \in {"dis_registro", "dis_conexion"}
           /\ \E pc \in {"dis_conexion", "dis_borra"} : Sigue(t, pc)
           /\ UNCHANGED disco
  BY <1>1, <1>3, SigueSinEscribir DEF Activo
<1>4. CASE /\ hilo[t].pc = "dis_borra"
           /\ conectados' = [v \in Usuarios |->
                               IF v = u THEN Ausente ELSE conectados[v]]
           /\ carpetas' \subseteq carpetas
           /\ enlazados' = enlazados \ Conectando(u)
           /\ Contesta(t, 0)
           /\ UNCHANGED publicaciones
  <2>1. /\ hilo'[t].pc = "responde" /\ hilo'[t].user = u
        /\ hilo'[t].dato = hilo[t].dato
        /\ \A v \in Hilos \ {t} : hilo'[v] = hilo[v]
    BY <1>4, Codes, ContestaCampos DEF EscriturasInv, ServidorInv
  <2>2. \A v \in Usuarios :
          conectados'[v] = IF v = u THEN Ausente ELSE conectados[v]
    BY <1>4
  <2> HIDE DEF u
  <2>3. SobreVacio(t)'
    BY <2>1, OtroPaso
  <2>4. SoloLoSuyo(t)
    BY <1>4, <2>1, <2>2 DEF SoloLoSuyo, Activo, u
  <2>5. RegistrosQuedan
    BY <1>4, <2>2 DEF RegistrosQuedan
  <2> QED
    BY <2>1, <2>3, <2>4, <2>5, SoloLoSuyoKeeps DEF u
<1> QED
  BY <1>2, <1>3, <1>4 DEF Disconnect, Mira, En

\* What a thread publishes or deletes is none of the description files, unless
\* somebody publishes under that name.
LEMMA NombrePublicado ==
  ASSUME TypeOK, NEW t \in Hilos, hilo[t].dato \in Rutas
  PROVE  hilo[t].dato \in Ficheros
BY MarcoFields, ServidorAssumption DEF Datos

\* PUBLISH creates the publication and writes it.
LEMMA PublishQueda ==
  ASSUME EscriturasInv, ServidorInv', vivo', NEW t \in Hilos, Publish(t)
  PROVE  EscriturasInv' /\ RegistrosQuedan
<1> DEFINE u == hilo[t].user
           f == hilo[t].dato
<1>1. ~Muere /\ {"pub_conexion", "pub_existe", "pub_crea"} \subseteq
                  HiloPCs \ {"con_escribe", "pub_escribe", "con_crea"}
  BY DEF Muere, HiloPCs
<1>2. TypeOK /\ (f \in Rutas => f \in Ficheros)
  BY NombrePublicado DEF EscriturasInv, ServidorInv
<1>3. CASE /\ hilo[t].pc \in {"pub_registro", "pub_conexion", "pub_existe"}
           /\ \E ret \in {1, 2, 3} : Contesta(t, ret)
           /\ UNCHANGED disco
  BY <1>3, Codes, ContestaSinEscribir DEF Activo, disco
<1>4. CASE /\ hilo[t].pc \in {"pub_registro", "pub_conexion"}
           /\ \E pc \in {"pub_conexion", "pub_existe"} : Sigue(t, pc)
           /\ UNCHANGED disco
  BY <1>1, <1>4, SigueSinEscribir DEF Activo
<1>5. CASE /\ hilo[t].pc = "pub_existe" /\ ~HayPublicacion(f)
           /\ Sigue(t, "pub_crea") /\ UNCHANGED disco
  BY <1>1, <1>5, SigueSinEscribir DEF Activo
<1>6. CASE /\ hilo[t].pc = "pub_crea" /\ "publicaciones" \in carpetas
           /\ publicaciones' = [publicaciones EXCEPT ![f] = Vacio]
           /\ enlazados' = enlazados \cup {t}
           /\ Sigue(t, "pub_escribe")
           /\ UNCHANGED <<carpetas, conectados>>
  <2>1. f \in Rutas => publicaciones[f] \in {Ausente, Vacio}
    BY <1>2, <1>6 DEF EscriturasInv, SobreVacio
  <2>2. \A r \in Rutas :
          publicaciones'[r] = IF r = f THEN Vacio ELSE publicaciones[r]
    BY <1>2, <1>6 DEF TypeOK
  <2>3. /\ hilo'[t].pc = "pub_escribe" /\ hilo'[t].user = u
        /\ hilo'[t].dato = f /\ \A v \in Hilos \ {t} : hilo'[v] = hilo[v]
    BY <1>2, <1>6, SigueType DEF HiloPCs
  <2> HIDE DEF u, f
  <2>4. SobreVacio(t)'
    BY <2>2, <2>3 DEF SobreVacio, Rutas
  <2>5. SoloLoSuyo(t)
    BY <1>6, <2>2, <2>3 DEF SoloLoSuyo, Activo, f
  <2>6. RegistrosQuedan
    BY <1>6, <2>1, <2>2 DEF RegistrosQuedan
  <2> QED
    BY <2>3, <2>4, <2>5, <2>6, SoloLoSuyoKeeps DEF u, f
<1>7. CASE /\ hilo[t].pc = "pub_escribe"
           /\ publicaciones' = IF t \in enlazados
                               THEN [publicaciones EXCEPT ![f] = u]
                               ELSE publicaciones
           /\ enlazados' = enlazados \ {t}
           /\ Contesta(t, 0)
           /\ UNCHANGED <<carpetas, conectados>>
  <2>1. t \in enlazados /\ f \in Rutas => publicaciones[f] = Vacio
    BY <1>2, <1>7 DEF EscriturasInv, SobreVacio
  <2>2. \A r \in Rutas : publicaciones'[r] =
          IF r = f /\ t \in enlazados THEN u ELSE publicaciones[r]
    BY <1>2, <1>7 DEF TypeOK
  <2>3. /\ hilo'[t].pc = "responde" /\ hilo'[t].user = u
        /\ hilo'[t].dato = f /\ \A v \in Hilos \ {t} : hilo'[v] = hilo[v]
    BY <1>2, <1>7, Codes, ContestaCampos
  <2> HIDE DEF u, f
  <2>4. SobreVacio(t)'
    BY <2>3, OtroPaso
  <2>5. SoloLoSuyo(t)
    BY <1>7, <2>2, <2>3 DEF SoloLoSuyo, Activo, f
  <2>6. RegistrosQuedan
    BY <1>7, <2>1, <2>2 DEF RegistrosQuedan
  <2> QED
    BY <2>3, <2>4, <2>5, <2>6, SoloLoSuyoKeeps DEF u, f
<1> QED
  BY <1>1, <1>3, <1>4, <1>5, <1>6, <1>7 DEF Publish, Mira, En

\* DELETE removes a publication and its description file.
LEMMA DeleteQueda ==
  ASSUME EscriturasInv, ServidorInv', vivo', NEW t \in Hilos, Delete(t)
  PROVE  EscriturasInv' /\ RegistrosQuedan
<1> DEFINE u == hilo[t].user
           f == hilo[t].dato
           d == Descripcion[f]
<1>1. ~Muere /\ {"del_conexion", "del_existe", "del_borra", "del_desc", "del_limpia"}
         \subseteq HiloPCs \ {"con_escribe", "pub_escribe", "con_crea", "pub_crea"}
  BY DEF Muere, HiloPCs
<1>2. TypeOK
  BY DEF EscriturasInv, ServidorInv
<1>3. CASE /\ hilo[t].pc \in {"del_registro", "del_conexion", "del_existe"}
           /\ \E ret \in {1, 2, 3} : Contesta(t, ret)
           /\ UNCHANGED disco
  BY <1>3, Codes, ContestaSinEscribir DEF Activo, disco
<1>4. CASE /\ hilo[t].pc \in {"del_registro", "del_conexion", "del_existe"}
           /\ \E pc \in {"del_conexion", "del_existe", "del_borra"} : Sigue(t, pc)
           /\ UNCHANGED disco
  BY <1>1, <1>4, SigueSinEscribir DEF Activo
<1>5. ASSUME NEW pc \in {"del_desc", "del_limpia", "responde"}, Activo(t),
             \/ Sigue(t, pc) /\ pc # "responde"
             \/ Contesta(t, 0) /\ pc = "responde",
             carpetas' \subseteq carpetas, enlazados' \subseteq enlazados,
             UNCHANGED conectados,
             \A r \in Rutas :
               \/ publicaciones'[r] = publicaciones[r]
               \/ publicaciones[r] = Ausente /\ publicaciones'[r] = Vacio
               \/ publicaciones'[r] = Ausente /\ enlazados' \cap Publicando(r) = {}
      PROVE  EscriturasInv' /\ RegistrosQuedan
  <2>1. /\ hilo'[t].pc = pc /\ hilo'[t].user = u
        /\ hilo'[t].dato = f /\ \A v \in Hilos \ {t} : hilo'[v] = hilo[v]
    BY <1>1, <1>2, <1>5, Codes, SigueType, ContestaCampos
  <2>2. SobreVacio(t)'
    BY <2>1, OtroPaso
  <2>3. SoloLoSuyo(t)
    BY <1>5, <2>1 DEF SoloLoSuyo
  <2>4. RegistrosQuedan
    BY <1>5 DEF RegistrosQuedan
  <2> QED
    BY <2>1, <2>2, <2>3, <2>4, SoloLoSuyoKeeps
<1>6. CASE /\ hilo[t].pc = "del_borra" /\ Sigue(t, "del_desc")
           /\ publicaciones' = [r \in Rutas |->
                                  IF r = f THEN Ausente ELSE publicaciones[r]]
           /\ carpetas' \subseteq carpetas
           /\ enlazados' = enlazados \ Publicando(f)
           /\ UNCHANGED conectados
  BY <1>5, <1>6 DEF Activo
<1>7. CASE /\ hilo[t].pc = "del_desc" /\ Sigue(t, "del_limpia")
           /\ publicaciones' = [publicaciones EXCEPT ![d] = Abre(@)]
           /\ UNCHANGED <<carpetas, conectados, enlazados>>
  <2>1. \A r \in Rutas : publicaciones'[r] =
          IF r = d THEN Abre(publicaciones[r]) ELSE publicaciones[r]
    BY <1>2, <1>7 DEF TypeOK
  <2> QED
    BY <1>5, <1>7, <2>1 DEF Activo, Abre
<1>8. CASE /\ hilo[t].pc = "del_limpia" /\ Contesta(t, 0)
           /\ publicaciones' = [publicaciones EXCEPT ![d] = Ausente]
           /\ enlazados' = enlazados \ Publicando(d)
           /\ UNCHANGED <<carpetas, conectados>>
  <2>1. \A r \in Rutas : publicaciones'[r] =
          IF r = d THEN Ausente ELSE publicaciones[r]
    BY <1>2, <1>8 DEF TypeOK
  <2> QED
    BY <1>5, <1>8, <2>1 DEF Activo
<1> QED
  BY <1>1, <1>3, <1>4, <1>6, <1>7, <1>8 DEF Delete, Mira, En

\* As long as the process lives, each step of the server keeps the records.
LEMMA EscriturasSiguen ==
  ASSUME PeticionesEnteras, EscriturasInv, Next, vivo'
  PROVE  EscriturasInv' /\ RegistrosQuedan
<1>1. ServidorInv' /\ ~Muere
  BY StepInv DEF EscriturasInv, Muere
<1>2. ASSUME NEW t \in Hilos, NEW p \in Peticiones, Recibe(t, p)
      PROVE  EscriturasInv' /\ RegistrosQuedan
  <2>1. /\ hilo[t].pc = "libre" /\ hilo'[t].pc = "rpc"
        /\ hilo'[t].user = p.user /\ hilo'[t].dato = p.dato
        /\ \A v \in Hilos \ {t} : hilo'[v] = hilo[v] /\ ~Chocan(p, hilo[v])
        /\ UNCHANGED disco
    <3>1. p.llega = 3 /\ ~Solapan
      BY DEF PeticionesEnteras
    <3> QED
      BY <1>2, <3>1 DEF Recibe, En, EscriturasInv, ServidorInv, TypeOK
  <2>2. ASSUME NEW v \in Hilos, NEW w \in Hilos \ {v}, Activo(v)', Activo(w)'
        PROVE  Separados(v, w)'
    BY <2>1, <2>2 DEF EscriturasInv, Separados, Activo, Chocan
  <2>3. ASSUME NEW v \in Hilos PROVE SobreVacio(v)'
    BY <2>1 DEF EscriturasInv, SobreVacio, disco
  <2> QED
    BY <1>1, <2>1, <2>2, <2>3 DEF EscriturasInv, RegistrosQuedan, disco
<1>3. ASSUME NEW t \in Hilos, Trata(t) PROVE EscriturasInv' /\ RegistrosQuedan
  BY <1>1, <1>3, ComienzoQueda, RegistroQueda, ConnectQueda, DisconnectQueda,
     PublishQueda, DeleteQueda DEF Trata
<1>4. CASE Reinicia
  BY <1>1, <1>4 DEF Reinicia, EscriturasInv, RegistrosQuedan, Separados,
                    Activo, SobreVacio, disco
<1> QED
  BY <1>1, <1>2, <1>3, <1>4 DEF Next, Falla, Sigint

\* A fall ends all the threads.
LEMMA EscriturasCaen ==
  ASSUME EscriturasInv, Muere PROVE EscriturasInv'
<1>1. ServidorInv'
  BY StepInv DEF EscriturasInv, Next, Sigint
<1>2. \A t \in Hilos : hilo'[t].pc = "libre"
  BY DEF Muere, PilaNueva
<1> QED
  BY <1>1, <1>2 DEF EscriturasInv, Activo, SobreVacio

-----------------------------------------------------------------------------
\* The types of LTypeOK as those of a record.
Archivos == Usuarios \cup Rutas
Palabras == Cuentas \cup Puertos \cup {Mezcla}
Entradas == (Cuentas \cup Rutas) \X Palabras
Pedidos == Cuentas \cup Datos
OpsLector == OpsLectura \cup {""}
Codigos == 0..3
Fotos == UNION {[N -> Palabras \cup {Vacio}] : N \in SUBSET Archivos}
Fichas == [pc : LectorPCs, op : OpsLector, user : Cuentas, dato : Pedidos,
           ret : Codigos, leido : Palabras, fijos : Fotos,
           vistos : SUBSET Archivos, lista : SUBSET Entradas]

TiposInv == ServidorInv /\ lector \in [Lectores -> Fichas]

LEMMA LibreEs ==
  /\ LectorLibre \in Fichas
  /\ LectorLibre.pc = "libre" /\ LectorLibre.op = ""
  /\ DOMAIN LectorLibre.fijos = {}
  /\ LectorLibre.vistos = {} /\ LectorLibre.lista = {}
<1>1. <<>> \in Fotos
  <2>1. <<>> \in [{} -> Palabras \cup {Vacio}]
    OBVIOUS
  <2> QED
    BY <2>1 DEF Fotos
<1> QED
  BY <1>1 DEF LectorLibre, Fichas, LectorPCs, OpsLector, Cuentas, Pedidos,
              Palabras, Codigos

\* What l keeps after a step: other findings for the request h.
Queda(l, h, pc, ret, leido, fijos, vistos, lista) ==
  LET m == lector'[l] IN
  /\ m.pc = pc /\ m.op = h.op /\ m.user = h.user /\ m.dato = h.dato
  /\ m.ret = ret /\ m.leido = leido /\ m.fijos = fijos /\ m.vistos = vistos
  /\ m.lista = lista

\* A step of l alone.
SoloLector(l) ==
  /\ UNCHANGED vars
  /\ lector' \in [Lectores -> Fichas]
  /\ \A k \in Lectores \ {l} : lector'[k] = lector[k]

LEMMA OtraFicha ==
  ASSUME TiposInv, NEW l \in Lectores, NEW m \in Fichas,
         lector' = [lector EXCEPT ![l] = m], UNCHANGED vars
  PROVE  SoloLector(l) /\ lector'[l] = m
BY DEF TiposInv, SoloLector

\* The forms that the steps of a reader have.
LEMMA VaEs ==
  ASSUME TiposInv, NEW l \in Lectores, NEW pc \in LectorPCs, Va(l, pc)
  PROVE  LET h == lector[l] IN
         /\ SoloLector(l)
         /\ Queda(l, h, pc, h.ret, h.leido, h.fijos, h.vistos, h.lista)
<1> DEFINE h == lector[l]
           m == [h EXCEPT !.pc = pc]
<1>1. h \in Fichas
  BY DEF TiposInv
<1> HIDE DEF h
<1>2. /\ m \in Fichas /\ m.pc = pc /\ m.op = h.op /\ m.user = h.user
      /\ m.dato = h.dato /\ m.ret = h.ret /\ m.leido = h.leido
      /\ m.fijos = h.fijos /\ m.vistos = h.vistos /\ m.lista = h.lista
  BY <1>1 DEF Fichas
<1>3. lector' = [lector EXCEPT ![l] = m] /\ UNCHANGED vars
  BY DEF Va, h
<1> HIDE DEF m
<1> QED
  BY <1>2, <1>3, OtraFicha DEF Queda, h

LEMMA RechazaEs ==
  ASSUME TiposInv, NEW l \in Lectores, NEW ret \in 0..3, Rechaza(l, ret)
  PROVE  LET h == lector[l] IN
         /\ SoloLector(l)
         /\ Queda(l, h, "error", ret, h.leido, h.fijos, h.vistos, h.lista)
<1> DEFINE h == lector[l]
           m == [h EXCEPT !.pc = "error", !.ret = ret]
<1>1. h \in Fichas /\ "error" \in LectorPCs /\ ret \in Codigos
  BY DEF TiposInv, LectorPCs, Codigos
<1> HIDE DEF h
<1>2. /\ m \in Fichas /\ m.pc = "error" /\ m.op = h.op /\ m.user = h.user
      /\ m.dato = h.dato /\ m.ret = ret /\ m.leido = h.leido
      /\ m.fijos = h.fijos /\ m.vistos = h.vistos /\ m.lista = h.lista
  BY <1>1 DEF Fichas
<1>3. lector' = [lector EXCEPT ![l] = m] /\ UNCHANGED vars
  BY DEF Rechaza, h
<1> HIDE DEF m
<1> QED
  BY <1>2, <1>3, OtraFicha DEF Queda, h

LEMMA AcabaEs ==
  ASSUME TiposInv, NEW l \in Lectores, Acaba(l)
  PROVE  SoloLector(l) /\ lector'[l] = LectorLibre
BY LibreEs, OtraFicha DEF Acaba

LEMMA PreguntaEs ==
  ASSUME TiposInv, NEW l \in Lectores, NEW c \in Consultas, Pregunta(l, c)
  PROVE  /\ SoloLector(l)
         /\ \E pc \in {"get_conexion", "rpc"}, ret \in 0..3, b \in Palabras :
              /\ pc = "get_conexion" <=> c.op = "GET_FILE"
              /\ Queda(l, c, pc, ret, b, LectorLibre.fijos, {}, {})
<1>1. PICK r \in RetViejos,
           b \in IF c.op = "LIST_USERS" THEN PuertosViejos ELSE NombresViejos :
        lector' = [lector EXCEPT ![l] = [LectorLibre EXCEPT
         !.pc = IF c.op = "GET_FILE" THEN "get_conexion" ELSE "rpc",
         !.op = c.op, !.user = c.user, !.dato = c.dato,
         !.ret = r, !.leido = b]]
  BY DEF Pregunta
<1>2. r \in Codigos /\ b \in Palabras
  BY DEF RetViejos, PuertosViejos, NombresViejos, Cuentas, Palabras, Codigos
<1>3. c.op \in OpsLector /\ c.user \in Cuentas /\ c.dato \in Pedidos
  BY ListadosAssumption DEF OpsLector, Pedidos
<1> DEFINE pc == IF c.op = "GET_FILE" THEN "get_conexion" ELSE "rpc"
           m == [LectorLibre EXCEPT !.pc = pc, !.op = c.op, !.user = c.user,
                   !.dato = c.dato, !.ret = r, !.leido = b]
<1>4. pc \in LectorPCs
  BY DEF LectorPCs
<1>5. /\ m \in Fichas /\ m.pc = pc /\ m.op = c.op /\ m.user = c.user
      /\ m.dato = c.dato /\ m.ret = r /\ m.leido = b
      /\ m.fijos = LectorLibre.fijos /\ m.vistos = {} /\ m.lista = {}
  <2> HIDE DEF pc
  <2> QED
    BY <1>2, <1>3, <1>4, LibreEs DEF Fichas
<1>6. lector' = [lector EXCEPT ![l] = m] /\ UNCHANGED vars
  BY <1>1 DEF Pregunta
<1> HIDE DEF m
<1>7. SoloLector(l) /\ Queda(l, c, pc, r, b, LectorLibre.fijos, {}, {})
  BY <1>5, <1>6, OtraFicha DEF Queda
<1> QED
  BY <1>2, <1>7 DEF Codigos

\* What a directory holds, and what fscanf makes of it.
LEMMA TablaTipos ==
  ASSUME TiposInv, NEW l \in Lectores
  PROVE  /\ Presentes(l) \subseteq Archivos
         /\ \A n \in Presentes(l) :
              /\ Tabla(l)[n] \in Palabras \cup {Vacio}
              /\ Leidos(l, Tabla(l)[n]) \subseteq Palabras
<1>1. TypeOK /\ lector[l].leido \in Palabras
  BY DEF TiposInv, ServidorInv, Fichas
<1>2. DOMAIN Tabla(l) \subseteq Archivos
      /\ \A n \in DOMAIN Tabla(l) : Tabla(l)[n] \in Palabras \cup {Vacio, Ausente}
  BY <1>1 DEF TypeOK, Tabla, Palabras, Cuentas, Archivos
<1>3. \A x \in Palabras \cup {Vacio} : Leidos(l, x) \subseteq Palabras
  BY <1>1 DEF Leidos, Palabras, Cuentas
<1> QED
  BY <1>2, <1>3 DEF Presentes

LEMMA BuscaEs ==
  ASSUME TiposInv, NEW l \in Lectores, BuscaConexion(l)
  PROVE  LET h == lector[l] IN
         /\ h.pc = "get_conexion"
         /\ \/ Rechaza(l, 2)
            \/ /\ SoloLector(l)
               /\ \E e \in Entradas :
                    Queda(l, h, "opendir", h.ret, h.leido, h.fijos, h.vistos, {e})
<1> DEFINE h == lector[l]
           u == h.user
<1>1. h \in Fichas /\ TypeOK /\ u \in Cuentas
  BY DEF TiposInv, ServidorInv, Fichas
<1>2. CASE Rechaza(l, 2)
  BY <1>2 DEF BuscaConexion, EnL
<1>3. CASE /\ EnL(l, "get_conexion") /\ HayConexion(u) /\ UNCHANGED vars
           /\ \E p \in IF u = Blanco \/ conectados[u] = Vacio THEN PuertosViejos
                       ELSE {conectados[u]} :
                lector' = [lector EXCEPT ![l] = [h EXCEPT
                             !.pc = "opendir", !.lista = {<<u, p>>}]]
  <2>1. PICK p \in IF u = Blanco \/ conectados[u] = Vacio THEN PuertosViejos
                   ELSE {conectados[u]} :
          lector' = [lector EXCEPT ![l] = [h EXCEPT
                       !.pc = "opendir", !.lista = {<<u, p>>}]]
    BY <1>3
  <2>2. p \in Palabras
    BY <1>1, <1>3 DEF HayConexion, TypeOK, Cuentas, PuertosViejos, Palabras
  <2>3. <<u, p>> \in Entradas /\ "opendir" \in LectorPCs
    BY <1>1, <2>2 DEF Entradas, LectorPCs
  <2> DEFINE m == [h EXCEPT !.pc = "opendir", !.lista = {<<u, p>>}]
  <2>4. /\ m \in Fichas /\ m.pc = "opendir" /\ m.op = h.op /\ m.user = h.user
        /\ m.dato = h.dato /\ m.ret = h.ret /\ m.leido = h.leido
        /\ m.fijos = h.fijos /\ m.vistos = h.vistos /\ m.lista = {<<u, p>>}
    BY <1>1, <2>3 DEF Fichas
  <2>5. lector' = [lector EXCEPT ![l] = m] /\ UNCHANGED vars
    BY <1>3, <2>1
  <2> HIDE DEF m
  <2>6. SoloLector(l) /\ Queda(l, h, "opendir", h.ret, h.leido, h.fijos,
                               h.vistos, {<<u, p>>})
    BY <2>4, <2>5, OtraFicha DEF Queda
  <2> QED
    BY <1>3, <2>3, <2>6 DEF EnL
<1> QED
  BY <1>2, <1>3 DEF BuscaConexion

LEMMA OpendirEs ==
  ASSUME TiposInv, NEW l \in Lectores, Opendir(l)
  PROVE  LET h == lector[l] IN
         /\ h.pc = "opendir"
         /\ \/ Acaba(l)
            \/ /\ SoloLector(l)
               /\ Queda(l, h, "readdir", h.ret, h.leido,
                        [n \in Presentes(l) |-> Tabla(l)[n]], h.vistos, h.lista)
<1> DEFINE h == lector[l]
           f == [n \in Presentes(l) |-> Tabla(l)[n]]
           m == [h EXCEPT !.pc = "readdir", !.fijos = f]
<1>1. CASE Acaba(l)
  BY <1>1 DEF Opendir, EnL
<1>2. CASE EnL(l, "opendir") /\ lector' = [lector EXCEPT ![l] = m] /\ UNCHANGED vars
  <2>1. h \in Fichas /\ "readdir" \in LectorPCs
    BY DEF TiposInv, LectorPCs
  <2>2. f \in Fotos
    <3>1. f \in [Presentes(l) -> Palabras \cup {Vacio}]
          /\ Presentes(l) \in SUBSET Archivos
      BY TablaTipos
    <3> HIDE DEF f
    <3> QED
      BY <3>1 DEF Fotos
  <2> HIDE DEF f
  <2>3. /\ m \in Fichas /\ m.pc = "readdir" /\ m.op = h.op /\ m.user = h.user
        /\ m.dato = h.dato /\ m.ret = h.ret /\ m.leido = h.leido
        /\ m.fijos = f /\ m.vistos = h.vistos /\ m.lista = h.lista
    BY <2>1, <2>2 DEF Fichas
  <2> HIDE DEF m
  <2>4. SoloLector(l)
        /\ Queda(l, h, "readdir", h.ret, h.leido, f, h.vistos, h.lista)
    BY <1>2, <2>3, OtraFicha DEF Queda
  <2> QED
    BY <1>2, <2>4 DEF f, EnL
<1> QED
  BY <1>1, <1>2 DEF Opendir

\* A listing reads a file, and lists it or not.
LEMMA EntradaEs ==
  ASSUME TiposInv, NEW l \in Lectores, LeeEntrada(l)
  PROVE  LET h == lector[l] IN
         /\ h.pc = "readdir" /\ h.op # "GET_FILE" /\ SoloLector(l)
         /\ \E n \in Presentes(l) \ h.vistos : \E x \in Leidos(l, Tabla(l)[n]) :
              \/ /\ h.op = "LIST_USERS" \/ x = h.dato
                 /\ Queda(l, h, "readdir", 0, x, h.fijos, h.vistos \cup {n},
                          h.lista \cup {<<n, x>>})
              \/ /\ ~(h.op = "LIST_USERS" \/ x = h.dato)
                 /\ Queda(l, h, "readdir", h.ret, x, h.fijos,
                          h.vistos \cup {n}, h.lista)
<1> DEFINE h == lector[l]
<1>1. h \in Fichas /\ h.pc = "readdir" /\ h.op # "GET_FILE" /\ UNCHANGED vars
  BY DEF TiposInv, LeeEntrada, EnL
<1>2. PICK n \in Presentes(l) \ h.vistos : \E x \in Leidos(l, Tabla(l)[n]) :
        lector' = [lector EXCEPT ![l] =
          IF h.op = "LIST_USERS" \/ x = h.dato THEN Anota(l, n, x)
          ELSE Salta(l, n, x)]
  BY DEF LeeEntrada
<1>3. PICK x \in Leidos(l, Tabla(l)[n]) :
        lector' = [lector EXCEPT ![l] =
          IF h.op = "LIST_USERS" \/ x = h.dato THEN Anota(l, n, x)
          ELSE Salta(l, n, x)]
  BY <1>2
<1>4. n \in Archivos /\ x \in Palabras
  BY TablaTipos
<1>5. CASE h.op = "LIST_USERS" \/ x = h.dato
  <2> DEFINE m == Anota(l, n, x)
  <2>1. <<n, x>> \in Entradas /\ 0 \in Codigos
    BY <1>4 DEF Entradas, Archivos, Cuentas, Codigos
  <2>2. /\ m \in Fichas /\ m.pc = "readdir" /\ m.op = h.op /\ m.user = h.user
        /\ m.dato = h.dato /\ m.ret = 0 /\ m.leido = x
        /\ m.fijos = h.fijos /\ m.vistos = h.vistos \cup {n}
        /\ m.lista = h.lista \cup {<<n, x>>}
    BY <1>1, <1>4, <2>1 DEF Fichas, Anota
  <2> HIDE DEF m
  <2>3. lector' = [lector EXCEPT ![l] = m]
    BY <1>3, <1>5 DEF m
  <2>4. SoloLector(l)
        /\ Queda(l, h, "readdir", 0, x, h.fijos, h.vistos \cup {n},
                 h.lista \cup {<<n, x>>})
    BY <1>1, <2>2, <2>3, OtraFicha DEF Queda
  <2> HIDE DEF h
  <2> QED
    BY <1>1, <1>5, <2>4 DEF h
<1>6. CASE ~(h.op = "LIST_USERS" \/ x = h.dato)
  <2> DEFINE m == Salta(l, n, x)
  <2>1. /\ m \in Fichas /\ m.pc = "readdir" /\ m.op = h.op /\ m.user = h.user
        /\ m.dato = h.dato /\ m.ret = h.ret /\ m.leido = x
        /\ m.fijos = h.fijos /\ m.vistos = h.vistos \cup {n}
        /\ m.lista = h.lista
    BY <1>1, <1>4 DEF Fichas, Salta
  <2> HIDE DEF m
  <2>2. lector' = [lector EXCEPT ![l] = m]
    BY <1>3, <1>6 DEF m
  <2>3. SoloLector(l)
        /\ Queda(l, h, "readdir", h.ret, x, h.fijos, h.vistos \cup {n}, h.lista)
    BY <1>1, <2>1, <2>2, OtraFicha DEF Queda
  <2> QED
    BY <1>1, <1>6, <2>3
<1> QED
  BY <1>5, <1>6

\* GET_FILE reads the file that it looks for.
LEMMA FicheroEs ==
  ASSUME TiposInv, NEW l \in Lectores, LeeFichero(l)
  PROVE  LET h == lector[l] IN
         /\ h.pc = "readdir" /\ h.op = "GET_FILE" /\ SoloLector(l)
         /\ h.dato \in Presentes(l)
         /\ \E x \in Leidos(l, Tabla(l)[h.dato]) :
              \/ /\ x = h.user
                 /\ Queda(l, h, "codigo", 0, h.leido, h.fijos, h.vistos, h.lista)
              \/ /\ x # h.user
                 /\ Queda(l, h, "readdir", h.ret, x, h.fijos,
                          h.vistos \cup {h.dato}, h.lista)
<1> DEFINE h == lector[l]
<1>1. /\ h \in Fichas /\ h.pc = "readdir" /\ h.op = "GET_FILE" /\ UNCHANGED vars
      /\ h.dato \in Presentes(l)
  BY DEF TiposInv, LeeFichero, EnL
<1>2. PICK x \in Leidos(l, Tabla(l)[h.dato]) :
        lector' = [lector EXCEPT ![l] =
          IF x = h.user THEN [h EXCEPT !.pc = "codigo", !.ret = 0]
          ELSE Salta(l, h.dato, x)]
  BY DEF LeeFichero
<1>3. h.dato \in Archivos /\ x \in Palabras
  BY <1>1, TablaTipos
<1>4. CASE x = h.user
  <2> DEFINE m == [h EXCEPT !.pc = "codigo", !.ret = 0]
  <2>1. "codigo" \in LectorPCs /\ 0 \in Codigos
    BY DEF LectorPCs, Codigos
  <2>2. /\ m \in Fichas /\ m.pc = "codigo" /\ m.op = h.op /\ m.user = h.user
        /\ m.dato = h.dato /\ m.ret = 0 /\ m.leido = h.leido
        /\ m.fijos = h.fijos /\ m.vistos = h.vistos /\ m.lista = h.lista
    BY <1>1, <2>1 DEF Fichas
  <2> HIDE DEF m
  <2>3. lector' = [lector EXCEPT ![l] = m]
    BY <1>2, <1>4 DEF m
  <2> QED
    BY <1>1, <1>4, <2>2, <2>3, OtraFicha DEF Queda
<1>5. CASE x # h.user
  <2> DEFINE m == Salta(l, h.dato, x)
  <2>1. /\ m \in Fichas /\ m.pc = "readdir" /\ m.op = h.op /\ m.user = h.user
        /\ m.dato = h.dato /\ m.ret = h.ret /\ m.leido = x
        /\ m.fijos = h.fijos /\ m.vistos = h.vistos \cup {h.dato}
        /\ m.lista = h.lista
    BY <1>1, <1>3 DEF Fichas, Salta
  <2> HIDE DEF m
  <2>2. lector' = [lector EXCEPT ![l] = m]
    BY <1>2, <1>5 DEF m
  <2> QED
    BY <1>1, <1>5, <2>1, <2>2, OtraFicha DEF Queda
<1> QED
  BY <1>4, <1>5

\* A step of the others: a reader forgets the files that are removed, or ends
\* with the process.
LEMMA OtrosEs ==
  ASSUME TiposInv, Otros
  PROVE  /\ lector' \in [Lectores -> Fichas]
         /\ ~vivo' => \A l \in Lectores : lector'[l] = LectorLibre
         /\ vivo' => \A l \in Lectores :
              LET h == lector[l] IN
              Queda(l, h, h.pc, h.ret, h.leido,
                    [n \in Quedan(l) |-> h.fijos[n]], h.vistos, h.lista)
<1> DEFINE f(l) == [n \in Quedan(l) |-> lector[l].fijos[n]]
           m(l) == [lector[l] EXCEPT !.fijos = f(l)]
<1>1. lector' = [l \in Lectores |-> IF ~vivo' THEN LectorLibre ELSE m(l)]
  BY DEF Otros
<1>2. ASSUME NEW l \in Lectores
      PROVE  LET h == lector[l] IN
             /\ m(l) \in Fichas /\ m(l).pc = h.pc /\ m(l).op = h.op
             /\ m(l).user = h.user /\ m(l).dato = h.dato /\ m(l).ret = h.ret
             /\ m(l).leido = h.leido /\ m(l).fijos = f(l)
             /\ m(l).vistos = h.vistos /\ m(l).lista = h.lista
  <2>1. lector[l] \in Fichas
    BY DEF TiposInv
  <2>2. f(l) \in Fotos
    <3>1. PICK N \in SUBSET Archivos : lector[l].fijos \in [N -> Palabras \cup {Vacio}]
      BY <2>1 DEF Fichas, Fotos
    <3>2. Quedan(l) \in SUBSET N
      BY <3>1 DEF Quedan
    <3>3. f(l) \in [Quedan(l) -> Palabras \cup {Vacio}]
      BY <3>1, <3>2
    <3> HIDE DEF f
    <3> QED
      BY <3>2, <3>3 DEF Fotos
  <2> HIDE DEF f
  <2> QED
    BY <2>1, <2>2 DEF Fichas
<1> HIDE DEF m, f
<1>3. lector' \in [Lectores -> Fichas]
  BY <1>1, <1>2, LibreEs
<1>4. \A l \in Lectores : lector'[l] = IF ~vivo' THEN LectorLibre ELSE m(l)
  BY <1>1
<1> QED
  BY <1>2, <1>3, <1>4 DEF Queda, f

\* A step of a reader that goes on, or ends alone.
LEMMA AtiendeSolo ==
  ASSUME TiposInv, NEW l \in Lectores,
         Atiende(l) \/ \E c \in Consultas : Pregunta(l, c)
  PROVE  SoloLector(l)
<1>1. {"registro", "conexion", "remoto", "opendir", "codigo", "entradas", "numero"}
         \subseteq LectorPCs
  BY DEF LectorPCs
<1>2. \A pc \in LectorPCs : Va(l, pc) => SoloLector(l)
  BY VaEs
<1>3. \A ret \in 0..3 : Rechaza(l, ret) => SoloLector(l)
  BY RechazaEs
<1>4. CASE Avisa(l) \/ Comprueba(l) \/ Closedir(l) \/ Envia(l)
  BY <1>1, <1>2, <1>3, <1>4, Codes, AcabaEs DEF Avisa, Comprueba, Closedir, Envia
<1>5. CASE BuscaConexion(l) \/ Opendir(l) \/ LeeEntrada(l) \/ LeeFichero(l)
  BY <1>3, <1>5, Codes, BuscaEs, OpendirEs, EntradaEs, FicheroEs, AcabaEs
<1>6. CASE \E c \in Consultas : Pregunta(l, c)
  BY <1>6, PreguntaEs
<1> QED
  BY <1>4, <1>5, <1>6 DEF Atiende

\* When the process falls, all readers end with it.
LEMMA CaeEs ==
  ASSUME NEW l \in Lectores, Cae(l)
  PROVE  /\ Muere /\ lector' \in [Lectores -> Fichas]
         /\ \A k \in Lectores : lector'[k] = LectorLibre
BY LibreEs DEF Cae

LEMMA TiposStep == TiposInv /\ [LNext]_lvars => TiposInv'
<1> SUFFICES ASSUME TiposInv, [LNext]_lvars PROVE TiposInv'
  OBVIOUS
<1>1. ASSUME [Next]_vars PROVE ServidorInv'
  BY <1>1, StepInv DEF TiposInv
<1>2. ASSUME NEW l \in Lectores,
             Atiende(l) \/ \E c \in Consultas : Pregunta(l, c)
      PROVE  TiposInv'
  BY <1>1, <1>2, AtiendeSolo DEF TiposInv, SoloLector
<1>3. ASSUME NEW l \in Lectores, Cae(l) PROVE TiposInv'
  BY <1>1, <1>3, CaeEs DEF TiposInv, Next, Sigint
<1>4. CASE Otros
  BY <1>1, <1>4, OtrosEs DEF TiposInv, Otros
<1>5. CASE UNCHANGED lvars
  BY <1>1, <1>5 DEF TiposInv, lvars
<1> QED
  BY <1>2, <1>3, <1>4, <1>5 DEF LNext

\* What the readers keep has its types, whatever the other threads do to the
\* directories meanwhile and whatever their stacks held before
\* (servidor.c:562-968).
THEOREM ListadosTypes == LSpec => []LTypeOK
<1>1. LInit => TiposInv
  BY InitInv, LibreEs DEF LInit, TiposInv
<1>2. TiposInv /\ [LNext]_lvars => TiposInv'
  BY TiposStep
<1>3. TiposInv => LTypeOK
  <2> SUFFICES ASSUME TiposInv, NEW l \in Lectores
               PROVE  LET h == lector[l] IN
                 /\ h.pc \in LectorPCs /\ h.op \in OpsLector
                 /\ h.user \in Cuentas /\ h.dato \in Pedidos
                 /\ h.ret \in Codigos /\ h.leido \in Palabras
                 /\ DOMAIN h.fijos \subseteq Archivos
                 /\ h.vistos \subseteq Archivos /\ h.lista \subseteq Entradas
    BY DEF LTypeOK, OpsLector, Pedidos, Codigos, Palabras, Archivos, Entradas
  <2>1. lector[l] \in Fichas
    BY DEF TiposInv
  <2>2. DOMAIN lector[l].fijos \subseteq Archivos
    BY <2>1 DEF Fichas, Fotos
  <2> QED
    BY <2>1, <2>2 DEF Fichas
<1> QED
  BY <1>1, <1>2, <1>3, PTL DEF LSpec

-----------------------------------------------------------------------------
\* What a reader has found, as opposed to its types.
TablaDe(op) == IF op = "LIST_USERS" THEN conectados ELSE publicaciones

\* Before opendir there is nothing found yet.
Antes == {"libre", "rpc", "registro", "conexion", "remoto", "opendir",
          "get_conexion"}
Fase(h) ==
  /\ h.pc \in Antes => DOMAIN h.fijos = {} /\ h.vistos = {}
  /\ h.pc \in Antes /\ h.op # "GET_FILE" => h.lista = {}
  /\ h.pc = "get_conexion" => h.op = "GET_FILE"

\* The files that h.fijos remembers are there, with the record they had, if
\* they had one.
Fijo(h) ==
  \A n \in DOMAIN h.fijos :
    /\ n \in DOMAIN TablaDe(h.op) /\ TablaDe(h.op)[n] # Ausente
    /\ h.fijos[n] # Vacio => TablaDe(h.op)[n] = h.fijos[n]

\* A file with a record is listed once it has been read, if it should be, and
\* with its record.
Debida(h, n) == n \in h.vistos /\ (h.op = "LIST_USERS" \/ h.fijos[n] = h.dato)
Listado(h) ==
  h.op # "GET_FILE" /\ h.pc \in {"readdir", "codigo", "numero", "entradas"} =>
    /\ \A e \in h.lista : e[1] \in h.vistos
    /\ h.pc # "readdir" => DOMAIN h.fijos \subseteq h.vistos
    /\ \A n \in DOMAIN h.fijos : h.fijos[n] \notin {Vacio, Blanco} =>
         /\ \A e \in h.lista : e[1] = n => e[2] = h.fijos[n] /\ Debida(h, n)
         /\ Debida(h, n) => \E e \in h.lista : e[1] = n /\ e[2] = h.fijos[n]

\* GET_FILE has passed over the file it looks for only if it is another's.
Hallado(h) ==
  h.op = "GET_FILE" /\ h.dato \in DOMAIN h.fijos
    /\ h.fijos[h.dato] \notin {Vacio, Blanco} =>
    /\ h.pc = "readdir" /\ h.dato \in h.vistos => h.fijos[h.dato] # h.user
    /\ h.pc \in {"error", "codigo"} =>
         h.ret = IF h.fijos[h.dato] = h.user THEN 0 ELSE 1

Fiel(h) == Fase(h) /\ Fijo(h) /\ Listado(h) /\ Hallado(h)

ListadosInv ==
  EscriturasInv /\ TiposInv /\ \A l \in Lectores : Fiel(lector[l])

\* One that has ended has found nothing.
LEMMA LibreFiel ==
  ASSUME NEW l \in Lectores, lector'[l] = LectorLibre PROVE Fiel(lector[l])'
BY LibreEs DEF Fiel, Fase, Fijo, Listado, Hallado, Antes

LEMMA VaFiel ==
  ASSUME ListadosInv, NEW l \in Lectores, NEW pc \in LectorPCs, Va(l, pc),
         LET h == lector[l] IN
           \/ h.pc \in Antes /\ pc \in Antes \ {"get_conexion"}
           \/ /\ h.pc = "readdir" /\ pc = "codigo" /\ h.op # "GET_FILE"
              /\ DOMAIN h.fijos \subseteq h.vistos
           \/ h.pc \in {"codigo", "numero"} /\ pc \in {"numero", "entradas"}
  PROVE  Fiel(lector[l])'
<1> DEFINE h == lector[l]
<1>1. /\ UNCHANGED <<conectados, publicaciones>>
      /\ Queda(l, h, pc, h.ret, h.leido, h.fijos, h.vistos, h.lista)
  BY VaEs DEF ListadosInv, SoloLector, vars
<1>2. Fiel(h)
  BY DEF ListadosInv
<1>3. Fase(h)'
  BY <1>1, <1>2 DEF Queda, Fiel, Fase, Antes
<1>4. Fijo(h)'
  BY <1>1, <1>2 DEF Queda, Fiel, Fijo, TablaDe
<1>5. Listado(h)'
  BY <1>1, <1>2 DEF Queda, Fiel, Listado, Debida, Antes
<1>6. Hallado(h)'
  BY <1>1, <1>2 DEF Queda, Fiel, Hallado, Antes
<1> QED
  BY <1>3, <1>4, <1>5, <1>6 DEF Fiel

LEMMA RechazaFiel ==
  ASSUME ListadosInv, NEW l \in Lectores, NEW ret \in 0..3, Rechaza(l, ret),
         LET h == lector[l] IN
           \/ h.pc \in Antes
           \/ /\ h.pc = "readdir" /\ h.op = "GET_FILE" /\ ret = 1
              /\ h.dato \in DOMAIN h.fijos => h.dato \in h.vistos
  PROVE  Fiel(lector[l])'
<1> DEFINE h == lector[l]
<1>1. /\ UNCHANGED <<conectados, publicaciones>>
      /\ Queda(l, h, "error", ret, h.leido, h.fijos, h.vistos, h.lista)
  BY RechazaEs DEF ListadosInv, SoloLector, vars
<1>2. Fiel(h)
  BY DEF ListadosInv
<1>3. Fase(h)' /\ Listado(h)'
  BY <1>1, <1>2 DEF Queda, Fiel, Fase, Listado, Antes
<1>4. Fijo(h)'
  BY <1>1, <1>2 DEF Queda, Fiel, Fijo, TablaDe
<1>5. Hallado(h)'
  BY <1>1, <1>2 DEF Queda, Fiel, Fase, Hallado
<1> QED
  BY <1>3, <1>4, <1>5 DEF Fiel

LEMMA AcabaFiel ==
  ASSUME ListadosInv, NEW l \in Lectores, Acaba(l) PROVE Fiel(lector[l])'
BY AcabaEs, LibreFiel DEF ListadosInv

LEMMA PreguntaFiel ==
  ASSUME ListadosInv, NEW l \in Lectores, NEW c \in Consultas, Pregunta(l, c)
  PROVE  Fiel(lector[l])'
<1>1. PICK pc \in {"get_conexion", "rpc"}, ret \in 0..3, b \in Palabras :
        /\ pc = "get_conexion" <=> c.op = "GET_FILE"
        /\ Queda(l, c, pc, ret, b, LectorLibre.fijos, {}, {})
  BY PreguntaEs DEF ListadosInv
<1>2. /\ lector'[l].pc = pc /\ lector'[l].op = c.op
      /\ DOMAIN lector'[l].fijos = {}
      /\ lector'[l].vistos = {} /\ lector'[l].lista = {}
  BY <1>1, LibreEs DEF Queda
<1> QED
  BY <1>1, <1>2 DEF Fiel, Fase, Fijo, Listado, Hallado, Antes

LEMMA BuscaFiel ==
  ASSUME ListadosInv, NEW l \in Lectores, BuscaConexion(l)
  PROVE  Fiel(lector[l])'
<1> DEFINE h == lector[l]
<1>1. Fiel(h) /\ h.pc = "get_conexion"
  BY BuscaEs DEF ListadosInv
<1>2. CASE Rechaza(l, 2)
  BY <1>1, <1>2, Codes, RechazaFiel DEF Antes
<1>3. ASSUME NEW e, Queda(l, h, "opendir", h.ret, h.leido, h.fijos, h.vistos, {e})
      PROVE  Fiel(h)'
  <2>1. /\ lector'[l].pc = "opendir" /\ lector'[l].op = "GET_FILE"
        /\ DOMAIN lector'[l].fijos = {} /\ lector'[l].vistos = {}
    BY <1>1, <1>3 DEF Queda, Fiel, Fase, Antes
  <2> QED
    BY <2>1 DEF Fiel, Fase, Fijo, Listado, Hallado, Antes
<1> QED
  BY <1>2, <1>3, BuscaEs DEF ListadosInv

\* What opendir finds is there.
LEMMA OpendirFiel ==
  ASSUME ListadosInv, NEW l \in Lectores, Opendir(l)
  PROVE  Fiel(lector[l])'
<1> DEFINE h == lector[l]
           f == [n \in Presentes(l) |-> Tabla(l)[n]]
<1>1. Fiel(h) /\ h.pc = "opendir"
  BY OpendirEs DEF ListadosInv
<1>2. CASE Acaba(l)
  BY <1>2, AcabaFiel
<1>3. CASE SoloLector(l)
           /\ Queda(l, h, "readdir", h.ret, h.leido, f, h.vistos, h.lista)
  <2>1. UNCHANGED <<conectados, publicaciones>>
    BY <1>3 DEF SoloLector, vars
  <2>2. h.vistos = {} /\ (h.op # "GET_FILE" => h.lista = {})
    BY <1>1 DEF Fiel, Fase, Antes
  <2>3. \A n \in DOMAIN f : /\ n \in DOMAIN TablaDe(h.op) /\ f[n] # Ausente
                            /\ f[n] = TablaDe(h.op)[n]
    BY DEF Presentes, Tabla, TablaDe
  <2> HIDE DEF f
  <2>4. /\ lector'[l].pc = "readdir" /\ lector'[l].op = h.op
        /\ lector'[l].fijos = f /\ lector'[l].vistos = {}
        /\ lector'[l].lista = h.lista
    BY <1>3, <2>2 DEF Queda
  <2>5. Fijo(h)'
    BY <2>1, <2>3, <2>4 DEF Fijo, TablaDe
  <2> QED
    BY <2>2, <2>4, <2>5 DEF Fiel, Fase, Listado, Debida, Hallado, Antes
<1> QED
  BY <1>2, <1>3, OpendirEs DEF ListadosInv

\* A record that is written is read as it is.
LEMMA LeidoBien ==
  ASSUME ListadosInv, NEW l \in Lectores, NEW n \in DOMAIN lector[l].fijos,
         lector[l].fijos[n] \notin {Vacio, Blanco}
  PROVE  /\ Tabla(l)[n] = lector[l].fijos[n]
         /\ Leidos(l, Tabla(l)[n]) = {lector[l].fijos[n]}
BY DEF ListadosInv, Fiel, Fijo, Tabla, TablaDe, Leidos

\* A listing comes to a file n that it has not read: what it lists stands for
\* n only, with its record.
LEMMA EntradaFiel ==
  ASSUME ListadosInv, NEW l \in Lectores, LeeEntrada(l)
  PROVE  Fiel(lector[l])'
<1> DEFINE h == lector[l]
<1>1. /\ Fiel(h) /\ h.pc = "readdir" /\ h.op # "GET_FILE"
      /\ UNCHANGED <<conectados, publicaciones>>
  BY EntradaEs DEF ListadosInv, SoloLector, vars
<1> DEFINE Paso(n, x) ==
             \/ /\ h.op = "LIST_USERS" \/ x = h.dato
                /\ Queda(l, h, "readdir", 0, x, h.fijos, h.vistos \cup {n},
                         h.lista \cup {<<n, x>>})
             \/ /\ ~(h.op = "LIST_USERS" \/ x = h.dato)
                /\ Queda(l, h, "readdir", h.ret, x, h.fijos,
                         h.vistos \cup {n}, h.lista)
<1>0. PICK n \in Presentes(l) \ h.vistos :
        \E x \in Leidos(l, Tabla(l)[n]) : Paso(n, x)
  BY EntradaEs DEF ListadosInv
<1>2. PICK x \in Leidos(l, Tabla(l)[n]) : Paso(n, x)
  BY <1>0
<1>3. n \in DOMAIN h.fijos /\ h.fijos[n] \notin {Vacio, Blanco} => x = h.fijos[n]
  BY LeidoBien
<1>4. PICK e : e = <<n, x>> /\ e[1] = n /\ e[2] = x
  <2>1. <<n, x>>[1] = n /\ <<n, x>>[2] = x
    OBVIOUS
  <2> QED
    BY <2>1
<1>5. /\ lector'[l].pc = "readdir" /\ lector'[l].op = h.op
      /\ lector'[l].dato = h.dato /\ lector'[l].fijos = h.fijos
      /\ lector'[l].vistos = h.vistos \cup {n}
      /\ \/ /\ h.op = "LIST_USERS" \/ x = h.dato
            /\ lector'[l].lista = h.lista \cup {e}
         \/ /\ ~(h.op = "LIST_USERS" \/ x = h.dato)
            /\ lector'[l].lista = h.lista
  BY <1>2, <1>4 DEF Queda
<1>6. Fase(h)' /\ Hallado(h)'
  BY <1>1, <1>5 DEF Fase, Hallado, Antes
<1>7. Fijo(h)'
  BY <1>1, <1>5 DEF Fiel, Fijo, TablaDe
<1>8. Listado(h)'
  <2>1. n \notin h.vistos /\ \A d \in h.lista : d[1] \in h.vistos
    BY <1>1, <1>2 DEF Fiel, Listado
  <2>2. \A d \in lector'[l].lista : d[1] \in lector'[l].vistos
    BY <1>4, <1>5, <2>1
  <2> SUFFICES ASSUME NEW o \in DOMAIN h.fijos, h.fijos[o] \notin {Vacio, Blanco}
               PROVE  /\ \A d \in lector'[l].lista : d[1] = o =>
                           d[2] = h.fijos[o] /\ Debida(h, o)'
                      /\ Debida(h, o)' => \E d \in lector'[l].lista :
                           d[1] = o /\ d[2] = h.fijos[o]
    BY <1>5, <2>2 DEF Listado
  <2>3. /\ \A d \in h.lista : d[1] = o => d[2] = h.fijos[o] /\ Debida(h, o)
        /\ Debida(h, o) => \E d \in h.lista : d[1] = o /\ d[2] = h.fijos[o]
    BY <1>1 DEF Fiel, Listado
  <2>4. CASE o = n
    BY <1>3, <1>4, <1>5, <2>1, <2>3, <2>4 DEF Debida
  <2>5. CASE o # n
    BY <1>4, <1>5, <2>3, <2>5 DEF Debida
  <2> QED
    BY <2>4, <2>5
<1> QED
  BY <1>6, <1>7, <1>8 DEF Fiel

LEMMA FicheroFiel ==
  ASSUME ListadosInv, NEW l \in Lectores, LeeFichero(l)
  PROVE  Fiel(lector[l])'
<1> DEFINE h == lector[l]
<1>1. /\ Fiel(h) /\ h.pc = "readdir" /\ h.op = "GET_FILE"
      /\ UNCHANGED <<conectados, publicaciones>>
  BY FicheroEs DEF ListadosInv, SoloLector, vars
<1>2. PICK x \in Leidos(l, Tabla(l)[h.dato]) :
        \/ /\ x = h.user
           /\ Queda(l, h, "codigo", 0, h.leido, h.fijos, h.vistos, h.lista)
        \/ /\ x # h.user
           /\ Queda(l, h, "readdir", h.ret, x, h.fijos, h.vistos \cup {h.dato},
                    h.lista)
  BY FicheroEs DEF ListadosInv
<1>3. h.dato \in DOMAIN h.fijos /\ h.fijos[h.dato] \notin {Vacio, Blanco} =>
        x = h.fijos[h.dato]
  BY LeidoBien
<1>4. /\ lector'[l].op = "GET_FILE" /\ lector'[l].user = h.user
      /\ lector'[l].dato = h.dato /\ lector'[l].fijos = h.fijos
      /\ \/ x = h.user /\ lector'[l].pc = "codigo" /\ lector'[l].ret = 0
         \/ x # h.user /\ lector'[l].pc = "readdir"
  BY <1>1, <1>2 DEF Queda
<1>5. Fase(h)' /\ Listado(h)'
  BY <1>4 DEF Fase, Listado, Antes
<1>6. Fijo(h)'
  BY <1>1, <1>4 DEF Fiel, Fijo, TablaDe
<1>7. Hallado(h)'
  BY <1>3, <1>4 DEF Hallado
<1> QED
  BY <1>5, <1>6, <1>7 DEF Fiel

\* Every step of a reader keeps what it has found true.
LEMMA AtiendeFiel ==
  ASSUME ListadosInv, NEW l \in Lectores,
         Atiende(l) \/ \E c \in Consultas : Pregunta(l, c)
  PROVE  Fiel(lector[l])'
<1>1. {"registro", "conexion", "remoto", "opendir", "codigo", "entradas", "numero"}
         \subseteq LectorPCs
  BY DEF LectorPCs
<1>2. CASE Avisa(l)
  BY <1>1, <1>2, VaFiel DEF Avisa, EnL, Antes
<1>3. CASE Comprueba(l)
  <2>1. lector[l].pc \in {"registro", "conexion", "remoto"}
    BY <1>3 DEF Comprueba, EnL
  <2>2. \/ \E ret \in {1, 2, 3} : Rechaza(l, ret)
        \/ \E pc \in {"conexion", "remoto", "opendir"} : Va(l, pc)
    BY <1>3 DEF Comprueba
  <2> QED
    BY <1>1, <2>1, <2>2, Codes, VaFiel, RechazaFiel DEF Antes
<1>4. CASE Closedir(l)
  BY <1>1, <1>4, Codes, VaFiel, RechazaFiel DEF Closedir, EnL
<1>5. CASE Envia(l)
  BY <1>1, <1>5, VaFiel, AcabaFiel DEF Envia, EnL
<1> QED
  BY <1>2, <1>3, <1>4, <1>5, BuscaFiel, OpendirFiel, EntradaFiel, FicheroFiel,
     PreguntaFiel DEF Atiende

\* A step of the others takes files away, and leaves written records alone.
LEMMA OtrosFiel ==
  ASSUME ListadosInv, PeticionesEnteras, Otros, vivo', NEW l \in Lectores
  PROVE  Fiel(lector[l])'
<1> DEFINE h == lector[l]
<1>1. Fiel(h) /\ RegistrosQuedan /\ TypeOK /\ TypeOK'
  BY EscriturasSiguen DEF ListadosInv, Otros, EscriturasInv, ServidorInv
<1>2. /\ lector'[l].pc = h.pc /\ lector'[l].op = h.op /\ lector'[l].user = h.user
      /\ lector'[l].dato = h.dato /\ lector'[l].ret = h.ret
      /\ lector'[l].vistos = h.vistos /\ lector'[l].lista = h.lista
      /\ lector'[l].fijos = [n \in Quedan(l) |-> h.fijos[n]]
  BY OtrosEs DEF ListadosInv, Queda
<1>3. /\ DOMAIN lector'[l].fijos \subseteq DOMAIN h.fijos
      /\ \A n \in DOMAIN lector'[l].fijos : lector'[l].fijos[n] = h.fijos[n]
      /\ \A n \in DOMAIN lector'[l].fijos : TablaDe(h.op)'[n] # Ausente
  BY <1>2 DEF Quedan, TablaDe
<1>4. Fase(h)'
  BY <1>1, <1>2, <1>3 DEF Fiel, Fase
<1>5. Fijo(h)'
  <2>1. DOMAIN TablaDe(h.op)' = DOMAIN TablaDe(h.op)
        /\ \A n \in DOMAIN TablaDe(h.op) :
             TablaDe(h.op)[n] \notin {Ausente, Vacio} =>
               TablaDe(h.op)'[n] \in {TablaDe(h.op)[n], Ausente}
    BY <1>1, <1>2 DEF RegistrosQuedan, TypeOK, TablaDe
  <2> QED
    BY <1>1, <1>2, <1>3, <2>1 DEF Fiel, Fijo
<1>6. Listado(h)'
  BY <1>1, <1>2, <1>3 DEF Fiel, Listado, Debida
<1>7. Hallado(h)'
  BY <1>1, <1>2, <1>3 DEF Fiel, Hallado
<1> QED
  BY <1>4, <1>5, <1>6, <1>7 DEF Fiel

\* The readers' own steps write nothing.
LEMMA EscriturasIguales ==
  ASSUME EscriturasInv, UNCHANGED vars PROVE EscriturasInv'
<1>1. ServidorInv'
  BY StepInv DEF EscriturasInv
<1> QED
  BY <1>1 DEF EscriturasInv, Separados, Activo, SobreVacio, vars, disco

LEMMA FielIgual ==
  ASSUME NEW l \in Lectores, Fiel(lector[l]), lector'[l] = lector[l],
         UNCHANGED vars
  PROVE  Fiel(lector[l])'
BY DEF Fiel, Fase, Fijo, Listado, Debida, Hallado, TablaDe, vars, disco

\* Nothing but a fall ends the process.
LEMMA SoloCaidas == Next /\ ~vivo' => Muere
<1> SUFFICES ASSUME Next, ~vivo', ~Muere PROVE FALSE
  OBVIOUS
<1>1. ASSUME NEW t \in Hilos,
             Rpc(t) \/ Desconocida(t) \/ Responde(t) \/ \E p \in Peticiones : Recibe(t, p)
      PROVE  FALSE
  BY <1>1 DEF Rpc, Desconocida, Responde, Recibe, En
<1>2. ASSUME NEW t \in Hilos, Register(t) \/ Unregister(t) PROVE FALSE
  BY <1>2 DEF Register, Unregister, Mira, En
<1>3. ASSUME NEW t \in Hilos, Connect(t) \/ Disconnect(t) PROVE FALSE
  BY <1>3 DEF Connect, Disconnect, Mira, En
<1>4. ASSUME NEW t \in Hilos, Publish(t) \/ Delete(t) PROVE FALSE
  BY <1>4 DEF Publish, Delete, Mira, En
<1> QED
  BY <1>1, <1>2, <1>3, <1>4 DEF Next, Trata, Falla, Sigint, Reinicia

LEMMA ListadosStep ==
  ASSUME PeticionesEnteras PROVE ListadosInv /\ [LNext]_lvars => ListadosInv'
<1> SUFFICES ASSUME ListadosInv, [LNext]_lvars PROVE ListadosInv'
  OBVIOUS
<1>1. TiposInv'
  BY TiposStep DEF ListadosInv
<1>2. ASSUME NEW l \in Lectores,
             Atiende(l) \/ \E c \in Consultas : Pregunta(l, c)
      PROVE  ListadosInv'
  <2>1. SoloLector(l)
    BY <1>2, AtiendeSolo DEF ListadosInv
  <2>2. EscriturasInv'
    BY <2>1, EscriturasIguales DEF ListadosInv, SoloLector
  <2>3. \A k \in Lectores : Fiel(lector[k])'
    <3> TAKE k \in Lectores
    <3>1. CASE k = l
      BY <1>2, <3>1, AtiendeFiel
    <3>2. CASE k # l
      BY <2>1, <3>2, FielIgual DEF ListadosInv, SoloLector
    <3> QED
      BY <3>1, <3>2
  <2> QED
    BY <1>1, <2>2, <2>3 DEF ListadosInv
<1>3. ASSUME Muere, \A l \in Lectores : lector'[l] = LectorLibre
      PROVE  ListadosInv'
  <2>1. EscriturasInv'
    BY <1>3, EscriturasCaen DEF ListadosInv
  <2>2. \A l \in Lectores : Fiel(lector[l])'
    BY <1>3, LibreFiel
  <2> QED
    BY <1>1, <2>1, <2>2 DEF ListadosInv
<1>4. ASSUME NEW l \in Lectores, Cae(l) PROVE ListadosInv'
  BY <1>3, <1>4, CaeEs
<1>5. CASE Otros
  <2>1. CASE vivo'
    <3>1. EscriturasInv'
      BY <1>5, <2>1, EscriturasSiguen DEF ListadosInv, Otros
    <3> QED
      BY <1>1, <1>5, <2>1, <3>1, OtrosFiel DEF ListadosInv
  <2>2. CASE ~vivo'
    <3>1. Muere
      BY <1>5, <2>2, SoloCaidas DEF Otros
    <3> QED
      BY <1>3, <1>5, <2>2, <3>1, OtrosEs DEF ListadosInv
  <2> QED
    BY <2>1, <2>2
<1>6. CASE UNCHANGED lvars
  <2>1. EscriturasInv'
    BY <1>6, EscriturasIguales DEF ListadosInv, lvars
  <2>2. \A l \in Lectores : Fiel(lector[l])'
    BY <1>6, FielIgual DEF ListadosInv, lvars
  <2> QED
    BY <1>1, <2>1, <2>2 DEF ListadosInv
<1> QED
  BY <1>2, <1>4, <1>5, <1>6 DEF LNext

\* While the requests in progress concern different users and publications, no
\* written record changes except by its removal, and what every reader has
\* found agrees with the records that are still there (servidor.c:562-968).
THEOREM ListadosCorrect ==
  ASSUME PeticionesEnteras PROVE LSpec => []ListadosInv
<1>1. LInit => ListadosInv
  <2> SUFFICES ASSUME LInit PROVE ListadosInv
    OBVIOUS
  <2>1. ServidorInv
    BY InitInv DEF LInit
  <2>2. EscriturasInv
    BY <2>1 DEF LInit, Init, PilaNueva, EscriturasInv, Activo, SobreVacio
  <2>3. lector = [l \in Lectores |-> LectorLibre]
    BY DEF LInit
  <2>4. ASSUME NEW l \in Lectores PROVE Fiel(lector[l])
    BY <2>3, LibreEs DEF Fiel, Fase, Fijo, Listado, Hallado, Antes
  <2> QED
    BY <2>1, <2>2, <2>3, <2>4, LibreEs DEF ListadosInv, TiposInv
<1> QED
  BY <1>1, ListadosStep, PTL DEF LSpec

\* However CONNECTs, DISCONNECTs, PUBLISHes and DELETEs change the directory
\* while LIST_USERS or LIST_CONTENT goes through it, a file that stays as it
\* was is listed exactly once with its record, if it is one of those asked
\* for, and not at all otherwise (servidor.c:656-684, 804-829).
THEOREM StableIsListed ==
  ASSUME PeticionesEnteras PROVE LSpec => []StableListed
<1>1. ListadosInv => StableListed
  <2> SUFFICES ASSUME ListadosInv, NEW l \in Lectores,
                      lector[l].op # "GET_FILE",
                      lector[l].pc \in {"codigo", "numero", "entradas"},
                      NEW n \in DOMAIN lector[l].fijos, Estable(l, n)
               PROVE  LET h == lector[l] IN
                      {e[2] : e \in {d \in h.lista : d[1] = n}} =
                        IF h.op = "LIST_USERS" \/ h.fijos[n] = h.dato
                        THEN {h.fijos[n]} ELSE {}
    BY DEF StableListed
  <2> DEFINE h == lector[l]
             c == h.fijos[n]
  <2>1. /\ \A e \in h.lista : e[1] = n => e[2] = c /\ Debida(h, n)
        /\ Debida(h, n) => \E e \in h.lista : e[1] = n /\ e[2] = c
        /\ n \in h.vistos
    BY DEF ListadosInv, Fiel, Listado, Estable
  <2>2. Debida(h, n) <=> h.op = "LIST_USERS" \/ c = h.dato
    BY <2>1 DEF Debida
  <2> HIDE DEF h, c
  <2> QED
    BY <2>1, <2>2 DEF h, c
<1>2. LSpec => []ListadosInv
  BY ListadosCorrect
<1> QED
  BY <1>1, <1>2, PTL

\* GET_FILE does not deny a file that its user has had published all along,
\* nor grants one that another user has (servidor.c:911-953).
THEOREM StableIsFound ==
  ASSUME PeticionesEnteras PROVE LSpec => []StableFound
<1>1. ListadosInv => StableFound
  BY DEF ListadosInv, Fiel, Hallado, StableFound, Estable
<1>2. LSpec => []ListadosInv
  BY ListadosCorrect
<1> QED
  BY <1>1, <1>2, PTL
=============================================================================
