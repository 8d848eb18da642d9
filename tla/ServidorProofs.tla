--------------------------- MODULE ServidorProofs ---------------------------
(***************************************************************************)
(* Proofs about Servidor, for every set of threads, users, publications    *)
(* and requests: the types, and that no record stays empty and no          *)
(* description file stays behind while the server does not fall, however   *)
(* the requests overlap.                                                   *)
(***************************************************************************)
EXTENDS Servidor, TLAPS

\* What CONNECT writes is a port, into the record of a user.
ConectaBien ==
  \A t \in Hilos : hilo[t].pc = "con_escribe" =>
    hilo[t].user \in Usuarios /\ hilo[t].dato \in Puertos \cup {Blanco}

ServidorInv == TypeOK /\ ConectaBien /\ EmptyHasWriter /\ DescriptionsSwept

\* The states of a thread that has a file open for writing, or a description
\* file to remove.
Ocupado == {"con_escribe", "pub_escribe", "del_limpia"}

\* A step of t alone, which is not and does not get in such a state.
Aparte(t) ==
  /\ \A v \in Hilos \ {t} : hilo'[v] = hilo[v]
  /\ hilo[t].pc \notin Ocupado
  /\ hilo'[t].pc \notin Ocupado

-----------------------------------------------------------------------------
\* Moving on and answering keep the type of the threads.
LEMMA PilaNuevaType == PilaNueva \in Marcos
BY DEF PilaNueva, Marcos, HiloPCs, Cuentas, Datos

LEMMA SigueType ==
  ASSUME TypeOK, NEW t \in Hilos, NEW pc \in HiloPCs, Sigue(t, pc)
  PROVE  /\ hilo' \in [Hilos -> Marcos]
         /\ hilo'[t].pc = pc
         /\ hilo'[t].user = hilo[t].user
         /\ hilo'[t].dato = hilo[t].dato
         /\ \A v \in Hilos \ {t} : hilo'[v] = hilo[v]
BY DEF TypeOK, Sigue, Marcos

LEMMA ContestaType ==
  ASSUME TypeOK, NEW t \in Hilos, NEW ret \in 0..3, Contesta(t, ret)
  PROVE  /\ hilo' \in [Hilos -> Marcos]
         /\ hilo'[t].pc = "responde"
         /\ \A v \in Hilos \ {t} : hilo'[v] = hilo[v]
<1> DEFINE m == [hilo[t] EXCEPT !.pc = "responde", !.ret = ret]
<1>1. m \in Marcos /\ m.pc = "responde"
  <2>1. hilo[t] \in Marcos /\ "responde" \in HiloPCs
    BY DEF TypeOK, HiloPCs
  <2> QED
    BY <2>1 DEF Marcos
<1>2. hilo' = [hilo EXCEPT ![t] = m]
  BY DEF Contesta
<1> HIDE DEF m
<1> QED
  BY <1>1, <1>2 DEF TypeOK

LEMMA AbreConexionType ==
  ASSUME TypeOK, NEW t \in Hilos, NEW d \in Puertos \cup {Blanco},
         hilo' = [hilo EXCEPT ![t] = [hilo[t] EXCEPT !.pc = "con_escribe",
                                                     !.dato = d]]
  PROVE  /\ hilo' \in [Hilos -> Marcos]
         /\ hilo'[t].pc = "con_escribe"
         /\ hilo'[t].dato = d /\ hilo'[t].user = hilo[t].user
         /\ \A v \in Hilos \ {t} : hilo'[v] = hilo[v]
<1> DEFINE m == [hilo[t] EXCEPT !.pc = "con_escribe", !.dato = d]
<1>1. m \in Marcos /\ m.pc = "con_escribe" /\ m.dato = d
      /\ m.user = hilo[t].user
  <2>1. hilo[t] \in Marcos /\ "con_escribe" \in HiloPCs /\ d \in Datos
    BY DEF TypeOK, HiloPCs, Datos
  <2> QED
    BY <2>1 DEF Marcos
<1>2. hilo' = [hilo EXCEPT ![t] = m]
  OBVIOUS
<1> HIDE DEF m
<1> QED
  BY <1>1, <1>2 DEF TypeOK

\* The fields of a thread's stack have their types.
LEMMA MarcoFields ==
  ASSUME TypeOK, NEW t \in Hilos
  PROVE  /\ hilo[t].op \in Operaciones \cup {""}
         /\ hilo[t].user \in Cuentas
         /\ hilo[t].dato \in Datos
         /\ hilo[t].ret \in 0..3
BY DEF TypeOK, Marcos

\* The kinds of file contents are told apart.
LEMMA ContentsDiffer ==
  /\ Ausente # Vacio /\ Mezcla # Vacio
  /\ Vacio \notin Cuentas \cup Puertos \cup {Blanco}
BY ServidorAssumption DEF Cuentas

LEMMA Codes == 0 \in 0..3 /\ 1 \in 0..3 /\ 2 \in 0..3 /\ 3 \in 0..3
OBVIOUS

\* The tables after a fall hold what they held, or a record of a writer.
LEMMA MuereTypes == TypeOK /\ ConectaBien /\ Muere => TypeOK'
<1> SUFFICES ASSUME TypeOK, ConectaBien, Muere PROVE TypeOK'
  OBVIOUS
<1> USE DEF TypeOK
<1>1. PICK F \in SUBSET enlazados, M \in SUBSET Usuarios :
        /\ conectados' = [u \in Usuarios |->
             IF u \in M THEN Mezcla
             ELSE IF F \cap Conectando(u) = {} THEN conectados[u]
             ELSE hilo[CHOOSE t \in F \cap Conectando(u) : TRUE].dato]
        /\ publicaciones' = [r \in Rutas |->
             IF F \cap Publicando(r) = {} THEN publicaciones[r]
             ELSE hilo[CHOOSE t \in F \cap Publicando(r) : TRUE].user]
  BY DEF Muere
<1>2. conectados' \in [Usuarios -> Puertos \cup {Blanco, Ausente, Vacio, Mezcla}]
  <2> SUFFICES ASSUME NEW u \in Usuarios
               PROVE  conectados'[u] \in
                        Puertos \cup {Blanco, Ausente, Vacio, Mezcla}
    BY <1>1
  <2>1. CASE u \in M \/ F \cap Conectando(u) = {}
    BY <1>1, <2>1
  <2>2. CASE u \notin M /\ F \cap Conectando(u) # {}
    <3> DEFINE c == CHOOSE t \in F \cap Conectando(u) : TRUE
    <3>1. c \in Conectando(u)
      BY <2>2
    <3>2. hilo[c].dato \in Puertos \cup {Blanco}
      BY <3>1 DEF Conectando, ConectaBien
    <3> QED
      BY <1>1, <2>2, <3>2
  <2> QED
    BY <2>1, <2>2
<1>3. publicaciones' \in [Rutas -> Cuentas \cup {Ausente, Vacio}]
  <2> SUFFICES ASSUME NEW r \in Rutas
               PROVE  publicaciones'[r] \in Cuentas \cup {Ausente, Vacio}
    BY <1>1
  <2>1. CASE F \cap Publicando(r) = {}
    BY <1>1, <2>1
  <2>2. CASE F \cap Publicando(r) # {}
    <3> DEFINE c == CHOOSE t \in F \cap Publicando(r) : TRUE
    <3>1. c \in Hilos
      BY <2>2 DEF Publicando
    <3>2. hilo[c].user \in Cuentas
      BY <3>1 DEF Marcos
    <3> QED
      BY <1>1, <2>2, <3>2
  <2> QED
    BY <2>1, <2>2
<1>4. hilo' \in [Hilos -> Marcos]
  BY PilaNuevaType DEF Muere
<1> QED
  BY <1>2, <1>3, <1>4 DEF Muere

\* Every step keeps the types.
LEMMA TypeStep == ServidorInv /\ [Next]_vars => TypeOK'
<1> SUFFICES ASSUME ServidorInv, [Next]_vars PROVE TypeOK'
  OBVIOUS
<1> USE DEF ServidorInv
<1>1. ASSUME NEW t \in Hilos, NEW p \in Peticiones, Recibe(t, p) PROVE TypeOK'
  <2>1. PICK d \in Ficheros \cup {Blanco, p.dato} :
          hilo' = [hilo EXCEPT ![t] =
            [pc |-> "rpc", ret |-> hilo[t].ret,
             op   |-> IF p.llega >= 1 THEN p.op ELSE hilo[t].op,
             user |-> IF p.llega >= 2 THEN p.user ELSE hilo[t].user,
             dato |-> d, llega |-> p.llega]]
    BY <1>1 DEF Recibe
  <2>2. /\ p.op \in Operaciones /\ p.user \in Cuentas
        /\ p.dato \in Datos /\ p.llega \in 0..3
    BY ServidorAssumption
  <2>3. d \in Datos
    BY <2>2 DEF Datos
  <2> DEFINE m == [pc |-> "rpc", ret |-> hilo[t].ret,
             op   |-> IF p.llega >= 1 THEN p.op ELSE hilo[t].op,
             user |-> IF p.llega >= 2 THEN p.user ELSE hilo[t].user,
             dato |-> d, llega |-> p.llega]
  <2>4. m \in Marcos
    BY <2>2, <2>3, MarcoFields DEF Marcos, HiloPCs
  <2>5. hilo' = [hilo EXCEPT ![t] = m]
    BY <2>1
  <2> HIDE DEF m
  <2> QED
    BY <1>1, <2>4, <2>5 DEF Recibe, TypeOK, disco
<1>2. ASSUME NEW t \in Hilos, Rpc(t) PROVE TypeOK'
  <2>1. Comienzo[hilo[t].op] \in HiloPCs
    BY <1>2 DEF Rpc, Comienzo, Operaciones, HiloPCs
  <2> QED
    BY <1>2, <2>1, SigueType DEF Rpc, TypeOK, disco
<1>3. ASSUME NEW t \in Hilos, Desconocida(t) PROVE TypeOK'
  <2>1. hilo' \in [Hilos -> Marcos]
    BY <1>3, Codes, ContestaType DEF Desconocida
  <2> QED
    BY <1>3, <2>1 DEF Desconocida, TypeOK, disco
<1>4. ASSUME NEW t \in Hilos, Responde(t) PROVE TypeOK'
  <2> DEFINE m == [pc |-> "libre", op |-> hilo[t].op, user |-> hilo[t].user,
                   dato |-> Blanco, llega |-> 0, ret |-> hilo[t].ret]
  <2>1. m \in Marcos
    BY MarcoFields, Codes DEF Marcos, HiloPCs, Datos
  <2>2. hilo' = [hilo EXCEPT ![t] = IF PilaReusada THEN m ELSE PilaNueva]
    BY <1>4 DEF Responde
  <2> HIDE DEF m
  <2>3. hilo' \in [Hilos -> Marcos]
    BY <2>1, <2>2, PilaNuevaType DEF TypeOK
  <2> QED
    BY <1>4, <2>3 DEF Responde, TypeOK, disco
<1>5. CASE Muere
  BY <1>5, MuereTypes
<1>6. ASSUME NEW t \in Hilos, Register(t), ~Muere PROVE TypeOK'
  <2>1. hilo' \in [Hilos -> Marcos]
    BY <1>6, Codes, SigueType, ContestaType DEF Register, Mira, HiloPCs
  <2> QED
    BY <1>6, <2>1, MarcoFields DEF Register, Mira, TypeOK, disco, Cuentas
<1>7. ASSUME NEW t \in Hilos, Unregister(t) PROVE TypeOK'
  <2>1. hilo' \in [Hilos -> Marcos]
    BY <1>7, Codes, SigueType, ContestaType DEF Unregister, Mira, HiloPCs
  <2> QED
    BY <1>7, <2>1, MarcoFields DEF Unregister, Mira, TypeOK, disco
<1>8. ASSUME NEW t \in Hilos, Connect(t), ~Muere PROVE TypeOK'
  <2>1. hilo' \in [Hilos -> Marcos]
    BY <1>8, Codes, SigueType, ContestaType, AbreConexionType DEF Connect, Mira, HiloPCs
  <2> QED
    BY <1>8, <2>1, MarcoFields DEF Connect, Mira, TypeOK, disco, Cuentas
<1>9. ASSUME NEW t \in Hilos, Disconnect(t) PROVE TypeOK'
  <2>1. hilo' \in [Hilos -> Marcos]
    BY <1>9, Codes, SigueType, ContestaType DEF Disconnect, Mira, HiloPCs
  <2> QED
    BY <1>9, <2>1, MarcoFields DEF Disconnect, Mira, TypeOK, disco
<1>10. ASSUME NEW t \in Hilos, Publish(t), ~Muere PROVE TypeOK'
  <2>1. hilo' \in [Hilos -> Marcos]
    BY <1>10, Codes, SigueType, ContestaType DEF Publish, Mira, HiloPCs
  <2> QED
    BY <1>10, <2>1, MarcoFields DEF Publish, Mira, TypeOK, disco
<1>11. ASSUME NEW t \in Hilos, Delete(t), ~Muere PROVE TypeOK'
  <2>1. hilo' \in [Hilos -> Marcos]
    BY <1>11, Codes, SigueType, ContestaType DEF Delete, Mira, HiloPCs
  <2> QED
    BY <1>11, <2>1, MarcoFields DEF Delete, Mira, TypeOK, disco, Abre
<1>12. CASE Reinicia
  BY <1>12 DEF Reinicia, TypeOK, disco
<1>13. CASE UNCHANGED vars
  BY <1>13 DEF vars, TypeOK
<1> QED
  BY <1>1, <1>2, <1>3, <1>4, <1>5, <1>6, <1>7, <1>8, <1>9, <1>10, <1>11,
     <1>12, <1>13
  DEF Next, Trata, Falla, Sigint

-----------------------------------------------------------------------------
\* A thread that is not writing and not removing a description file is in none
\* of the sets that the invariants speak of, and its step leaves them alone.
LEMMA AparteKeepsSets ==
  ASSUME NEW t \in Hilos, Aparte(t)
  PROVE  /\ \A u : Conectando(u)' = Conectando(u)
         /\ \A r : Publicando(r)' = Publicando(r)
         /\ \A r : Limpiando(r)' = Limpiando(r)
<1>1. \A v \in Hilos : v # t => hilo'[v] = hilo[v]
  BY DEF Aparte
<1>2. /\ hilo[t].pc \notin {"con_escribe", "pub_escribe", "del_limpia"}
      /\ hilo'[t].pc \notin {"con_escribe", "pub_escribe", "del_limpia"}
  BY DEF Aparte, Ocupado
<1>3. \A u : Conectando(u)' = Conectando(u)
  BY <1>1, <1>2 DEF Conectando
<1>4. \A r : Publicando(r)' = Publicando(r)
  BY <1>1, <1>2 DEF Publicando
<1>5. \A r : Limpiando(r)' = Limpiando(r)
  BY <1>1, <1>2 DEF Limpiando
<1> QED
  BY <1>3, <1>4, <1>5

\* Such a step keeps the invariant if it leaves the records alone as well.
LEMMA LookKeeps ==
  ASSUME ServidorInv, TypeOK', NEW t \in Hilos, Aparte(t),
         UNCHANGED <<conectados, publicaciones, enlazados, caido>>
  PROVE  ServidorInv'
<1>1. ConectaBien'
  BY DEF ServidorInv, ConectaBien, Aparte, Ocupado
<1>2. EmptyHasWriter' /\ DescriptionsSwept'
  BY AparteKeepsSets DEF ServidorInv, EmptyHasWriter, DescriptionsSwept
<1> QED
  BY <1>1, <1>2 DEF ServidorInv

\* After a fall there is nothing to keep: no thread writes and caido holds.
LEMMA FallKeeps == ServidorInv /\ TypeOK' /\ Muere => ServidorInv'
<1> SUFFICES ASSUME TypeOK', Muere PROVE ServidorInv'
  OBVIOUS
<1>1. caido'
  BY DEF Muere
<1>2. \A t \in Hilos : hilo'[t].pc = "libre"
  BY DEF Muere, PilaNueva
<1> QED
  BY <1>1, <1>2
  DEF ServidorInv, ConectaBien, EmptyHasWriter, DescriptionsSwept

LEMMA RegisterKeeps ==
  ASSUME ServidorInv, TypeOK', NEW t \in Hilos, Register(t), ~Muere
  PROVE  ServidorInv'
<1>1. Aparte(t)
  BY Codes, SigueType, ContestaType
  DEF Register, Mira, En, HiloPCs, Aparte, Ocupado, ServidorInv
<1>2. UNCHANGED <<conectados, publicaciones, enlazados, caido>>
  BY DEF Register, Mira, disco
<1> QED
  BY <1>1, <1>2, LookKeeps

LEMMA UnregisterKeeps ==
  ASSUME ServidorInv, TypeOK', NEW t \in Hilos, Unregister(t)
  PROVE  ServidorInv'
<1>1. Aparte(t)
  BY Codes, SigueType, ContestaType
  DEF Unregister, Mira, En, HiloPCs, Aparte, Ocupado, ServidorInv
<1>2. UNCHANGED <<conectados, publicaciones, enlazados, caido>>
  BY DEF Unregister, Mira, disco
<1> QED
  BY <1>1, <1>2, LookKeeps

LEMMA DisconnectKeeps ==
  ASSUME ServidorInv, TypeOK', NEW t \in Hilos, Disconnect(t)
  PROVE  ServidorInv'
<1>1. Aparte(t)
  BY Codes, SigueType, ContestaType
  DEF Disconnect, Mira, En, HiloPCs, Aparte, Ocupado, ServidorInv
<1>2. CASE UNCHANGED <<conectados, publicaciones, enlazados, caido>>
  BY <1>1, <1>2, LookKeeps
<1>3. CASE hilo[t].pc = "dis_borra"
  <2> DEFINE u == hilo[t].user
  <2>1. /\ conectados' = [v \in Usuarios |->
                            IF v = u THEN Ausente ELSE conectados[v]]
        /\ enlazados' = enlazados \ Conectando(u)
        /\ UNCHANGED <<publicaciones, caido>>
    BY <1>3 DEF Disconnect, Mira, En
  <2>2. \A r : Publicando(r) \cap Conectando(u) = {}
    BY DEF Publicando, Conectando
  <2>3. \A v : v # u => Conectando(v) \cap Conectando(u) = {}
    BY DEF Conectando
  <2>4. ConectaBien'
    BY <1>1 DEF ServidorInv, ConectaBien, Aparte, Ocupado
  <2>5. EmptyHasWriter'
    <3>1. ASSUME ~caido, NEW v \in Usuarios, conectados'[v] = Vacio
          PROVE  Conectando(v) \cap enlazados' # {}
      <4>1. v # u /\ conectados[v] = Vacio
        BY <2>1, <3>1, ContentsDiffer
      <4> QED
        BY <2>1, <2>3, <3>1, <4>1 DEF ServidorInv, EmptyHasWriter
    <3> QED
      BY <1>1, <2>1, <2>2, <3>1, AparteKeepsSets
      DEF ServidorInv, EmptyHasWriter
  <2>6. DescriptionsSwept'
    BY <1>1, <2>1, AparteKeepsSets DEF ServidorInv, DescriptionsSwept
  <2> QED
    BY <2>4, <2>5, <2>6 DEF ServidorInv
<1> QED
  BY <1>2, <1>3 DEF Disconnect, Mira, En, disco

LEMMA ConnectKeeps ==
  ASSUME ServidorInv, TypeOK', NEW t \in Hilos, Connect(t), ~Muere
  PROVE  ServidorInv'
<1> DEFINE u == hilo[t].user
           puerto == IF hilo[t].dato \in Puertos THEN hilo[t].dato ELSE Blanco
<1>1. puerto \in Puertos \cup {Blanco}
  OBVIOUS
<1>2. CASE hilo[t].pc \in {"con_registro", "con_conexion"}
  <2>1. Aparte(t)
    BY <1>2, Codes, SigueType, ContestaType
    DEF Connect, Mira, En, HiloPCs, Aparte, Ocupado, ServidorInv
  <2>2. UNCHANGED <<conectados, publicaciones, enlazados, caido>>
    BY <1>2 DEF Connect, Mira, En, disco
  <2> QED
    BY <2>1, <2>2, LookKeeps
<1>3. CASE hilo[t].pc = "con_crea"
  <2>1. /\ u # Blanco
        /\ conectados' = [conectados EXCEPT ![u] = Vacio]
        /\ hilo' = [hilo EXCEPT ![t] = [hilo[t] EXCEPT
                      !.pc = "con_escribe", !.dato = puerto]]
        /\ enlazados' = enlazados \cup {t}
        /\ UNCHANGED <<publicaciones, caido>>
    BY <1>3 DEF Connect, Mira, En
  <2>2. /\ hilo'[t].pc = "con_escribe"
        /\ hilo'[t].dato = puerto /\ hilo'[t].user = u
        /\ \A v \in Hilos \ {t} : hilo'[v] = hilo[v]
    BY <1>1, <2>1, AbreConexionType DEF ServidorInv
  <2>3. ConectaBien'
    BY <1>1, <2>1, <2>2, MarcoFields DEF ServidorInv, ConectaBien, Cuentas
  <2>4. /\ t \in Conectando(u)'
        /\ \A v : Conectando(v) \subseteq Conectando(v)'
        /\ \A r : Publicando(r) \subseteq Publicando(r)'
        /\ \A r : Limpiando(r) \subseteq Limpiando(r)'
    BY <1>3, <2>2 DEF Conectando, Publicando, Limpiando
  <2>5. EmptyHasWriter'
    BY <2>1, <2>4 DEF ServidorInv, TypeOK, EmptyHasWriter
  <2>6. DescriptionsSwept'
    BY <2>1, <2>4 DEF ServidorInv, DescriptionsSwept
  <2> QED
    BY <2>3, <2>5, <2>6 DEF ServidorInv
<1>4. CASE hilo[t].pc = "con_escribe"
  <2>1. /\ \/ t \notin enlazados /\ UNCHANGED conectados
           \/ \E c \in {puerto, Mezcla} :
                conectados' = [conectados EXCEPT ![u] = c]
        /\ enlazados' = enlazados \ {t}
        /\ Contesta(t, 0)
        /\ UNCHANGED <<publicaciones, caido>>
    BY <1>4 DEF Connect, Mira, En
  <2>2. hilo'[t].pc = "responde" /\ \A v \in Hilos \ {t} : hilo'[v] = hilo[v]
    BY <2>1, Codes, ContestaType DEF ServidorInv
  <2>3. ConectaBien'
    BY <2>2 DEF ServidorInv, ConectaBien
  <2>4. /\ \A v : Conectando(v)' = Conectando(v) \ {t}
        /\ \A r : Publicando(r)' = Publicando(r) /\ t \notin Publicando(r)
        /\ \A r : Limpiando(r)' = Limpiando(r)
    BY <1>4, <2>2 DEF Conectando, Publicando, Limpiando
  <2>5. EmptyHasWriter'
    <3>1. ASSUME ~caido, NEW v \in Usuarios, conectados'[v] = Vacio
          PROVE  (Conectando(v) \ {t}) \cap (enlazados \ {t}) # {}
      <4>1. conectados[v] = Vacio /\ (v = u => t \notin enlazados)
        BY <1>1, <2>1, <3>1, ContentsDiffer DEF ServidorInv, TypeOK
      <4>2. v # u => t \notin Conectando(v)
        BY DEF Conectando
      <4> QED
        BY <3>1, <4>1, <4>2 DEF ServidorInv, EmptyHasWriter
    <3> QED
      BY <2>1, <2>4, <3>1 DEF ServidorInv, EmptyHasWriter
  <2>6. DescriptionsSwept'
    BY <2>1, <2>4 DEF ServidorInv, DescriptionsSwept
  <2> QED
    BY <2>3, <2>5, <2>6 DEF ServidorInv
<1> QED
  BY <1>2, <1>3, <1>4 DEF Connect, Mira, En

LEMMA PublishKeeps ==
  ASSUME ServidorInv, TypeOK', NEW t \in Hilos, Publish(t), ~Muere
  PROVE  ServidorInv'
<1> DEFINE f == hilo[t].dato
<1>1. CASE hilo[t].pc \in {"pub_registro", "pub_conexion", "pub_existe"}
  <2>1. Aparte(t)
    BY <1>1, Codes, SigueType, ContestaType
    DEF Publish, Mira, En, HiloPCs, Aparte, Ocupado, ServidorInv
  <2>2. UNCHANGED <<conectados, publicaciones, enlazados, caido>>
    BY <1>1 DEF Publish, Mira, En, disco
  <2> QED
    BY <2>1, <2>2, LookKeeps
<1>2. CASE hilo[t].pc = "pub_crea"
  <2>1. /\ f # Blanco
        /\ publicaciones' = [publicaciones EXCEPT ![f] = Vacio]
        /\ enlazados' = enlazados \cup {t}
        /\ Sigue(t, "pub_escribe")
        /\ UNCHANGED <<conectados, caido>>
    BY <1>2 DEF Publish, Mira, En
  <2>2. /\ hilo'[t].pc = "pub_escribe" /\ hilo'[t].dato = f
        /\ \A v \in Hilos \ {t} : hilo'[v] = hilo[v]
    BY <2>1, SigueType DEF ServidorInv, HiloPCs
  <2>3. f \in Rutas => f \in Ficheros
    BY <2>1, MarcoFields, ServidorAssumption DEF ServidorInv, Datos
  <2>4. ConectaBien'
    BY <2>2 DEF ServidorInv, ConectaBien
  <2>5. /\ t \in Publicando(f)'
        /\ \A v : Conectando(v) \subseteq Conectando(v)'
        /\ \A r : Publicando(r) \subseteq Publicando(r)'
        /\ \A r : Limpiando(r) \subseteq Limpiando(r)'
    BY <1>2, <2>2 DEF Conectando, Publicando, Limpiando
  <2>6. EmptyHasWriter'
    BY <2>1, <2>2, <2>5 DEF ServidorInv, TypeOK, EmptyHasWriter
  <2>7. DescriptionsSwept'
    BY <2>1, <2>2, <2>3, <2>5 DEF ServidorInv, TypeOK, DescriptionsSwept
  <2> QED
    BY <2>4, <2>6, <2>7 DEF ServidorInv
<1>3. CASE hilo[t].pc = "pub_escribe"
  <2>1. /\ publicaciones' = IF t \in enlazados
                            THEN [publicaciones EXCEPT ![f] = hilo[t].user]
                            ELSE publicaciones
        /\ enlazados' = enlazados \ {t}
        /\ Contesta(t, 0)
        /\ UNCHANGED <<conectados, caido>>
    BY <1>3 DEF Publish, Mira, En
  <2>2. hilo'[t].pc = "responde" /\ \A v \in Hilos \ {t} : hilo'[v] = hilo[v]
    BY <2>1, Codes, ContestaType DEF ServidorInv
  <2>3. ConectaBien'
    BY <2>2 DEF ServidorInv, ConectaBien
  <2>4. /\ \A v : Conectando(v)' = Conectando(v) /\ t \notin Conectando(v)
        /\ \A r : Publicando(r)' = Publicando(r) \ {t}
        /\ \A r : Limpiando(r)' = Limpiando(r)
    BY <1>3, <2>2 DEF Conectando, Publicando, Limpiando
  <2>5. ASSUME NEW r \in Rutas, publicaciones'[r] = Vacio
        PROVE  publicaciones[r] = Vacio /\ (r = f => t \notin enlazados)
    BY <2>1, <2>5, MarcoFields, ContentsDiffer DEF ServidorInv, TypeOK
  <2>6. EmptyHasWriter'
    <3>1. ASSUME ~caido, NEW r \in Rutas, publicaciones'[r] = Vacio
          PROVE  ((Publicando(r) \ {t}) \cap (enlazados \ {t}))
                   \cup Limpiando(r) # {}
      <4>1. r # f => t \notin Publicando(r)
        BY DEF Publicando
      <4> QED
        BY <2>5, <3>1, <4>1 DEF ServidorInv, EmptyHasWriter
    <3> QED
      BY <2>1, <2>4, <3>1 DEF ServidorInv, EmptyHasWriter
  <2>7. DescriptionsSwept'
    <3>1. f \in Rutas => f \in Ficheros \/ t \notin enlazados
          \/ publicaciones[f] # Ausente
      BY <1>3, MarcoFields, ServidorAssumption DEF ServidorInv, Datos
    <3> QED
      BY <2>1, <2>4, <3>1 DEF ServidorInv, TypeOK, DescriptionsSwept
  <2> QED
    BY <2>3, <2>6, <2>7 DEF ServidorInv
<1> QED
  BY <1>1, <1>2, <1>3 DEF Publish, Mira, En

LEMMA DeleteKeeps ==
  ASSUME ServidorInv, TypeOK', NEW t \in Hilos, Delete(t), ~Muere
  PROVE  ServidorInv'
<1> DEFINE f == hilo[t].dato
           d == Descripcion[f]
<1>1. CASE hilo[t].pc \in {"del_registro", "del_conexion", "del_existe"}
  <2>1. Aparte(t)
    BY <1>1, Codes, SigueType, ContestaType
    DEF Delete, Mira, En, HiloPCs, Aparte, Ocupado, ServidorInv
  <2>2. UNCHANGED <<conectados, publicaciones, enlazados, caido>>
    BY <1>1 DEF Delete, Mira, En, disco
  <2> QED
    BY <2>1, <2>2, LookKeeps
<1>2. CASE hilo[t].pc = "del_borra"
  <2>1. /\ publicaciones' = [r \in Rutas |->
                               IF r = f THEN Ausente ELSE publicaciones[r]]
        /\ enlazados' = enlazados \ Publicando(f)
        /\ Sigue(t, "del_desc")
        /\ UNCHANGED <<conectados, caido>>
    BY <1>2 DEF Delete, Mira, En
  <2>2. Aparte(t)
    BY <1>2, <2>1, SigueType DEF Aparte, Ocupado, ServidorInv, HiloPCs
  <2>3. /\ \A v : Conectando(v) \cap Publicando(f) = {}
        /\ \A r : r # f => Publicando(r) \cap Publicando(f) = {}
    BY DEF Conectando, Publicando
  <2>4. ConectaBien'
    BY <2>2 DEF ServidorInv, ConectaBien, Aparte, Ocupado
  <2>5. EmptyHasWriter'
    <3>1. ASSUME ~caido, NEW r \in Rutas, publicaciones'[r] = Vacio
          PROVE  (Publicando(r) \cap enlazados') \cup Limpiando(r) # {}
      <4>1. r # f /\ publicaciones[r] = Vacio
        BY <2>1, <3>1, ContentsDiffer
      <4> QED
        BY <2>1, <2>3, <3>1, <4>1 DEF ServidorInv, EmptyHasWriter
    <3> QED
      BY <2>1, <2>2, <2>3, <3>1, AparteKeepsSets
      DEF ServidorInv, EmptyHasWriter
  <2>6. DescriptionsSwept'
    BY <2>1, <2>2, AparteKeepsSets DEF ServidorInv, DescriptionsSwept
  <2> QED
    BY <2>4, <2>5, <2>6 DEF ServidorInv
<1>3. CASE hilo[t].pc = "del_desc"
  <2>1. /\ publicaciones' = [publicaciones EXCEPT ![d] = Abre(@)]
        /\ Sigue(t, "del_limpia")
        /\ UNCHANGED <<conectados, enlazados, caido>>
    BY <1>3 DEF Delete, Mira, En
  <2>2. /\ hilo'[t].pc = "del_limpia" /\ hilo'[t].dato = f
        /\ \A v \in Hilos \ {t} : hilo'[v] = hilo[v]
    BY <2>1, SigueType DEF ServidorInv, HiloPCs
  <2>3. ConectaBien'
    BY <2>2 DEF ServidorInv, ConectaBien
  <2>4. /\ t \in Limpiando(d)'
        /\ \A v : Conectando(v) \subseteq Conectando(v)'
        /\ \A r : Publicando(r) \subseteq Publicando(r)'
        /\ \A r : Limpiando(r) \subseteq Limpiando(r)'
    BY <1>3, <2>2 DEF Conectando, Publicando, Limpiando
  <2>5. \A r \in Rutas : r # d => publicaciones'[r] = publicaciones[r]
    BY <2>1 DEF ServidorInv, TypeOK
  <2>6. EmptyHasWriter'
    BY <2>1, <2>2, <2>4, <2>5 DEF ServidorInv, EmptyHasWriter
  <2>7. DescriptionsSwept'
    BY <2>1, <2>2, <2>4, <2>5 DEF ServidorInv, DescriptionsSwept
  <2> QED
    BY <2>3, <2>6, <2>7 DEF ServidorInv
<1>4. CASE hilo[t].pc = "del_limpia"
  <2>1. /\ publicaciones' = [publicaciones EXCEPT ![d] = Ausente]
        /\ enlazados' = enlazados \ Publicando(d)
        /\ Contesta(t, 0)
        /\ UNCHANGED <<conectados, caido>>
    BY <1>4 DEF Delete, Mira, En
  <2>2. hilo'[t].pc = "responde" /\ \A v \in Hilos \ {t} : hilo'[v] = hilo[v]
    BY <2>1, Codes, ContestaType DEF ServidorInv
  <2>3. ConectaBien'
    BY <2>2 DEF ServidorInv, ConectaBien
  <2>4. /\ \A v : Conectando(v)' = Conectando(v)
        /\ \A r : Publicando(r)' = Publicando(r)
        /\ \A r : r # d => Limpiando(r)' = Limpiando(r)
    BY <1>4, <2>2 DEF Conectando, Publicando, Limpiando
  <2>5. /\ \A v : Conectando(v) \cap Publicando(d) = {}
        /\ \A r : r # d => Publicando(r) \cap Publicando(d) = {}
    BY DEF Conectando, Publicando
  <2>6. \A r \in Rutas : publicaciones'[r] =
                           IF r = d THEN Ausente ELSE publicaciones[r]
    BY <2>1 DEF ServidorInv, TypeOK
  <2>7. EmptyHasWriter'
    <3>1. ASSUME ~caido, NEW r \in Rutas, publicaciones'[r] = Vacio
          PROVE  (Publicando(r)' \cap enlazados') \cup Limpiando(r)' # {}
      <4>1. r # d /\ publicaciones[r] = Vacio
        BY <2>6, <3>1, ContentsDiffer
      <4> QED
        BY <2>1, <2>4, <2>5, <3>1, <4>1 DEF ServidorInv, EmptyHasWriter
    <3> QED
      BY <2>1, <2>4, <2>5, <3>1 DEF ServidorInv, EmptyHasWriter
  <2>8. DescriptionsSwept'
    BY <2>1, <2>4, <2>6 DEF ServidorInv, DescriptionsSwept
  <2> QED
    BY <2>3, <2>7, <2>8 DEF ServidorInv
<1> QED
  BY <1>1, <1>2, <1>3, <1>4 DEF Delete, Mira, En

-----------------------------------------------------------------------------
LEMMA InitInv == Init => ServidorInv
<1> SUFFICES ASSUME Init PROVE ServidorInv
  OBVIOUS
<1>1. TypeOK
  BY ServidorAssumption, PilaNuevaType DEF Init, TypeOK
<1>2. \A t \in Hilos : hilo[t].pc = "libre"
  BY DEF Init, PilaNueva
<1>3. ConectaBien
  BY <1>2 DEF ConectaBien
<1>4. EmptyHasWriter /\ DescriptionsSwept
  BY ContentsDiffer DEF Init, EmptyHasWriter, DescriptionsSwept
<1> QED
  BY <1>1, <1>3, <1>4 DEF ServidorInv

\* Every step keeps the invariant: most are a step of one thread apart.
LEMMA StepInv == ServidorInv /\ [Next]_vars => ServidorInv'
<1> SUFFICES ASSUME ServidorInv, [Next]_vars PROVE ServidorInv'
  OBVIOUS
<1>1. TypeOK'
  BY TypeStep
<1>2. ASSUME NEW t \in Hilos, NEW p \in Peticiones, Recibe(t, p)
      PROVE  ServidorInv'
  <2>1. PICK d \in Ficheros \cup {Blanco, p.dato} :
          hilo' = [hilo EXCEPT ![t] =
            [pc |-> "rpc", ret |-> hilo[t].ret,
             op   |-> IF p.llega >= 1 THEN p.op ELSE hilo[t].op,
             user |-> IF p.llega >= 2 THEN p.user ELSE hilo[t].user,
             dato |-> d, llega |-> p.llega]]
    BY <1>2 DEF Recibe
  <2>2. Aparte(t)
    BY <1>2, <2>1 DEF Recibe, En, Aparte, Ocupado, ServidorInv, TypeOK
  <2> QED
    BY <1>1, <1>2, <2>2, LookKeeps DEF Recibe, disco
<1>3. ASSUME NEW t \in Hilos, Rpc(t) PROVE ServidorInv'
  <2>1. Comienzo[hilo[t].op] \in HiloPCs \ Ocupado
    BY <1>3 DEF Rpc, Comienzo, Operaciones, HiloPCs, Ocupado
  <2>2. Aparte(t)
    BY <1>3, <2>1, SigueType DEF Rpc, En, Aparte, Ocupado, ServidorInv
  <2> QED
    BY <1>1, <1>3, <2>2, LookKeeps DEF Rpc, disco
<1>4. ASSUME NEW t \in Hilos, Desconocida(t) PROVE ServidorInv'
  <2>1. Aparte(t)
    BY <1>4, Codes, ContestaType
    DEF Desconocida, En, Aparte, Ocupado, ServidorInv
  <2> QED
    BY <1>1, <1>4, <2>1, LookKeeps DEF Desconocida, disco
<1>5. ASSUME NEW t \in Hilos, Responde(t) PROVE ServidorInv'
  <2>1. Aparte(t)
    BY <1>5
    DEF Responde, En, Aparte, Ocupado, ServidorInv, TypeOK, PilaNueva
  <2> QED
    BY <1>1, <1>5, <2>1, LookKeeps DEF Responde, disco
<1>6. CASE Muere
  BY <1>1, <1>6, FallKeeps
<1>7. CASE Reinicia \/ UNCHANGED vars
  <2>1. UNCHANGED <<conectados, publicaciones, enlazados, hilo, caido>>
    BY <1>7 DEF Reinicia, vars, disco
  <2>2. ConectaBien'
    BY <2>1 DEF ServidorInv, ConectaBien
  <2>3. EmptyHasWriter' /\ DescriptionsSwept'
    BY <2>1 DEF ServidorInv, EmptyHasWriter, DescriptionsSwept, Conectando,
                Publicando, Limpiando
  <2> QED
    BY <1>1, <2>2, <2>3 DEF ServidorInv
<1>8. ASSUME NEW t \in Hilos, Trata(t), ~Muere PROVE ServidorInv'
  BY <1>1, <1>3, <1>4, <1>5, <1>8, RegisterKeeps, UnregisterKeeps,
     ConnectKeeps, DisconnectKeeps, PublishKeeps, DeleteKeeps
  DEF Trata
<1> QED
  BY <1>2, <1>6, <1>7, <1>8 DEF Next, Falla, Sigint

-----------------------------------------------------------------------------
\* The invariant holds in every reachable state, however requests overlap,
\* are cut short or are interrupted by a fall (servidor.c:73-552).
THEOREM ServidorCorrect == Spec => []ServidorInv
<1>1. Init => ServidorInv
  BY InitInv
<1>2. ServidorInv /\ [Next]_vars => ServidorInv'
  BY StepInv
<1> QED
  BY <1>1, <1>2, PTL DEF Spec

\* Tables, threads and answers keep their types: every answer is one of the
\* codes 0 to 3 of the protocol (servidor.c:73-552, 985-997).
THEOREM TypeCorrect == Spec => []TypeOK
<1>1. ServidorInv => TypeOK
  BY DEF ServidorInv
<1> QED
  BY <1>1, ServidorCorrect, PTL

\* An empty record has a thread that will write or remove it, as long as the
\* server has not fallen (servidor.c:268-272, 437-439, 530-538).
THEOREM EmptyIsPassing == Spec => []EmptyHasWriter
<1>1. ServidorInv => EmptyHasWriter
  BY DEF ServidorInv
<1> QED
  BY <1>1, ServidorCorrect, PTL

\* A description file has a thread that will remove it, as long as the server
\* has not fallen (servidor.c:530-538).
THEOREM DescriptionsPass == Spec => []DescriptionsSwept
<1>1. ServidorInv => DescriptionsSwept
  BY DEF ServidorInv
<1> QED
  BY <1>1, ServidorCorrect, PTL
=============================================================================
