----------------------------- MODULE Directorio -----------------------------
(***************************************************************************)
(* What the server promises its clients, as if each request were served    *)
(* in one step: who is registered, who is connected and on which port,     *)
(* who published what, and the code each request is answered with.         *)
(* The server may fall at any time: requests in progress are then not      *)
(* answered, and the record one of them was writing may be lost, but       *)
(* nothing else is.                                                        *)
(***************************************************************************)
EXTENDS Naturals

CONSTANTS Hilos, Usuarios, Ficheros, Peticiones,
          Nada,     \* no connection, no publication, no request
          Perdido   \* the record of a request that the fall cut short

VARIABLES
  registrados,  \* the users that are registered
  conectado,    \* per user, the port of its connection
  publicado,    \* per name, the user who published it
  peticion,     \* per thread, the request in progress
  codigo        \* per thread, the answer, once the request is served

vars == <<registrados, conectado, publicado, peticion, codigo>>

Pendiente == 9  \* in codigo: no code of the protocol yet

Init ==
  /\ registrados = {}
  /\ conectado = [u \in Usuarios |-> Nada]
  /\ publicado = [f \in Ficheros |-> Nada]
  /\ peticion = [t \in Hilos |-> Nada]
  /\ codigo = [t \in Hilos |-> Pendiente]

Pide(t, p) ==
  /\ peticion[t] = Nada
  /\ peticion' = [peticion EXCEPT ![t] = p]
  /\ UNCHANGED <<registrados, conectado, publicado, codigo>>

\* The code that a request deserves in the present state.
Codigo(p) ==
  LET registrado == p.user \in registrados
      enLinea    == conectado[p.user] # Nada IN
  CASE p.op = "REGISTER"   -> IF registrado THEN 1 ELSE 0
    [] p.op = "UNREGISTER" -> IF registrado THEN 0 ELSE 1
    [] OTHER -> IF ~registrado THEN 1
                ELSE IF enLinea = (p.op = "CONNECT") THEN 2
                ELSE CASE p.op = "PUBLISH" ->
                            IF publicado[p.dato] = Nada THEN 0 ELSE 3
                       [] p.op = "DELETE" ->
                            IF publicado[p.dato] = Nada THEN 3 ELSE 0
                       [] OTHER -> 0

\* What a successful request does.
Efecto(p) ==
  /\ registrados' =
       CASE p.op = "REGISTER"   -> registrados \cup {p.user}
         [] p.op = "UNREGISTER" -> registrados \ {p.user}
         [] OTHER               -> registrados
  /\ conectado' =
       CASE p.op = "CONNECT"    -> [conectado EXCEPT ![p.user] = p.dato]
         [] p.op = "DISCONNECT" -> [conectado EXCEPT ![p.user] = Nada]
         [] OTHER               -> conectado
  /\ publicado' =
       CASE p.op = "PUBLISH" -> [publicado EXCEPT ![p.dato] = p.user]
         [] p.op = "DELETE"  -> [publicado EXCEPT ![p.dato] = Nada]
         [] OTHER            -> publicado

Sirve(t) ==
  LET p == peticion[t] IN
  /\ p # Nada /\ codigo[t] = Pendiente
  /\ codigo' = [codigo EXCEPT ![t] = Codigo(p)]
  /\ IF Codigo(p) = 0 THEN Efecto(p)
     ELSE UNCHANGED <<registrados, conectado, publicado>>
  /\ UNCHANGED peticion

Contesta(t) ==
  /\ codigo[t] # Pendiente
  /\ peticion' = [peticion EXCEPT ![t] = Nada]
  /\ codigo' = [codigo EXCEPT ![t] = Pendiente]
  /\ UNCHANGED <<registrados, conectado, publicado>>

\* Served but not answered: its record may not have reached the disk.
Servida(t, op) ==
  peticion[t] # Nada /\ peticion[t].op = op /\ codigo[t] = 0

Cae ==
  /\ \E P \in SUBSET Hilos :
       /\ conectado' = [u \in Usuarios |->
            IF \E t \in P : Servida(t, "CONNECT") /\ peticion[t].user = u
            THEN Perdido ELSE conectado[u]]
       /\ publicado' = [f \in Ficheros |->
            IF \E t \in P : Servida(t, "PUBLISH") /\ peticion[t].dato = f
            THEN Perdido ELSE publicado[f]]
  /\ peticion' = [t \in Hilos |-> Nada]
  /\ codigo' = [t \in Hilos |-> Pendiente]
  /\ UNCHANGED registrados

Next ==
  \/ \E t \in Hilos, p \in Peticiones : Pide(t, p)
  \/ \E t \in Hilos : Sirve(t) \/ Contesta(t)
  \/ Cae

Spec == Init /\ [][Next]_vars
=============================================================================
