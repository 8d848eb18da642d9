----------------------------- MODULE MCSistema ------------------------------
(* Two clients, and two names that differ beyond the part that the server's  *)
(* readLine keeps, in a buffer of two bytes: they are the same user to it.   *)
EXTENDS Sistema, Lineas, TLC
CONSTANTS n1, n2
Escrito == (n1 :> <<"a", "b">>) @@ (n2 :> <<"a", "c">>)
MCNombres == {n1, n2}
MCLeido == [n \in Nombres |-> Corta(Escrito[n], 2)]
MCUsuarios == {MCLeido[n] : n \in Nombres}
\* The user here is one: once it is in dudosos, which never shrinks, no property
\* asks anything more.
SinDudas == dudosos = {}
Iguales ==
  Permutations(Hilos) \cup Permutations(Clientes) \cup Permutations(Puertos)
    \cup Permutations(Nombres)
=============================================================================
