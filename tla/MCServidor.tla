----------------------------- MODULE MCServidor -----------------------------
(***************************************************************************)
(* Servidor on small instances: two threads, and requests for two users    *)
(* and one published name.  Two ports make a record that replaces another  *)
(* visible.                                                                *)
(***************************************************************************)
EXTENDS Servidor, TLC

CONSTANTS h1, h2, ana, eva, p1, p2, foto, fotoDesc, soloDesc

MCHilos == {h1, h2}
MCUsuarios == {ana, eva}
MCUno == {ana}
MCPuertos == {p1, p2}
MCFicheros == {foto}
MCDescripcion == foto :> fotoDesc @@ Blanco :> soloDesc
MCCarpetas == {"registrados", "conectados", "publicaciones"}

Pet(ops, us, ds) == [op : ops, user : us, dato : ds, llega : {3}]

\* Every request that names a user and a file.
Completas ==
  Pet({"REGISTER", "UNREGISTER", "DISCONNECT"}, Usuarios, {Blanco})
    \cup Pet({"CONNECT"}, Usuarios, Puertos)
    \cup Pet({"PUBLISH", "DELETE"}, Usuarios, Ficheros)

\* The same for one user, who now may be in several requests at once, and the
\* empty name; and connections that end before anything is sent.
DeUno ==
  Pet({"REGISTER"}, {ana}, {Blanco})
    \cup Pet({"UNREGISTER", "DISCONNECT"}, {ana, Blanco}, {Blanco})
    \cup Pet({"CONNECT"}, {ana}, Puertos)
    \cup Pet({"PUBLISH"}, {ana}, Ficheros)
    \cup Pet({"DELETE"}, {ana}, Ficheros \cup {Blanco})
    \cup [op : {"REGISTER"}, user : {ana}, dato : {Blanco}, llega : {0}]

\* Two requests for one user that are sent whole, and one that is cut short
\* after the operation.
Cortadas ==
  Pet({"REGISTER", "CONNECT"}, {ana}, {Blanco})
    \cup [op : {"UNREGISTER"}, user : {eva}, dato : {Blanco}, llega : {1}]

SimetriaDeUno == Permutations(MCHilos) \cup Permutations(MCPuertos)
Simetria == SimetriaDeUno \cup Permutations(MCUsuarios)
=============================================================================
