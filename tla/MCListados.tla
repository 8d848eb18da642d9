----------------------------- MODULE MCListados -----------------------------
(***************************************************************************)
(* Listados on small instances: one thread that changes the tables, one    *)
(* that reads them, two users, one published name.  Deleting the empty     *)
(* name may remove the directory of publications.                          *)
(***************************************************************************)
EXTENDS Listados, TLC

CONSTANTS h1, l1, ana, eva, p1, p2, foto, fotoDesc, soloDesc

MCHilos == {h1}
MCLectores == {l1}
MCUsuarios == {ana, eva}
MCPuertos == {p1, p2}
MCFicheros == {foto}
MCDescripcion == foto :> fotoDesc @@ Blanco :> soloDesc
MCCarpetas == {"registrados", "conectados", "publicaciones"}

Pet(ops, us, ds) == [op : ops, user : us, dato : ds, llega : {3}]

\* What changes the tables: ana connects and disconnects, and deletes what
\* both publish; eva connects for good.  Each has a port of her own.
Cambios ==
  Pet({"REGISTER"}, Usuarios, {Blanco})
    \cup Pet({"DISCONNECT"}, {ana}, {Blanco})
    \cup Pet({"CONNECT"}, {ana}, {p1}) \cup Pet({"CONNECT"}, {eva}, {p2})
    \cup Pet({"PUBLISH"}, Usuarios, Ficheros)
    \cup Pet({"DELETE"}, {ana}, Ficheros \cup {Blanco})
Conexiones ==
  Pet({"REGISTER"}, Usuarios, {Blanco}) \cup Pet({"CONNECT"}, Usuarios, Puertos)

\* What reads them.
Lecturas ==
  [op : {"LIST_USERS"}, user : {ana}, dato : {Blanco}]
    \cup [op : {"LIST_CONTENT"}, user : {ana}, dato : {eva}]
    \cup [op : {"GET_FILE"}, user : {eva}, dato : Ficheros]
Contenidos == [op : {"LIST_CONTENT"}, user : {ana}, dato : {ana}]
Usuarias == [op : {"LIST_USERS"}, user : {ana}, dato : {Blanco}]
=============================================================================
