----------------------------- MODULE MCCliente ------------------------------
(* Two clients, one name, two ports; a queue holds two calls. *)
EXTENDS Cliente
=============================================================================
