----------------------------- MODULE MCMensajes -----------------------------
(* Messages of up to three bytes, a buffer of three, two messages at most. *)
EXTENDS Mensajes
CONSTANTS a, b, nl, Muchos
MCTextos == UNION {[1..n -> {a, b}] : n \in 0..3}
Pocos == Len(mensajes) <= Muchos
=============================================================================
