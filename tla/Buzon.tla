-------------------------------- MODULE Buzon -------------------------------
(***************************************************************************)
(* What readLine and sendMessage promise together: the messages that one   *)
(* side sends are read by the other side in that order, each once, each    *)
(* cut to what the buffer holds.  The connection may end at any time: then *)
(* messages are missing at the end, and of the first of those the reader   *)
(* may have got the beginning, which it cannot tell from a message.        *)
(***************************************************************************)
EXTENDS Lineas

CONSTANTS Textos,  \* the messages, without their terminator
          N        \* the size of the reader's buffer

VARIABLES mensajes,  \* those that have been handed to sendMessage
          lineas,    \* those that readLine has returned
          cortado    \* the last of these is the beginning of a message

bvars == <<mensajes, lineas, cortado>>

Init == mensajes = <<>> /\ lineas = <<>> /\ cortado = FALSE

Manda(m) ==
  mensajes' = Append(mensajes, m) /\ UNCHANGED <<lineas, cortado>>

\* The message whose turn it is, as the reader's buffer takes it.
HayTurno == ~cortado /\ Len(lineas) < Len(mensajes)
Turno == Corta(mensajes[Len(lineas) + 1], N)

Entrega ==
  /\ HayTurno
  /\ lineas' = Append(lineas, Turno)
  /\ UNCHANGED <<mensajes, cortado>>

\* The connection ends within it.
Corte ==
  /\ HayTurno
  /\ \E s \in Partes(Turno) : lineas' = Append(lineas, s)
  /\ cortado' = TRUE
  /\ UNCHANGED mensajes

Next == Entrega \/ Corte \/ \E m \in Textos : Manda(m)

Spec == Init /\ [][Next]_bvars
=============================================================================
