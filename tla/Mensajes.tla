------------------------------ MODULE Mensajes ------------------------------
(***************************************************************************)
(* One direction of a connection: sendMessage at one end, readLine at the  *)
(* other (message.c), byte by byte.                                        *)
(*                                                                         *)
(* write() may take any part of what it is given, or fail; read() returns  *)
(* one byte, waits, fails, or finds the end.  An interrupted read() is     *)
(* tried again, which changes nothing, so it has no action.  The sendall   *)
(* of client.py is the same loop; its readLine has no limit, which is a    *)
(* buffer larger than any message, and does not return at the end.         *)
(***************************************************************************)
EXTENDS Lineas

CONSTANTS Bytes,
          Fin,     \* the bytes that end a line: NUL and newline
          NUL,
          Textos,  \* the messages, without their terminator
          N        \* the size of the reader's buffer

\* The programs' messages hold no terminator: a command is one line of input.
MensajesAssumption ==
  /\ Fin \subseteq Bytes /\ NUL \in Fin
  /\ Textos \subseteq Seq(Bytes \ Fin)
  /\ N \in Nat \ {0}

VARIABLES
  mensajes,  \* history: the messages handed to sendMessage so far
  flujo,     \* history: their bytes, one after the other
  inicio,    \* history: where each begins in flujo, and where the next will
  resto,     \* what sendMessage has still to write of the last one
  canal,     \* the bytes on their way
  abierto,   \* the sender has not closed its end
  leido,     \* history: how many bytes have been read
  buffer,    \* what readLine has stored of the present line
  lineas,    \* the lines that readLine has returned
  lector     \* "lee", or how the last readLine ended: "nada" (0), "error" (-1),
             \* "parte" (what was there of a line, as a line)

vars == <<mensajes, flujo, inicio, resto, canal, abierto, leido, buffer,
          lineas, lector>>

Init ==
  /\ mensajes = <<>> /\ flujo = <<>> /\ inicio = <<0>>
  /\ resto = <<>> /\ canal = <<>> /\ abierto = TRUE
  /\ leido = 0 /\ buffer = <<>> /\ lineas = <<>> /\ lector = "lee"

-----------------------------------------------------------------------------
\* sendMessage

Emisor == <<mensajes, flujo, inicio, resto, abierto>>
Receptor == <<leido, buffer, lineas, lector>>

\* It is called with a message and its NUL.
Manda(m) ==
  /\ abierto /\ resto = <<>>
  /\ mensajes' = Append(mensajes, m)
  /\ resto' = Append(m, NUL)
  /\ flujo' = flujo \o Append(m, NUL)
  /\ inicio' = Append(inicio, Len(flujo) + Len(m) + 1)
  /\ UNCHANGED <<canal, abierto, Receptor>>

\* write() takes r bytes.
Escribe(r) ==
  /\ abierto /\ resto # <<>>
  /\ canal' = canal \o SubSeq(resto, 1, r)
  /\ resto' = SubSeq(resto, r + 1, Len(resto))
  /\ UNCHANGED <<mensajes, flujo, inicio, abierto, Receptor>>

\* write() fails, or the sender closes or dies: nothing more is written.
Cierra ==
  /\ abierto
  /\ abierto' = FALSE
  /\ UNCHANGED <<mensajes, flujo, inicio, resto, canal, Receptor>>

-----------------------------------------------------------------------------
\* readLine

Avanza == canal' = Tail(canal) /\ leido' = leido + 1

\* The line ends.
Devuelve ==
  /\ lector = "lee" /\ canal # <<>> /\ canal[1] \in Fin
  /\ Avanza
  /\ lineas' = Append(lineas, buffer) /\ buffer' = <<>>
  /\ UNCHANGED <<Emisor, lector>>

\* A byte that the buffer has room for, and one that it has not.
Guarda ==
  /\ lector = "lee" /\ canal # <<>> /\ canal[1] \notin Fin
  /\ Avanza
  /\ buffer' = IF Len(buffer) < N - 1 THEN Append(buffer, canal[1]) ELSE buffer
  /\ UNCHANGED <<Emisor, lineas, lector>>

\* The end of the connection.  A line of which nothing was stored leaves the
\* caller's buffer as it was; of another the caller gets the part, as if it
\* were a line.
Final ==
  /\ lector = "lee" /\ canal = <<>> /\ ~abierto
  /\ \/ buffer = <<>> /\ lector' = "nada" /\ UNCHANGED lineas
     \/ /\ buffer # <<>> /\ lector' = "parte"
        /\ lineas' = Append(lineas, buffer)
  /\ buffer' = <<>>
  /\ UNCHANGED <<Emisor, canal, leido>>

Falla ==
  /\ lector = "lee"
  /\ lector' = "error"
  /\ UNCHANGED <<Emisor, canal, leido, buffer, lineas>>

Next ==
  \/ \E m \in Textos : Manda(m)
  \/ \E r \in 0..Len(resto) : Escribe(r)
  \/ Cierra \/ Devuelve \/ Guarda \/ Final \/ Falla

Spec == Init /\ [][Next]_vars

-----------------------------------------------------------------------------
(* Properties *)

MTypeOK ==
  /\ mensajes \in Seq(Textos) /\ flujo \in Seq(Bytes) /\ inicio \in Seq(Nat)
  /\ resto \in Seq(Bytes) /\ canal \in Seq(Bytes) /\ abierto \in BOOLEAN
  /\ leido \in Nat /\ buffer \in Seq(Bytes) /\ lineas \in Seq(Seq(Bytes))
  /\ lector \in {"lee", "nada", "error", "parte"}

\* However writes are cut, the bytes that have been read, those on their way
\* and those not written yet are those of the messages, in order.
CableIntacto ==
  /\ leido + Len(canal) + Len(resto) = Len(flujo)
  /\ \A i \in 1..Len(canal) : canal[i] = flujo[leido + i]
  /\ \A i \in 1..Len(resto) : resto[i] = flujo[leido + Len(canal) + i]

\* flujo is the messages one after the other, each with its NUL.
TramasSeguidas ==
  /\ Len(inicio) = Len(mensajes) + 1
  /\ inicio[1] = 0 /\ inicio[Len(inicio)] = Len(flujo)
  /\ \A k \in 1..Len(mensajes) :
       /\ inicio[k + 1] = inicio[k] + Len(mensajes[k]) + 1
       /\ \A j \in 1..Len(mensajes[k]) : flujo[inicio[k] + j] = mensajes[k][j]
       /\ flujo[inicio[k + 1]] = NUL
       /\ inicio[k + 1] <= Len(flujo)

\* The reader is within the message whose turn it is, and has stored the
\* beginning of it, unless the connection has ended there.
EnTurno ==
  LET k == Len(lineas) + 1 IN
  lector # "parte" =>
  /\ k <= Len(inicio)
  /\ leido >= inicio[k]
  /\ IF k = Len(inicio) THEN leido = inicio[k] /\ buffer = <<>>
     ELSE LET d == leido - inicio[k] IN
          /\ d <= Len(mensajes[k])
          /\ Len(buffer) = IF d < N THEN d ELSE N - 1
          /\ \A j \in 1..Len(buffer) : buffer[j] = mensajes[k][j]

\* Each line that readLine has returned is the message of its turn, cut to the
\* buffer (message.c:20-42): none is lost, joined with another or split.  Only
\* the last may be no more than the beginning of its message, when the
\* connection has ended there (message.c:27-31).
LineasFieles ==
  /\ Len(lineas) <= Len(mensajes)
  /\ \A i \in 1..Len(lineas) :
       \/ lineas[i] = Corta(mensajes[i], N)
       \/ /\ lector = "parte" /\ i = Len(lineas)
          /\ lineas[i] \in Partes(Corta(mensajes[i], N))

MInv == MTypeOK /\ CableIntacto /\ TramasSeguidas /\ EnTurno /\ LineasFieles

\* Together they implement the channel of messages.
B == INSTANCE Buzon WITH cortado <- (lector = "parte")
ImplementsBuzon == B!Spec
=============================================================================
