--------------------------- MODULE MensajesProofs ---------------------------
(***************************************************************************)
(* For every alphabet, every set of messages and every size of the buffer, *)
(* readLine and sendMessage keep the messages apart, and implement Buzon.  *)
(***************************************************************************)
EXTENDS Mensajes, TLAPS

\* What readLine keeps of a message: its first bytes, at most N - 1.
LEMMA CortaProperties ==
  ASSUME NEW S, NEW m \in Seq(S), NEW n \in Nat \ {0}
  PROVE  /\ Corta(m, n) \in Seq(S)
         /\ Len(Corta(m, n)) = IF Len(m) < n THEN Len(m) ELSE n - 1
         /\ \A j \in 1..Len(Corta(m, n)) : Corta(m, n)[j] = m[j]
  BY DEF Corta

\* Two sequences of the same length and elements are equal.
LEMMA SeqIgual ==
  ASSUME NEW S, NEW s \in Seq(S), NEW t \in Seq(S), Len(s) = Len(t),
         \A j \in 1..Len(s) : s[j] = t[j]
  PROVE  s = t
  OBVIOUS

\* The starts of the messages are numbers.
LEMMA InicioNat ==
  ASSUME MInv, NEW k \in 1..Len(inicio)
  PROVE  inicio[k] \in Nat
<1>1. inicio \in Seq(Nat)
  BY DEF MInv, MTypeOK
<1>. QED BY <1>1

\* There is a message whose turn it is, or the reader has read them all.
LEMMA TurnoEnInicio ==
  ASSUME MInv, lector # "parte"
  PROVE  Len(lineas) + 1 \in 1..Len(inicio)
<1>1. Len(lineas) \in Nat /\ Len(inicio) \in Nat
  BY DEF MInv, MTypeOK
<1>2. Len(lineas) + 1 <= Len(inicio)
  BY DEF MInv, EnTurno
<1>. QED BY <1>1, <1>2

LEMMA InitMInv == ASSUME MensajesAssumption, Init PROVE MInv
  BY DEF MensajesAssumption, Init, MInv, MTypeOK, CableIntacto,
         TramasSeguidas, EnTurno, LineasFieles

\* What appending to a sequence does to its elements.
LEMMA AppendPuntos ==
  ASSUME NEW S, NEW s \in Seq(S), NEW e \in S
  PROVE  /\ Append(s, e) \in Seq(S)
         /\ Len(Append(s, e)) = Len(s) + 1
         /\ \A i \in 1..Len(s) : Append(s, e)[i] = s[i]
         /\ Append(s, e)[Len(s) + 1] = e
  OBVIOUS

\* Likewise for concatenation.
LEMMA ConcatPuntos ==
  ASSUME NEW S, NEW s \in Seq(S), NEW t \in Seq(S)
  PROVE  /\ s \o t \in Seq(S)
         /\ Len(s \o t) = Len(s) + Len(t)
         /\ \A i \in 1..Len(s) : (s \o t)[i] = s[i]
         /\ \A j \in 1..Len(t) : (s \o t)[Len(s) + j] = t[j]
  OBVIOUS

\* A new message goes behind the others.
LEMMA MandaKeeps ==
  ASSUME MensajesAssumption, MInv, NEW m \in Textos, Manda(m)
  PROVE  MInv'
<1>1. m \in Seq(Bytes) /\ NUL \in Bytes /\ Append(m, NUL) \in Seq(Bytes)
  BY DEF MensajesAssumption
<1>2. MTypeOK'
  BY <1>1 DEF MInv, MTypeOK, Manda, Receptor
<1>3. /\ Len(resto') = Len(m) + 1
      /\ \A j \in 1..Len(m) : resto'[j] = m[j]
      /\ resto'[Len(m) + 1] = NUL
  BY <1>1, AppendPuntos DEF Manda
<1>4. /\ Len(flujo') = Len(flujo) + Len(m) + 1
      /\ \A i \in 1..Len(flujo) : flujo'[i] = flujo[i]
      /\ \A j \in 1..(Len(m) + 1) : flujo'[Len(flujo) + j] = resto'[j]
  <2>1. flujo \in Seq(Bytes) /\ resto' \in Seq(Bytes) /\ flujo' = flujo \o resto'
    BY <1>1 DEF MInv, MTypeOK, Manda
  <2>2. /\ Len(flujo') = Len(flujo) + Len(resto')
        /\ \A i \in 1..Len(flujo) : flujo'[i] = flujo[i]
        /\ \A j \in 1..Len(resto') : flujo'[Len(flujo) + j] = resto'[j]
    <3>. QED BY <2>1, ConcatPuntos
  <2>3. Len(flujo) \in Nat /\ Len(m) \in Nat
    BY <1>1, <2>1
  <2>4. Len(flujo') = Len(flujo) + (Len(m) + 1)
    BY <2>2, <1>3
  <2>. QED BY <2>2, <2>3, <2>4, <1>3
<1>5. /\ Len(mensajes') = Len(mensajes) + 1
      /\ \A k \in 1..Len(mensajes) : mensajes'[k] = mensajes[k]
      /\ mensajes'[Len(mensajes) + 1] = m
  BY AppendPuntos DEF MInv, MTypeOK, Manda
<1>6. /\ Len(inicio') = Len(inicio) + 1
      /\ \A k \in 1..Len(inicio) : inicio'[k] = inicio[k]
      /\ inicio'[Len(inicio) + 1] = Len(flujo')
  BY <1>1, <1>4, AppendPuntos DEF MInv, MTypeOK, Manda
<1>7. /\ canal' = canal /\ leido' = leido /\ buffer' = buffer /\ lineas' = lineas
      /\ resto = <<>> /\ Len(resto) = 0
  BY DEF Manda, Receptor
<1>8. Len(flujo) \in Nat /\ Len(m) \in Nat /\ Len(canal) \in Nat /\ leido \in Nat
      /\ Len(mensajes) \in Nat /\ Len(inicio) \in Nat
  BY <1>1 DEF MInv, MTypeOK
<1>9. CableIntacto'
  <2>1. leido' + Len(canal') + Len(resto') = Len(flujo')
    <3>1. leido + Len(canal) = Len(flujo)
      BY <1>7, <1>8 DEF MInv, CableIntacto
    <3>2. leido' = leido /\ Len(canal') = Len(canal)
      BY <1>7
    <3>3. Len(resto') = Len(m) + 1 /\ Len(flujo') = Len(flujo) + Len(m) + 1
      BY <1>3, <1>4
    <3>. QED BY <3>1, <3>2, <3>3, <1>8
  <2>2. ASSUME NEW i \in 1..Len(canal') PROVE canal'[i] = flujo'[leido' + i]
    <3>1. i \in 1..Len(canal) /\ leido + i \in 1..Len(flujo)
      BY <1>7, <1>8 DEF MInv, CableIntacto
    <3>. QED BY <3>1, <1>4, <1>7 DEF MInv, CableIntacto
  <2>3. ASSUME NEW i \in 1..Len(resto')
        PROVE  resto'[i] = flujo'[leido' + Len(canal') + i]
    <3>1. leido + Len(canal) = Len(flujo) /\ i \in 1..(Len(m) + 1)
      BY <1>3, <1>7, <1>8 DEF MInv, CableIntacto
    <3>. QED BY <3>1, <1>4, <1>7
  <2>. QED BY <2>1, <2>2, <2>3 DEF CableIntacto
<1>10. TramasSeguidas'
  <2>1. Len(inicio') = Len(mensajes') + 1
    BY <1>5, <1>6, <1>8 DEF MInv, TramasSeguidas
  <2>2. inicio'[1] = 0 /\ inicio'[Len(inicio')] = Len(flujo')
    BY <1>6, <1>8 DEF MInv, TramasSeguidas
  <2>3. ASSUME NEW k \in 1..Len(mensajes')
        PROVE  /\ inicio'[k + 1] = inicio'[k] + Len(mensajes'[k]) + 1
               /\ \A j \in 1..Len(mensajes'[k]) :
                    flujo'[inicio'[k] + j] = mensajes'[k][j]
               /\ flujo'[inicio'[k + 1]] = NUL
               /\ inicio'[k + 1] <= Len(flujo')
    <3>1. CASE k \in 1..Len(mensajes)
      <4>1. /\ mensajes'[k] = mensajes[k] /\ inicio'[k] = inicio[k]
            /\ inicio'[k + 1] = inicio[k + 1]
            /\ inicio[k] \in Nat /\ inicio[k + 1] \in Nat
            /\ Len(mensajes[k]) \in Nat
        <5>1. k \in 1..Len(inicio) /\ k + 1 \in 1..Len(inicio)
          BY <3>1, <1>8 DEF MInv, TramasSeguidas
        <5>2. mensajes[k] \in Textos /\ Textos \subseteq Seq(Bytes \ Fin)
          BY <3>1 DEF MInv, MTypeOK, MensajesAssumption
        <5>3. Len(mensajes[k]) \in Nat
          BY <5>2
        <5>4. inicio[k] \in Nat /\ inicio[k + 1] \in Nat
          BY <5>1, InicioNat
        <5>5. inicio'[k] = inicio[k] /\ inicio'[k + 1] = inicio[k + 1]
          BY <5>1, <1>6
        <5>. QED BY <3>1, <5>3, <5>4, <5>5, <1>5
      <4>2. /\ inicio[k + 1] = inicio[k] + Len(mensajes[k]) + 1
            /\ inicio[k + 1] \in 1..Len(flujo)
            /\ \A j \in 1..Len(mensajes[k]) : inicio[k] + j \in 1..Len(flujo)
        <5>1. /\ inicio[k + 1] = inicio[k] + Len(mensajes[k]) + 1
              /\ inicio[k + 1] <= Len(flujo)
          BY <3>1 DEF MInv, TramasSeguidas
        <5>2. /\ inicio[k] \in Nat /\ inicio[k + 1] \in Nat
              /\ Len(mensajes[k]) \in Nat /\ Len(flujo) \in Nat
          BY <4>1, <1>8
        <5>3. inicio[k + 1] \in 1..Len(flujo)
          BY <5>1, <5>2
        <5>4. ASSUME NEW j \in 1..Len(mensajes[k])
              PROVE  inicio[k] + j \in 1..Len(flujo)
          <6>1. j \in Nat /\ 1 <= j /\ j <= Len(mensajes[k])
            BY <5>2
          <6>. QED BY <6>1, <5>1, <5>2
        <5>. QED BY <5>1, <5>3, <5>4
      <4>3. /\ \A j \in 1..Len(mensajes[k]) : flujo[inicio[k] + j] = mensajes[k][j]
            /\ flujo[inicio[k + 1]] = NUL
        BY <3>1 DEF MInv, TramasSeguidas
      <4>4. \A j \in 1..Len(mensajes[k]) : flujo'[inicio[k] + j] = mensajes[k][j]
        BY <4>2, <4>3, <1>4
      <4>5. flujo'[inicio[k + 1]] = NUL /\ inicio[k + 1] <= Len(flujo')
        BY <4>2, <4>3, <1>4, <1>8
      <4>. QED BY <4>1, <4>2, <4>4, <4>5
    <3>2. CASE k = Len(mensajes) + 1
      <4>1. k = Len(inicio) /\ inicio'[k] = Len(flujo) /\ inicio'[k + 1] = Len(flujo')
            /\ mensajes'[k] = m
        BY <3>2, <1>5, <1>6, <1>8 DEF MInv, TramasSeguidas
      <4>. QED BY <4>1, <1>3, <1>4, <1>8
    <3>. QED BY <3>1, <3>2, <1>5, <1>8
  <2>. QED BY <2>1, <2>2, <2>3 DEF TramasSeguidas
<1>11. EnTurno'
  <2> DEFINE k == Len(lineas) + 1
  <2> SUFFICES ASSUME lector # "parte" PROVE EnTurno'
    BY DEF EnTurno, Manda, Receptor
  <2>1. k \in 1..Len(inicio) /\ inicio[k] \in Nat /\ inicio'[k] = inicio[k]
    <3>1. k \in 1..Len(inicio)
      BY TurnoEnInicio
    <3>2. inicio[k] \in Nat
      BY <3>1, InicioNat
    <3>. QED BY <3>1, <3>2, <1>6
  <2>2. CASE k = Len(inicio)
    <3>1. leido = inicio[k] /\ buffer = <<>>
      BY <2>2 DEF MInv, EnTurno
    <3>2. k = Len(mensajes) + 1
      BY <2>2 DEF MInv, TramasSeguidas
    <3>3. mensajes'[k] = m
      BY <3>2, <1>5
    <3>4. /\ k <= Len(inicio') /\ k # Len(inicio') /\ leido' = inicio'[k]
          /\ buffer' = <<>> /\ lineas' = lineas
      BY <2>1, <2>2, <3>1, <1>6, <1>7, <1>8
    <3>5. leido' - inicio'[k] = 0 /\ leido' >= inicio'[k] /\ 0 <= Len(mensajes'[k])
      BY <2>1, <3>3, <3>4, <1>8
    <3>6. Len(buffer') = 0 /\ 0 < N
      BY <3>4 DEF MensajesAssumption
    <3>. QED BY <3>4, <3>5, <3>6 DEF EnTurno
  <2>3. CASE k # Len(inicio)
    <3>1. k \in 1..Len(mensajes) /\ mensajes'[k] = mensajes[k]
      BY <2>1, <2>3, <1>5, <1>8 DEF MInv, TramasSeguidas
    <3>2. k <= Len(inicio') /\ k # Len(inicio')
      BY <2>1, <2>3, <1>6, <1>8
    <3>3. /\ leido >= inicio[k] /\ leido - inicio[k] <= Len(mensajes[k])
          /\ Len(buffer) = IF leido - inicio[k] < N THEN leido - inicio[k]
                           ELSE N - 1
          /\ \A j \in 1..Len(buffer) : buffer[j] = mensajes[k][j]
      BY <2>3 DEF MInv, EnTurno
    <3>. QED BY <2>1, <3>1, <3>2, <3>3, <1>7 DEF EnTurno
  <2>. QED BY <2>2, <2>3
<1>12. LineasFieles'
  BY <1>1 DEF MInv, MTypeOK, LineasFieles, Manda, Receptor
<1>. QED BY <1>2, <1>9, <1>10, <1>11, <1>12 DEF MInv

\* write() moves bytes from what is left to the wire, in order.
LEMMA EscribeKeeps ==
  ASSUME MensajesAssumption, MInv, NEW r \in 0..Len(resto), Escribe(r)
  PROVE  MInv'
<1>1. resto \in Seq(Bytes) /\ canal \in Seq(Bytes) /\ Len(resto) \in Nat
      /\ Len(canal) \in Nat /\ leido \in Nat /\ Len(flujo) \in Nat
  BY DEF MInv, MTypeOK
<1>2. /\ SubSeq(resto, 1, r) \in Seq(Bytes) /\ Len(SubSeq(resto, 1, r)) = r
      /\ \A i \in 1..r : SubSeq(resto, 1, r)[i] = resto[i]
  BY <1>1
<1>3. /\ resto' \in Seq(Bytes) /\ Len(resto') = Len(resto) - r
      /\ \A i \in 1..(Len(resto) - r) : resto'[i] = resto[r + i]
  BY <1>1 DEF Escribe
<1>4. /\ canal' \in Seq(Bytes) /\ Len(canal') = Len(canal) + r
      /\ \A i \in 1..Len(canal) : canal'[i] = canal[i]
      /\ \A i \in 1..r : canal'[Len(canal) + i] = resto[i]
  <2>1. /\ canal' \in Seq(Bytes)
        /\ Len(canal') = Len(canal) + Len(SubSeq(resto, 1, r))
        /\ \A i \in 1..Len(canal) : canal'[i] = canal[i]
        /\ \A i \in 1..Len(SubSeq(resto, 1, r)) :
             canal'[Len(canal) + i] = SubSeq(resto, 1, r)[i]
    BY <1>1, <1>2, ConcatPuntos DEF Escribe
  <2>. QED BY <2>1, <1>2
<1>5. UNCHANGED <<mensajes, flujo, inicio, abierto, leido, buffer, lineas, lector>>
  BY DEF Escribe, Receptor
<1>6. MTypeOK'
  BY <1>3, <1>4, <1>5 DEF MInv, MTypeOK
<1>7. CableIntacto'
  <2>1. leido' + Len(canal') + Len(resto') = Len(flujo')
    <3>1. leido + Len(canal) + Len(resto) = Len(flujo)
      BY DEF MInv, CableIntacto
    <3>2. /\ leido' = leido /\ Len(flujo') = Len(flujo)
          /\ Len(canal') = Len(canal) + r /\ Len(resto') = Len(resto) - r
      BY <1>3, <1>4, <1>5
    <3>. QED BY <3>1, <3>2, <1>1
  <2>2. ASSUME NEW i \in 1..Len(canal') PROVE canal'[i] = flujo'[leido' + i]
    <3>1. CASE i <= Len(canal)
      BY <3>1, <1>1, <1>4, <1>5 DEF MInv, CableIntacto
    <3>2. CASE i > Len(canal)
      <4>1. PICK j \in 1..r : i = Len(canal) + j
        <5>1. i - Len(canal) \in 1..r /\ i = Len(canal) + (i - Len(canal))
          BY <3>2, <1>1, <1>4
        <5>. QED BY <5>1
      <4>2. j \in 1..Len(resto) /\ leido + i = leido + Len(canal) + j
        BY <4>1, <1>1
      <4>. QED BY <4>1, <4>2, <1>4, <1>5 DEF MInv, CableIntacto
    <3>. QED BY <3>1, <3>2, <1>1, <1>4
  <2>3. ASSUME NEW i \in 1..Len(resto')
        PROVE  resto'[i] = flujo'[leido' + Len(canal') + i]
    <3>1. r + i \in 1..Len(resto) /\ i \in 1..(Len(resto) - r)
          /\ leido + Len(canal) + (r + i) = leido' + Len(canal') + i
      BY <1>1, <1>3, <1>4, <1>5
    <3>. QED BY <3>1, <1>3, <1>5 DEF MInv, CableIntacto
  <2>. QED BY <2>1, <2>2, <2>3 DEF CableIntacto
<1>8. TramasSeguidas' /\ EnTurno' /\ LineasFieles'
  BY <1>5 DEF MInv, TramasSeguidas, EnTurno, LineasFieles
<1>. QED BY <1>6, <1>7, <1>8 DEF MInv

\* Where the reader is when it reads a byte: in the message of its turn, at a
\* byte of it, or at its NUL.
LEMMA ByteEnTurno ==
  ASSUME MensajesAssumption, MInv, lector = "lee", canal # <<>>
  PROVE  LET k == Len(lineas) + 1
             d == leido - inicio[k] IN
         /\ k \in 1..Len(mensajes) /\ inicio[k] \in Nat /\ d \in Nat
         /\ mensajes[k] \in Seq(Bytes \ Fin) /\ Len(mensajes[k]) \in Nat
         /\ inicio[k + 1] = inicio[k] + Len(mensajes[k]) + 1
         /\ \/ d < Len(mensajes[k]) /\ canal[1] = mensajes[k][d + 1]
               /\ canal[1] \in Bytes \ Fin
            \/ d = Len(mensajes[k]) /\ canal[1] \in Fin
         /\ Len(buffer) = IF d < N THEN d ELSE N - 1
         /\ \A j \in 1..Len(buffer) : buffer[j] = mensajes[k][j]
<1> DEFINE k == Len(lineas) + 1
           d == leido - inicio[k]
<1>1. /\ Len(canal) \in Nat \ {0} /\ Len(resto) \in Nat /\ Len(flujo) \in Nat
      /\ leido \in Nat /\ Len(lineas) \in Nat /\ Len(mensajes) \in Nat
      /\ Len(inicio) = Len(mensajes) + 1
  BY DEF MInv, MTypeOK, TramasSeguidas
<1>2. leido < Len(flujo) /\ canal[1] = flujo[leido + 1]
  BY <1>1 DEF MInv, CableIntacto
<1>3. k \in 1..Len(inicio) /\ inicio[k] \in Nat
  <2>1. k \in 1..Len(inicio)
    BY TurnoEnInicio
  <2>. QED BY <2>1, InicioNat
<1>4. k # Len(inicio)
  BY <1>1, <1>2, <1>3 DEF MInv, EnTurno, TramasSeguidas
<1>5. k \in 1..Len(mensajes)
  BY <1>1, <1>3, <1>4
<1>6. mensajes[k] \in Seq(Bytes \ Fin) /\ Len(mensajes[k]) \in Nat
  <2>1. mensajes[k] \in Textos
    BY <1>5 DEF MInv, MTypeOK
  <2>. QED BY <2>1 DEF MensajesAssumption
<1>7. /\ d \in Nat /\ d <= Len(mensajes[k])
      /\ Len(buffer) = IF d < N THEN d ELSE N - 1
      /\ \A j \in 1..Len(buffer) : buffer[j] = mensajes[k][j]
  <2>1. /\ leido >= inicio[k] /\ d <= Len(mensajes[k])
        /\ Len(buffer) = IF d < N THEN d ELSE N - 1
        /\ \A j \in 1..Len(buffer) : buffer[j] = mensajes[k][j]
    BY <1>4 DEF MInv, EnTurno
  <2>. QED BY <2>1, <1>1, <1>3
<1>8. /\ inicio[k + 1] = inicio[k] + Len(mensajes[k]) + 1
      /\ \A j \in 1..Len(mensajes[k]) : flujo[inicio[k] + j] = mensajes[k][j]
      /\ flujo[inicio[k + 1]] = NUL
  BY <1>5 DEF MInv, TramasSeguidas
<1>9. CASE d < Len(mensajes[k])
  <2>1. d + 1 \in 1..Len(mensajes[k]) /\ inicio[k] + (d + 1) = leido + 1
    <3>1. d + 1 \in Nat /\ 1 <= d + 1 /\ d + 1 <= Len(mensajes[k])
      BY <1>9, <1>6, <1>7
    <3>2. inicio[k] + (d + 1) = leido + 1
      BY <1>1, <1>3
    <3>. QED BY <3>1, <3>2, <1>6
  <2>2. canal[1] = mensajes[k][d + 1]
    BY <2>1, <1>2, <1>8
  <2>3. mensajes[k][d + 1] \in Bytes \ Fin
    BY <2>1, <1>6
  <2>. QED BY <1>9, <2>2, <2>3, <1>3, <1>5, <1>6, <1>7, <1>8
<1>10. CASE d = Len(mensajes[k])
  <2>1. inicio[k + 1] = leido + 1
    BY <1>10, <1>1, <1>3, <1>6, <1>8
  <2>2. canal[1] \in Fin
    BY <2>1, <1>2, <1>8 DEF MensajesAssumption
  <2>. QED BY <1>10, <2>2, <1>3, <1>5, <1>6, <1>7, <1>8
<1>. QED BY <1>6, <1>7, <1>9, <1>10

\* Reading a byte moves the border between what is read and what is not.
LEMMA AvanzaKeeps ==
  ASSUME MInv, canal # <<>>, Avanza, UNCHANGED Emisor
  PROVE  CableIntacto' /\ TramasSeguidas' /\ canal' \in Seq(Bytes) /\ leido' \in Nat
<1>1. /\ canal \in Seq(Bytes) /\ Len(canal) \in Nat \ {0} /\ leido \in Nat
      /\ Len(resto) \in Nat /\ Len(flujo) \in Nat
  BY DEF MInv, MTypeOK
<1>2. /\ canal' \in Seq(Bytes) /\ Len(canal') = Len(canal) - 1
      /\ \A i \in 1..(Len(canal) - 1) : canal'[i] = canal[i + 1]
      /\ leido' = leido + 1
  BY <1>1 DEF Avanza
<1>3. flujo' = flujo /\ resto' = resto /\ mensajes' = mensajes /\ inicio' = inicio
  BY DEF Emisor
<1>4. /\ leido + Len(canal) + Len(resto) = Len(flujo)
      /\ \A i \in 1..Len(canal) : canal[i] = flujo[leido + i]
      /\ \A i \in 1..Len(resto) : resto[i] = flujo[leido + Len(canal) + i]
  BY DEF MInv, CableIntacto
<1>5. leido' + Len(canal') = leido + Len(canal)
  BY <1>1, <1>2
<1>6. leido' + Len(canal') + Len(resto') = Len(flujo')
  BY <1>1, <1>2, <1>3, <1>4, <1>5
<1>7. ASSUME NEW i \in 1..Len(canal') PROVE canal'[i] = flujo'[leido' + i]
  <2>1. i \in 1..(Len(canal) - 1) /\ i + 1 \in 1..Len(canal)
        /\ leido + (i + 1) = leido' + i
    BY <1>1, <1>2
  <2>. QED BY <2>1, <1>2, <1>3, <1>4
<1>8. ASSUME NEW i \in 1..Len(resto')
      PROVE  resto'[i] = flujo'[leido' + Len(canal') + i]
  BY <1>3, <1>4, <1>5
<1>9. CableIntacto'
  BY <1>6, <1>7, <1>8 DEF CableIntacto
<1>10. TramasSeguidas'
  BY <1>3 DEF MInv, TramasSeguidas
<1>. QED BY <1>1, <1>2, <1>9, <1>10

\* The line that readLine returns is the message of its turn, cut.
LEMMA DevuelveMensaje ==
  ASSUME MensajesAssumption, MInv, Devuelve
  PROVE  /\ Len(lineas) + 1 \in 1..Len(mensajes)
         /\ leido + 1 = inicio[Len(lineas) + 2]
         /\ buffer = Corta(mensajes[Len(lineas) + 1], N)
<1> DEFINE m == mensajes[Len(lineas) + 1]
<1>1. lector = "lee" /\ canal # <<>> /\ canal[1] \in Fin
  BY DEF Devuelve
<1>2. N \in Nat \ {0} /\ leido \in Nat /\ buffer \in Seq(Bytes) /\ Len(lineas) \in Nat
  BY DEF MInv, MTypeOK, MensajesAssumption
<1>3. /\ Len(lineas) + 1 \in 1..Len(mensajes)
      /\ m \in Seq(Bytes \ Fin) /\ Len(m) \in Nat
      /\ inicio[Len(lineas) + 1] \in Nat
      /\ leido - inicio[Len(lineas) + 1] = Len(m)
      /\ inicio[(Len(lineas) + 1) + 1] = inicio[Len(lineas) + 1] + Len(m) + 1
      /\ Len(buffer) = IF Len(m) < N THEN Len(m) ELSE N - 1
      /\ \A j \in 1..Len(buffer) : buffer[j] = m[j]
  BY <1>1, ByteEnTurno
<1>4. leido + 1 = inicio[Len(lineas) + 2]
  <2>1. (Len(lineas) + 1) + 1 = Len(lineas) + 2
    BY <1>2
  <2>. QED BY <2>1, <1>2, <1>3
<1>5. /\ Corta(m, N) \in Seq(Bytes \ Fin)
      /\ Len(Corta(m, N)) = IF Len(m) < N THEN Len(m) ELSE N - 1
      /\ \A j \in 1..Len(Corta(m, N)) : Corta(m, N)[j] = m[j]
  BY <1>2, <1>3, CortaProperties
<1>6. Corta(m, N) \in Seq(Bytes)
  BY <1>5
<1>7. buffer = Corta(m, N)
  <2>1. /\ Len(buffer) = Len(Corta(m, N))
        /\ \A j \in 1..Len(buffer) : buffer[j] = Corta(m, N)[j]
    BY <1>3, <1>5
  <2>. QED BY <2>1, <1>2, <1>6, SeqIgual
<1>. QED BY <1>3, <1>4, <1>7

LEMMA DevuelveKeeps ==
  ASSUME MensajesAssumption, MInv, Devuelve
  PROVE  MInv'
<1>1. UNCHANGED Emisor /\ Avanza /\ canal # <<>> /\ lector' = lector
      /\ lineas' = Append(lineas, buffer) /\ buffer' = <<>>
  BY DEF Devuelve
<1>2. mensajes' = mensajes /\ inicio' = inicio /\ leido' = leido + 1
  BY <1>1 DEF Emisor, Avanza
<1>3. CableIntacto' /\ TramasSeguidas' /\ canal' \in Seq(Bytes) /\ leido' \in Nat
  BY <1>1, AvanzaKeeps
<1>4. /\ lineas' \in Seq(Seq(Bytes)) /\ Len(lineas') = Len(lineas) + 1
      /\ \A i \in 1..Len(lineas) : lineas'[i] = lineas[i]
      /\ lineas'[Len(lineas) + 1] = buffer
  BY <1>1, AppendPuntos DEF MInv, MTypeOK
<1>5. MTypeOK'
  BY <1>1, <1>3, <1>4 DEF MInv, MTypeOK, Emisor
<1>6. /\ Len(lineas) + 1 \in 1..Len(mensajes) /\ Len(lineas) \in Nat
      /\ leido + 1 = inicio[Len(lineas) + 2]
      /\ buffer = Corta(mensajes[Len(lineas) + 1], N)
      /\ Len(mensajes) \in Nat /\ Len(inicio) = Len(mensajes) + 1
  <2>1. Len(lineas) \in Nat /\ Len(mensajes) \in Nat /\ Len(inicio) = Len(mensajes) + 1
    BY DEF MInv, MTypeOK, TramasSeguidas
  <2>. QED BY <2>1, DevuelveMensaje
<1>7. EnTurno'
  <2>1. Len(lineas') + 1 = Len(lineas) + 2 /\ Len(lineas) + 2 <= Len(inicio)
    BY <1>4, <1>6
  <2>2. inicio'[Len(lineas') + 1] = leido' /\ leido' \in Nat
    BY <2>1, <1>2, <1>3, <1>6
  <2>3. /\ Len(mensajes'[Len(lineas') + 1]) \in Nat \/ Len(lineas') + 1 = Len(inicio')
        /\ Len(buffer') = 0 /\ N \in Nat \ {0}
    <3>1. CASE Len(lineas) + 2 \in 1..Len(mensajes)
      <4>1. mensajes[Len(lineas) + 2] \in Textos
        BY <3>1 DEF MInv, MTypeOK
      <4>. QED BY <4>1, <2>1, <1>1, <1>2 DEF MensajesAssumption
    <3>2. CASE Len(lineas) + 2 = Len(mensajes) + 1
      BY <3>2, <2>1, <1>1, <1>2, <1>6 DEF MensajesAssumption
    <3>. QED BY <3>1, <3>2, <1>6
  <2>. QED BY <2>1, <2>2, <2>3, <1>1, <1>2 DEF EnTurno
<1>8. LineasFieles'
  <2>1. ASSUME NEW i \in 1..Len(lineas') PROVE lineas'[i] = Corta(mensajes'[i], N)
    <3>1. CASE i \in 1..Len(lineas)
      BY <3>1, <1>2, <1>4 DEF MInv, LineasFieles, Devuelve
    <3>2. CASE i = Len(lineas) + 1
      BY <3>2, <1>2, <1>4, <1>6
    <3>. QED BY <3>1, <3>2, <1>4, <1>6
  <2>2. Len(lineas') <= Len(mensajes')
    BY <1>2, <1>4, <1>6
  <2>. QED BY <2>1, <2>2 DEF LineasFieles
<1>. QED BY <1>3, <1>5, <1>7, <1>8 DEF MInv

\* A byte of the message is stored while there is room.
LEMMA GuardaKeeps ==
  ASSUME MensajesAssumption, MInv, Guarda
  PROVE  MInv'
<1> DEFINE k == Len(lineas) + 1
           d == leido - inicio[k]
<1>1. UNCHANGED Emisor /\ Avanza /\ lector = "lee"
      /\ canal # <<>> /\ canal[1] \notin Fin
      /\ lineas' = lineas /\ lector' = lector
  BY DEF Guarda
<1>2. mensajes' = mensajes /\ inicio' = inicio /\ leido' = leido + 1
  BY <1>1 DEF Emisor, Avanza
<1>3. CableIntacto' /\ TramasSeguidas' /\ canal' \in Seq(Bytes) /\ leido' \in Nat
  BY <1>1, AvanzaKeeps
<1>4. /\ k \in 1..Len(mensajes) /\ inicio[k] \in Nat /\ d \in Nat
      /\ Len(mensajes[k]) \in Nat
      /\ d < Len(mensajes[k]) /\ canal[1] = mensajes[k][d + 1]
      /\ canal[1] \in Bytes
      /\ Len(buffer) = IF d < N THEN d ELSE N - 1
      /\ \A j \in 1..Len(buffer) : buffer[j] = mensajes[k][j]
  BY <1>1, ByteEnTurno
<1>5. N \in Nat \ {0} /\ buffer \in Seq(Bytes) /\ leido \in Nat /\ Len(mensajes) \in Nat
      /\ Len(inicio) = Len(mensajes) + 1
  BY DEF MInv, MTypeOK, TramasSeguidas, MensajesAssumption
<1>6. /\ buffer' \in Seq(Bytes)
      /\ Len(buffer') = IF d + 1 < N THEN d + 1 ELSE N - 1
      /\ \A j \in 1..Len(buffer') : buffer'[j] = mensajes[k][j]
  <2>1. CASE Len(buffer) < N - 1
    <3>1. buffer' = Append(buffer, canal[1]) /\ Len(buffer) = d
      BY <2>1, <1>4, <1>5 DEF Guarda
    <3>2. /\ buffer' \in Seq(Bytes) /\ Len(buffer') = d + 1
          /\ \A j \in 1..d : buffer'[j] = buffer[j]
          /\ buffer'[d + 1] = canal[1]
      BY <3>1, <1>4, <1>5, AppendPuntos
    <3>3. \A j \in 1..(d + 1) : buffer'[j] = mensajes[k][j]
      BY <3>1, <3>2, <1>4
    <3>4. Len(buffer') = IF d + 1 < N THEN d + 1 ELSE N - 1
      BY <3>1, <3>2, <2>1, <1>4, <1>5
    <3>. QED BY <3>2, <3>3, <3>4
  <2>2. CASE ~(Len(buffer) < N - 1)
    <3>1. buffer' = buffer /\ Len(buffer) = N - 1 /\ ~(d + 1 < N)
      BY <2>2, <1>4, <1>5 DEF Guarda
    <3>. QED BY <3>1, <1>4, <1>5
  <2>. QED BY <2>1, <2>2
<1>7. MTypeOK'
  BY <1>1, <1>3, <1>6 DEF MInv, MTypeOK, Emisor
<1>8. EnTurno'
  <2>1. Len(lineas') + 1 = k /\ k # Len(inicio) /\ k <= Len(inicio)
        /\ leido' - inicio[k] = d + 1 /\ leido' >= inicio[k]
        /\ d + 1 <= Len(mensajes[k])
    BY <1>1, <1>2, <1>4, <1>5
  <2>. QED BY <2>1, <1>2, <1>6 DEF EnTurno
<1>9. LineasFieles'
  BY <1>1, <1>2 DEF MInv, LineasFieles
<1>. QED BY <1>3, <1>7, <1>8, <1>9 DEF MInv

\* The part of a line that readLine returns at the end is the beginning of
\* the message of its turn, cut.
LEMMA FinalParte ==
  ASSUME MensajesAssumption, MInv, lector = "lee", buffer # <<>>
  PROVE  /\ Len(lineas) + 1 \in 1..Len(mensajes)
         /\ buffer \in Partes(Corta(mensajes[Len(lineas) + 1], N))
<1> DEFINE k == Len(lineas) + 1
           m == mensajes[k]
           d == leido - inicio[k]
<1>1. /\ N \in Nat \ {0} /\ leido \in Nat /\ buffer \in Seq(Bytes)
      /\ Len(buffer) \in Nat \ {0} /\ Len(lineas) \in Nat
      /\ Len(mensajes) \in Nat /\ Len(inicio) = Len(mensajes) + 1
  BY DEF MInv, MTypeOK, TramasSeguidas, MensajesAssumption
<1>2. k \in 1..Len(inicio) /\ inicio[k] \in Nat
  BY TurnoEnInicio, InicioNat
<1>3. /\ k # Len(inicio) /\ leido >= inicio[k] /\ d <= Len(m)
      /\ Len(buffer) = IF d < N THEN d ELSE N - 1
      /\ \A j \in 1..Len(buffer) : buffer[j] = m[j]
  BY DEF MInv, EnTurno
<1>4. k \in 1..Len(mensajes)
  BY <1>1, <1>2, <1>3
<1>5. m \in Seq(Bytes) /\ Len(m) \in Nat
  <2>1. m \in Textos
    BY <1>4 DEF MInv, MTypeOK
  <2>2. m \in Seq(Bytes \ Fin)
    BY <2>1 DEF MensajesAssumption
  <2> QED
    BY <2>2
<1> DEFINE c == Corta(m, N)
<1>6. /\ c \in Seq(Bytes)
      /\ Len(c) = IF Len(m) < N THEN Len(m) ELSE N - 1
      /\ \A j \in 1..Len(c) : c[j] = m[j]
  BY <1>1, <1>5, CortaProperties
<1>7. Len(buffer) \in 1..Len(c)
  <2>1. d \in Nat
    BY <1>1, <1>2, <1>3
  <2> HIDE DEF c, m, d
  <2> QED
    BY <2>1, <1>1, <1>3, <1>5, <1>6
<1> HIDE DEF c
<1>8. /\ SubSeq(c, 1, Len(buffer)) \in Seq(Bytes)
      /\ Len(SubSeq(c, 1, Len(buffer))) = Len(buffer)
      /\ \A j \in 1..Len(buffer) : SubSeq(c, 1, Len(buffer))[j] = c[j]
  BY <1>1, <1>6, <1>7
<1>9. ASSUME NEW j \in 1..Len(buffer)
      PROVE  buffer[j] = SubSeq(c, 1, Len(buffer))[j]
  <2>1. buffer[j] = m[j] /\ SubSeq(c, 1, Len(buffer))[j] = c[j]
    BY <1>3, <1>8
  <2>2. j \in 1..Len(c)
    BY <1>7
  <2> QED
    BY <2>1, <2>2, <1>6
<1>10. buffer = SubSeq(c, 1, Len(buffer))
  BY <1>1, <1>8, <1>9, SeqIgual
<1> QED
  BY <1>4, <1>7, <1>10 DEF Partes, c

LEMMA FinalKeeps ==
  ASSUME MensajesAssumption, MInv, Final
  PROVE  MInv'
<1>1. /\ UNCHANGED <<mensajes, flujo, inicio, resto, canal, abierto, leido>>
      /\ buffer' = <<>> /\ lector = "lee"
  BY DEF Final, Emisor
<1>2. CableIntacto' /\ TramasSeguidas'
  BY <1>1 DEF MInv, CableIntacto, TramasSeguidas
<1>3. CASE buffer = <<>> /\ lector' = "nada" /\ UNCHANGED lineas
  <2>1. MTypeOK' /\ EnTurno' /\ LineasFieles'
    BY <1>1, <1>3 DEF MInv, MTypeOK, EnTurno, LineasFieles
  <2> QED
    BY <1>2, <2>1 DEF MInv
<1>4. CASE /\ buffer # <<>> /\ lector' = "parte"
           /\ lineas' = Append(lineas, buffer)
  <2>1. /\ lineas' \in Seq(Seq(Bytes)) /\ Len(lineas') = Len(lineas) + 1
        /\ \A i \in 1..Len(lineas) : lineas'[i] = lineas[i]
        /\ lineas'[Len(lineas) + 1] = buffer /\ Len(lineas) \in Nat
    BY <1>4, AppendPuntos DEF MInv, MTypeOK
  <2>2. MTypeOK' /\ EnTurno'
    BY <1>1, <1>4, <2>1 DEF MInv, MTypeOK, EnTurno
  <2>3. /\ Len(lineas) + 1 \in 1..Len(mensajes)
        /\ buffer \in Partes(Corta(mensajes[Len(lineas) + 1], N))
    BY <1>1, <1>4, FinalParte
  <2>4. \A i \in 1..Len(lineas) : lineas[i] = Corta(mensajes[i], N)
    BY <1>1 DEF MInv, LineasFieles
  <2>5. /\ mensajes' = mensajes /\ lector' = "parte" /\ Len(mensajes) \in Nat
        /\ Len(lineas') <= Len(mensajes')
    BY <1>1, <1>4, <2>1, <2>3 DEF MInv, MTypeOK
  <2>6. ASSUME NEW i \in 1..Len(lineas'), i # Len(lineas')
        PROVE  lineas'[i] = Corta(mensajes'[i], N)
    <3>1. i \in 1..Len(lineas)
      BY <2>1, <2>6
    <3> QED
      BY <3>1, <2>1, <2>4, <2>5
  <2>7. lineas'[Len(lineas')] \in Partes(Corta(mensajes'[Len(lineas')], N))
    BY <2>1, <2>3, <2>5
  <2>8. LineasFieles'
    BY <2>5, <2>6, <2>7 DEF LineasFieles
  <2> QED
    BY <1>2, <2>2, <2>8 DEF MInv
<1> QED
  BY <1>3, <1>4 DEF Final

\* The other steps leave the bytes and the lines alone.
LEMMA OtrosKeep ==
  ASSUME MInv, Cierra \/ Falla \/ UNCHANGED vars
  PROVE  MInv'
<1>1. UNCHANGED <<mensajes, flujo, inicio, resto, canal, leido, buffer, lineas>>
  BY DEF Cierra, Falla, vars, Emisor, Receptor
<1>2. MTypeOK'
  BY <1>1 DEF MInv, MTypeOK, Cierra, Falla, vars, Emisor, Receptor
<1>3. \/ lector' = lector
      \/ lector = "lee" /\ lector' = "error"
  BY DEF Cierra, Falla, vars, Receptor
<1>4. CableIntacto' /\ TramasSeguidas' /\ EnTurno' /\ LineasFieles'
  BY <1>1, <1>3 DEF MInv, CableIntacto, TramasSeguidas, EnTurno, LineasFieles
<1>. QED BY <1>2, <1>4 DEF MInv

LEMMA NextKeeps ==
  ASSUME MensajesAssumption, MInv, [Next]_vars
  PROVE  MInv'
<1>1. ASSUME NEW m \in Textos, Manda(m) PROVE MInv'
  BY <1>1, MandaKeeps
<1>2. ASSUME NEW r \in 0..Len(resto), Escribe(r) PROVE MInv'
  BY <1>2, EscribeKeeps
<1>3. CASE Devuelve
  BY <1>3, DevuelveKeeps
<1>4. CASE Guarda
  BY <1>4, GuardaKeeps
<1>5. CASE Final
  BY <1>5, FinalKeeps
<1>6. CASE Cierra \/ Falla \/ UNCHANGED vars
  BY <1>6, OtrosKeep
<1>. QED BY <1>1, <1>2, <1>3, <1>4, <1>5, <1>6 DEF Next

\* The bytes of the messages arrive in order and the lines stay apart, however
\* writes are cut and whenever the connection ends (message.c:6-59).
THEOREM MensajesCorrect ==
  ASSUME MensajesAssumption PROVE Spec => []MInv
<1>1. Init => MInv
  BY InitMInv
<1>2. MInv /\ [Next]_vars => MInv'
  BY NextKeeps
<1>. QED BY <1>1, <1>2, PTL DEF Spec

\* Every line that readLine has returned is the message of its turn, cut to
\* the buffer, or at the end of the connection the beginning of it.
THEOREM LinesFaithful ==
  ASSUME MensajesAssumption PROVE Spec => []LineasFieles
<1>1. MInv => LineasFieles
  BY DEF MInv
<1>. QED BY <1>1, MensajesCorrect, PTL

\* sendMessage and readLine implement the channel of messages, of which the
\* end of the connection may leave the beginning of one.
THEOREM MensajesImplementsBuzon ==
  ASSUME MensajesAssumption PROVE Spec => ImplementsBuzon
<1>1. Init => B!Init
  BY DEF Init, B!Init
<1>2. MInv /\ [Next]_vars => [B!Next]_B!bvars
  <2>. SUFFICES ASSUME MInv, [Next]_vars PROVE [B!Next]_B!bvars
    OBVIOUS
  <2>1. ASSUME NEW m \in Textos, Manda(m) PROVE B!Next
    BY <2>1 DEF Manda, Receptor, B!Next, B!Manda
  <2>2. CASE Devuelve
    <3>1. /\ Len(lineas) + 1 \in 1..Len(mensajes) /\ Len(lineas) \in Nat
          /\ buffer = Corta(mensajes[Len(lineas) + 1], N)
      BY <2>2, DevuelveMensaje DEF MInv, MTypeOK
    <3>2. Len(lineas) < Len(mensajes)
      BY <3>1
    <3>3. B!Turno = buffer
      BY <3>1 DEF B!Turno, B!Corta, Corta
    <3>. QED BY <2>2, <3>2, <3>3 DEF Devuelve, Emisor, B!Next, B!Entrega, B!HayTurno
  <2>5. CASE Final /\ buffer = <<>>
    BY <2>5 DEF Final, Emisor, B!bvars
  <2>6. CASE Final /\ buffer # <<>>
    <3>1. /\ lineas' = Append(lineas, buffer) /\ lector = "lee"
          /\ lector' = "parte" /\ UNCHANGED mensajes
      BY <2>6 DEF Final, Emisor
    <3>2. Len(lineas) < Len(mensajes)
      <4>1. Len(lineas) \in Nat /\ Len(mensajes) \in Nat
        BY DEF MInv, MTypeOK
      <4> QED
        BY <2>6, <3>1, <4>1, FinalParte
    <3>3. buffer \in B!Partes(B!Turno)
      BY <2>6, <3>1, FinalParte DEF B!Turno, B!Partes, Partes, B!Corta, Corta
    <3>. QED BY <3>1, <3>2, <3>3 DEF B!Next, B!Corte, B!HayTurno
  <2>3. ASSUME NEW r \in 0..Len(resto), Escribe(r) PROVE UNCHANGED B!bvars
    BY <2>3 DEF Escribe, Receptor, B!bvars
  <2>4. CASE Cierra \/ Guarda \/ Falla \/ UNCHANGED vars
    BY <2>4 DEF Cierra, Guarda, Falla, vars, Emisor, Receptor, B!bvars
  <2>. QED BY <2>1, <2>2, <2>3, <2>4, <2>5, <2>6 DEF Next
<1>. QED BY <1>1, <1>2, MensajesCorrect, PTL DEF Spec, ImplementsBuzon, B!Spec
=============================================================================
