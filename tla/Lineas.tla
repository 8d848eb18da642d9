------------------------------- MODULE Lineas -------------------------------
(* What readLine keeps of a message in a buffer of n bytes. *)
EXTENDS Integers, Sequences

\* All of it, or its first n - 1 bytes: the last one is for the NUL.
Corta(m, n) == SubSeq(m, 1, IF Len(m) < n THEN Len(m) ELSE n - 1)

\* What may be there of a message when the connection ends within it.
Partes(m) == {SubSeq(m, 1, j) : j \in 1..Len(m)}
=============================================================================
