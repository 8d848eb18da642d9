------------------------------ MODULE MCHandoff ------------------------------
(***************************************************************************)
(* Handoff on a small instance.  Two threads are enough for one to serve   *)
(* while main hands over to the other; the third descriptor lets main      *)
(* accept while both are busy, and run out of descriptors after a          *)
(* pthread_create that failed.                                             *)
(***************************************************************************)
EXTENDS Handoff

CONSTANTS h1, h2, s1, s2, s3, ipA, ipB

MCHilos == {h1, h2}
MCSockets == {s1, s2, s3}
MCIPs == {ipA, ipB}
=============================================================================
