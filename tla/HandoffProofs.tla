---------------------------- MODULE HandoffProofs ----------------------------
(***************************************************************************)
(* Proofs about Handoff, for every set of threads, descriptors and         *)
(* addresses.                                                              *)
(*                                                                         *)
(* The invariants are not inductive one by one: that main does not lose    *)
(* the signal needs the mutex (MutexHeld), that no descriptor is served    *)
(* twice needs the flag to say whether args_thread is still in use         *)
(* (FlagAgrees, InTransit).  HandoffInv is their conjunction; it holds     *)
(* initially, main, the threads and the handler preserve it, and the       *)
(* invariants and the action property of the runs follow from it.          *)
(***************************************************************************)
EXTENDS Handoff, TLAPS

\* Init establishes the inductive invariant.
LEMMA InitInv == Init => HandoffInv
<1> SUFFICES ASSUME Init PROVE HandoffInv
  OBVIOUS
<1>1. TypeOK
  BY HandoffAssumption
  DEF Init, TypeOK, HiloLibre, MainPCs, HiloPCs, HandlerPCs
<1>2. \A t \in Hilos : ~SinCopiar(t) /\ ~Sirve(t)
  BY DEF Init, HiloLibre, SinCopiar, Sirve
<1>3. FlagAgrees /\ NoLostWakeup
  BY <1>2 DEF Init, FlagAgrees, NoLostWakeup
<1>4. MutexHeld
  BY HandoffAssumption DEF Init, MutexHeld, HiloLibre
<1>5. InTransit /\ DescriptorServedOnce
  BY <1>2 DEF Init, InTransit, DescriptorServedOnce
<1> QED
  BY <1>1, <1>3, <1>4, <1>5 DEF HandoffInv

\* Every step keeps the types.  The two steps that index origen or hilo by a
\* descriptor need it to be a real one, which InTransit and
\* DescriptorServedOnce give.
LEMMA TypeStep == HandoffInv /\ [Next]_vars => TypeOK'
<1> SUFFICES ASSUME HandoffInv, [Next]_vars PROVE TypeOK'
  OBVIOUS
<1> USE HandoffAssumption DEF HandoffInv, TypeOK, MainPCs, HiloPCs, HandlerPCs
<1>1. ASSUME NEW s \in Sockets, NEW ip \in IPs, Accept(s, ip) PROVE TypeOK'
  BY <1>1 DEF Accept
<1>2. CASE AcceptFails
  BY <1>2 DEF AcceptFails
<1>3. CASE FillArgs
  <2>1. sd_client \in Sockets
    BY <1>3 DEF FillArgs, InTransit, SinDueno
  <2> QED
    BY <1>3, <2>1 DEF FillArgs
<1>4. CASE EndStrcpy
  <2>1. sd_client \in Sockets
    BY <1>4 DEF EndStrcpy, InTransit, SinDueno
  <2> QED
    BY <1>4, <2>1 DEF EndStrcpy
<1>5. ASSUME NEW t \in Hilos, Create(t) PROVE TypeOK'
  BY <1>5 DEF Create, HiloLibre
<1>6. CASE CreateFails
  BY <1>6 DEF CreateFails
<1>7. CASE MainLock \/ MainMustWait \/ MainSleep
  BY <1>7 DEF MainLock, MainMustWait, MainSleep
<1>8. CASE SpuriousWakeup \/ MainReset
  BY <1>8 DEF SpuriousWakeup, MainReset
<1>9. ASSUME NEW t \in Hilos, HiloLock(t) PROVE TypeOK'
  BY <1>9 DEF HiloLock
<1>10. ASSUME NEW t \in Hilos, HiloCopia(t) PROVE TypeOK'
  BY <1>10 DEF HiloCopia
<1>11. ASSUME NEW t \in Hilos, HiloUsaIp(t) PROVE TypeOK'
  BY <1>11 DEF HiloUsaIp
<1>12. ASSUME NEW t \in Hilos, HiloCierra(t) PROVE TypeOK'
  <2>1. hilo[t].sd \in Sockets
    BY <1>12 DEF HiloCierra, DescriptorServedOnce, Sirve
  <2> QED
    BY <1>12, <2>1 DEF HiloCierra, HiloLibre
<1>13. CASE Sigint \/ DestroyMutex \/ DestroyCond \/ HandlerExit
  BY <1>13 DEF Sigint, DestroyMutex, DestroyCond, HandlerExit
<1>14. CASE UNCHANGED vars
  BY <1>14 DEF vars
<1> QED
  BY <1>1, <1>2, <1>3, <1>4, <1>5, <1>6, <1>7, <1>8, <1>9, <1>10, <1>11,
     <1>12, <1>13, <1>14
  DEF Next, MainNext, HiloNext, HandlerNext

\* The rest of the invariant, with its types taken as given by TypeStep.
Resto == FlagAgrees /\ MutexHeld /\ InTransit /\ DescriptorServedOnce
           /\ NoLostWakeup

\* main, up to pthread_create: no thread is copying, and a descriptor that
\* accept() returns is new, so that nobody serves it.
LEMMA FirstHalfKeeps ==
  ASSUME HandoffInv, TypeOK',
         \/ \E s \in Sockets, ip \in IPs : Accept(s, ip)
         \/ AcceptFails \/ FillArgs \/ EndStrcpy
         \/ (\E t \in Hilos : Create(t)) \/ CreateFails
  PROVE  Resto'
<1> USE HandoffAssumption
    DEF HandoffInv, TypeOK, Resto, SinCopiar, Sirve, SinDueno, MainCorre
<1>1. ASSUME NEW s \in Sockets, NEW ip \in IPs, Accept(s, ip) PROVE Resto'
  <2>1. SinDueno(s)'
    BY <1>1 DEF Accept, DescriptorServedOnce
  <2>2. InTransit'
    BY <1>1, <2>1 DEF Accept, InTransit, FlagAgrees
  <2>3. (FlagAgrees /\ MutexHeld /\ NoLostWakeup)'
    BY <1>1 DEF Accept, FlagAgrees, MutexHeld, NoLostWakeup
  <2>4. DescriptorServedOnce'
    BY <1>1 DEF Accept, DescriptorServedOnce
  <2> QED
    BY <2>2, <2>3, <2>4
<1>2. CASE AcceptFails
  BY <1>2 DEF AcceptFails, FlagAgrees, MutexHeld, InTransit,
              DescriptorServedOnce, NoLostWakeup
<1>3. CASE FillArgs
  <2>1. InTransit'
    BY <1>3 DEF FillArgs, InTransit, FlagAgrees
  <2>2. (FlagAgrees /\ MutexHeld /\ DescriptorServedOnce /\ NoLostWakeup)'
    BY <1>3 DEF FillArgs, FlagAgrees, MutexHeld, DescriptorServedOnce,
                NoLostWakeup
  <2> QED
    BY <2>1, <2>2
<1>4. CASE EndStrcpy
  <2>1. args_thread'.sd_client = args_thread.sd_client
    BY <1>4 DEF EndStrcpy
  <2>2. InTransit'
    BY <1>4, <2>1 DEF EndStrcpy, InTransit, FlagAgrees
  <2>3. (FlagAgrees /\ MutexHeld /\ DescriptorServedOnce /\ NoLostWakeup)'
    BY <1>4 DEF EndStrcpy, FlagAgrees, MutexHeld, DescriptorServedOnce,
                NoLostWakeup
  <2> QED
    BY <2>2, <2>3
<1>5. ASSUME NEW t \in Hilos, Create(t) PROVE Resto'
  <2>1. hilo'[t].pc = "inicio" /\ \A u \in Hilos \ {t} : hilo'[u] = hilo[u]
    BY <1>5 DEF Create, HiloLibre
  <2>2. FlagAgrees' /\ MutexHeld'
    BY <1>5, <2>1 DEF Create, FlagAgrees, MutexHeld
  <2>3. InTransit' /\ DescriptorServedOnce'
    BY <1>5, <2>1 DEF Create, InTransit, DescriptorServedOnce
  <2>4. NoLostWakeup'
    BY <1>5 DEF Create, NoLostWakeup
  <2> QED
    BY <2>2, <2>3, <2>4
<1>6. CASE CreateFails
  BY <1>6 DEF CreateFails, FlagAgrees, MutexHeld, InTransit,
              DescriptorServedOnce, NoLostWakeup
<1> QED
  BY <1>1, <1>2, <1>3, <1>4, <1>5, <1>6

\* main, holding back until the copy is made: test and wait are under the
\* mutex, so that a thread about to lower the flag cannot run between them.
LEMMA SecondHalfKeeps ==
  ASSUME HandoffInv, TypeOK',
         MainLock \/ MainMustWait \/ MainSleep \/ SpuriousWakeup \/ MainReset
  PROVE  Resto'
<1> USE HandoffAssumption
    DEF HandoffInv, TypeOK, Resto, SinCopiar, Sirve, SinDueno, MainCorre
<1>1. CASE MainLock
  <2>1. MutexHeld'
    BY <1>1 DEF MainLock, MutexHeld
  <2>2. (FlagAgrees /\ InTransit /\ DescriptorServedOnce /\ NoLostWakeup)'
    BY <1>1 DEF MainLock, FlagAgrees, InTransit, DescriptorServedOnce,
                NoLostWakeup
  <2> QED
    BY <2>1, <2>2
<1>2. CASE MainMustWait
  BY <1>2 DEF MainMustWait, FlagAgrees, MutexHeld, InTransit,
              DescriptorServedOnce, NoLostWakeup
<1>3. CASE MainSleep
  <2>1. MutexHeld'
    BY <1>3 DEF MainSleep, MutexHeld
  <2>2. (FlagAgrees /\ InTransit /\ DescriptorServedOnce /\ NoLostWakeup)'
    BY <1>3 DEF MainSleep, FlagAgrees, InTransit, DescriptorServedOnce,
                NoLostWakeup
  <2> QED
    BY <2>1, <2>2
<1>4. CASE SpuriousWakeup
  BY <1>4 DEF SpuriousWakeup, FlagAgrees, MutexHeld, InTransit,
              DescriptorServedOnce, NoLostWakeup
<1>5. CASE MainReset
  <2>1. \A t \in Hilos : ~SinCopiar(t)
    BY <1>5 DEF MainReset, FlagAgrees
  <2>2. FlagAgrees' /\ MutexHeld' /\ NoLostWakeup'
    BY <1>5, <2>1 DEF MainReset, FlagAgrees, MutexHeld, NoLostWakeup
  <2>3. InTransit' /\ DescriptorServedOnce'
    BY <1>5, <2>1 DEF MainReset, InTransit, DescriptorServedOnce
  <2> QED
    BY <2>2, <2>3
<1> QED
  BY <1>1, <1>2, <1>3, <1>4, <1>5

\* The threads: the one that copies takes over the descriptor in transit, the
\* flag falls with the last thread that had to copy, and closing a descriptor
\* takes it from nobody else.
LEMMA ThreadKeeps ==
  ASSUME HandoffInv, TypeOK', NEW t \in Hilos, HiloNext(t)
  PROVE  Resto'
<1> USE HandoffAssumption
    DEF HandoffInv, TypeOK, Resto, SinCopiar, Sirve, SinDueno, MainCorre
<1>1. CASE HiloLock(t)
  <2>1. \A u \in Hilos : SinCopiar(u) => u = t
    BY <1>1 DEF HiloLock, FlagAgrees
  <2>2. FlagAgrees' /\ MutexHeld'
    BY <1>1, <2>1 DEF HiloLock, FlagAgrees, MutexHeld
  <2>3. InTransit' /\ DescriptorServedOnce'
    BY <1>1 DEF HiloLock, InTransit, DescriptorServedOnce
  <2>4. NoLostWakeup'
    BY <1>1 DEF HiloLock, NoLostWakeup
  <2> QED
    BY <2>2, <2>3, <2>4
<1>2. CASE HiloCopia(t)
  <2>1. \A u \in Hilos : SinCopiar(u) => u = t
    BY <1>2 DEF HiloCopia, FlagAgrees
  <2>2. SinDueno(args_thread.sd_client)
    BY <1>2 DEF HiloCopia, InTransit
  <2>3. \A u \in Hilos : ~SinCopiar(u)'
    BY <1>2, <2>1 DEF HiloCopia
  <2>4. main_pc \notin {"accept", "fill", "strcpy", "create"}
    BY <1>2 DEF HiloCopia, FlagAgrees
  <2>5. FlagAgrees'
    BY <1>2, <2>3, <2>4 DEF HiloCopia, FlagAgrees, MainPCs
  <2>6. MutexHeld'
    BY <1>2, <2>1, <2>3 DEF HiloCopia, MutexHeld
  <2>7. InTransit' /\ DescriptorServedOnce'
    BY <1>2, <2>2, <2>3, <2>4
    DEF HiloCopia, InTransit, DescriptorServedOnce
  <2>8. NoLostWakeup'
    BY <1>2 DEF HiloCopia, NoLostWakeup, MutexHeld
  <2> QED
    BY <2>5, <2>6, <2>7, <2>8
<1>3. CASE HiloUsaIp(t)
  <2>1. hilo'[t].pc = "usado" /\ hilo'[t].sd = hilo[t].sd
        /\ \A u \in Hilos \ {t} : hilo'[u] = hilo[u]
    BY <1>3 DEF HiloUsaIp
  <2>2. FlagAgrees' /\ MutexHeld' /\ NoLostWakeup'
    BY <1>3, <2>1 DEF HiloUsaIp, FlagAgrees, MutexHeld, NoLostWakeup
  <2>3. InTransit' /\ DescriptorServedOnce'
    BY <1>3, <2>1 DEF HiloUsaIp, InTransit, DescriptorServedOnce
  <2> QED
    BY <2>2, <2>3
<1>4. CASE HiloCierra(t)
  <2>1. hilo'[t].pc = "libre" /\ \A u \in Hilos \ {t} : hilo'[u] = hilo[u]
    BY <1>4 DEF HiloCierra, HiloLibre
  <2>2. FlagAgrees' /\ MutexHeld' /\ NoLostWakeup'
    BY <1>4, <2>1 DEF HiloCierra, FlagAgrees, MutexHeld, NoLostWakeup
  <2>3. InTransit' /\ DescriptorServedOnce'
    BY <1>4, <2>1 DEF HiloCierra, InTransit, DescriptorServedOnce
  <2> QED
    BY <2>2, <2>3
<1> QED
  BY <1>1, <1>2, <1>3, <1>4 DEF HiloNext

\* handler_sigint destroys the mutex only when nobody holds it, and main does
\* not move again, so that no promise about main is lost with it.
LEMMA HandlerKeeps == HandoffInv /\ HandlerNext => Resto'
<1> SUFFICES ASSUME HandoffInv, HandlerNext PROVE Resto'
  OBVIOUS
<1> USE HandoffAssumption
    DEF HandoffInv, Resto, SinCopiar, Sirve, SinDueno, MainCorre
<1>1. FlagAgrees' /\ InTransit' /\ DescriptorServedOnce'
  BY DEF HandlerNext, Sigint, DestroyMutex, DestroyCond, HandlerExit,
         FlagAgrees, InTransit, DescriptorServedOnce
<1>2. MutexHeld'
  BY DEF HandlerNext, Sigint, DestroyMutex, DestroyCond, HandlerExit,
         MutexHeld, TypeOK
<1>3. NoLostWakeup'
  BY DEF HandlerNext, Sigint, DestroyMutex, DestroyCond, HandlerExit,
         NoLostWakeup
<1> QED
  BY <1>1, <1>2, <1>3

\* Every step of the system, and a stuttering one, keeps the invariant.
LEMMA StepInv == HandoffInv /\ [Next]_vars => HandoffInv'
<1> SUFFICES ASSUME HandoffInv, [Next]_vars PROVE HandoffInv'
  OBVIOUS
<1>1. TypeOK'
  BY TypeStep
<1>2. CASE MainNext
  BY <1>1, <1>2, FirstHalfKeeps, SecondHalfKeeps
  DEF MainNext, HandoffInv, Resto
<1>3. ASSUME NEW t \in Hilos, HiloNext(t) PROVE HandoffInv'
  BY <1>1, <1>3, ThreadKeeps DEF HandoffInv, Resto
<1>4. CASE HandlerNext
  BY <1>1, <1>4, HandlerKeeps DEF HandoffInv, Resto
<1>5. CASE UNCHANGED vars
  BY <1>5
  DEF vars, HandoffInv, TypeOK, FlagAgrees, MutexHeld, InTransit, SinDueno,
      DescriptorServedOnce, NoLostWakeup, SinCopiar, Sirve, MainCorre
<1> QED
  BY <1>2, <1>3, <1>4, <1>5 DEF Next

-----------------------------------------------------------------------------
\* The handoff invariant holds in every reachable state, whatever the number
\* of threads and descriptors (servidor.c:55-62, 1059-1077).
THEOREM HandoffCorrect == Spec => []HandoffInv
<1>1. Init => HandoffInv
  BY InitInv
<1>2. HandoffInv /\ [Next]_vars => HandoffInv'
  BY StepInv
<1> QED
  BY <1>1, <1>2, PTL DEF Spec

\* The types of the state hold throughout (servidor.c:25-34, 1061-1068).
THEOREM TypeCorrect == Spec => []TypeOK
<1>1. HandoffInv => TypeOK
  BY DEF HandoffInv
<1> QED
  BY <1>1, HandoffCorrect, PTL

\* No descriptor is ever served by two threads, and none that is being served
\* has been closed (servidor.c:57-62, 997).
THEOREM ServedOnce == Spec => []DescriptorServedOnce
<1>1. HandoffInv => DescriptorServedOnce
  BY DEF HandoffInv
<1> QED
  BY <1>1, HandoffCorrect, PTL

\* The signal of the thread cannot be lost between main's test of the flag and
\* its wait (servidor.c:60-62, 1072-1074).
THEOREM WakeupKept == Spec => []NoLostWakeup
<1>1. HandoffInv => NoLostWakeup
  BY DEF HandoffInv
<1> QED
  BY <1>1, HandoffCorrect, PTL

\* args_thread is never written while a thread has yet to copy it
\* (servidor.c:1067-1076).
THEOREM ArgsStable == Spec => ArgsStableUntilCopied
<1> DEFINE Quieto == (\E t \in Hilos : SinCopiar(t)) => UNCHANGED args_thread
<1>1. HandoffInv /\ [Next]_vars => [Quieto]_vars
  <2> SUFFICES ASSUME HandoffInv, Next, NEW t \in Hilos, SinCopiar(t)
               PROVE  UNCHANGED args_thread
    BY DEF vars
  <2>1. main_pc \notin {"fill", "strcpy"}
    BY DEF HandoffInv, FlagAgrees
  <2> QED
    BY <2>1
    DEF Next, MainNext, HiloNext, HandlerNext, Accept, AcceptFails, FillArgs,
        EndStrcpy, Create, CreateFails, MainLock, MainMustWait, MainSleep,
        SpuriousWakeup, MainReset, HiloLock, HiloCopia, HiloUsaIp, HiloCierra,
        Sigint, DestroyMutex, DestroyCond, HandlerExit
<1> QED
  BY <1>1, HandoffCorrect, PTL DEF Spec, ArgsStableUntilCopied
=============================================================================
