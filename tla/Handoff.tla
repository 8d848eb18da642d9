------------------------------- MODULE Handoff -------------------------------
(***************************************************************************)
(* How servidor.c hands an accepted connection over to the thread that     *)
(* serves it: the accept loop of main, the prologue of tratar_peticion,    *)
(* and the SIGINT handler that may interrupt main at any point.            *)
(*                                                                         *)
(* main keeps one args_thread, on its own stack, and passes its address    *)
(* to every thread.  The flag mensaje_no_copiado, guarded by mutex_mensaje *)
(* and cond_mensaje, makes main wait until the thread has copied it.  The  *)
(* thread copies the descriptor, but of the address only a pointer.        *)
(***************************************************************************)
EXTENDS Integers, FiniteSets

CONSTANTS Hilos,      \* detached threads that may be alive at once
          Sockets,    \* descriptors that accept() may return
          IPs,        \* addresses the clients connect from
          Main,       \* the main thread, as a holder of the mutex
          Nadie,      \* nobody: the mutex is free, no descriptor is held
          Destruido,  \* the mutex after pthread_mutex_destroy
          Mezcla      \* an address text while strcpy is overwriting it

ASSUME HandoffAssumption ==
  /\ Main \notin Hilos
  /\ Nadie \notin Hilos \cup {Main} \cup Sockets \cup IPs
  /\ Destruido \notin Hilos \cup {Main, Nadie}
  /\ Mezcla \notin IPs \cup {Nadie}

VARIABLES
  main_pc,             \* where main is in its loop
  sd_client,           \* main's local: the descriptor accept() returned
  args_thread,         \* the record whose address every thread receives
  mensaje_no_copiado,  \* "the arguments have not been copied yet"
  mutex_mensaje,       \* who holds the mutex
  hilo,                \* per thread: pc, its copy of sd_client, the IP it used
  abiertos,            \* the descriptors that are open
  origen,              \* per open descriptor, the address its client has
  handler,             \* how far handler_sigint is, "no" when not running
  vivo                 \* the process has not exited

vars == <<main_pc, sd_client, args_thread, mensaje_no_copiado, mutex_mensaje,
          hilo, abiertos, origen, handler, vivo>>

MainPCs == {"accept", "fill", "strcpy", "create", "lock", "test", "sleep",
            "waiting", "relock"}
HiloPCs == {"libre", "inicio", "copia", "trata", "usado"}
HandlerPCs == {"no", "mutex", "cond", "exit"}

\* main and the handler run on the same thread: main stands still while
\* handler_sigint runs on top of it.
MainCorre == vivo /\ handler = "no"

HiloLibre == [pc |-> "libre", sd |-> Nadie, ip |-> Nadie]

-----------------------------------------------------------------------------
\* The state when main reaches its loop: nothing accepted, args_thread not
\* written yet, the flag at its static initial value 1.
Init ==
  /\ main_pc = "accept"
  /\ sd_client = Nadie
  /\ args_thread = [sd_client |-> Nadie, ip_address |-> Nadie]
  /\ mensaje_no_copiado = TRUE
  /\ mutex_mensaje = Nadie
  /\ hilo = [t \in Hilos |-> HiloLibre]
  /\ abiertos = {}
  /\ origen = [s \in Sockets |-> Nadie]
  /\ handler = "no"
  /\ vivo = TRUE

-----------------------------------------------------------------------------
\* The accept loop of main.

Accept(s, ip) ==
  /\ MainCorre /\ main_pc = "accept"
  /\ s \notin abiertos
  /\ abiertos' = abiertos \cup {s}
  /\ origen' = [origen EXCEPT ![s] = ip]
  /\ sd_client' = s
  /\ main_pc' = "fill"
  /\ UNCHANGED <<args_thread, mensaje_no_copiado, mutex_mensaje, hilo,
                 handler, vivo>>

\* Mutant: the error of accept() is not looked at.
AcceptFailsUnchecked ==
  /\ MainCorre /\ main_pc = "accept"
  /\ Sockets \subseteq abiertos
  /\ sd_client' = -1
  /\ main_pc' = "fill"
  /\ UNCHANGED <<args_thread, mensaje_no_copiado, mutex_mensaje, hilo,
                 abiertos, origen, handler, vivo>>

\* accept() has no descriptor left to return: main exits with -1.
AcceptFails ==
  /\ MainCorre /\ main_pc = "accept"
  /\ Sockets \subseteq abiertos
  /\ vivo' = FALSE
  /\ UNCHANGED <<main_pc, sd_client, args_thread, mensaje_no_copiado,
                 mutex_mensaje, hilo, abiertos, origen, handler>>

\* args_thread.sd_client is assigned and strcpy starts on ip_address, which
\* holds neither text until it ends, unless both texts are the same.
FillArgs ==
  /\ MainCorre /\ main_pc = "fill"
  /\ args_thread' =
       [sd_client  |-> sd_client,
        ip_address |-> IF args_thread.ip_address = origen[sd_client]
                       THEN args_thread.ip_address ELSE Mezcla]
  /\ main_pc' = "strcpy"
  /\ UNCHANGED <<sd_client, mensaje_no_copiado, mutex_mensaje, hilo,
                 abiertos, origen, handler, vivo>>

EndStrcpy ==
  /\ MainCorre /\ main_pc = "strcpy"
  /\ args_thread' = [args_thread EXCEPT !.ip_address = origen[sd_client]]
  /\ main_pc' = "create"
  /\ UNCHANGED <<sd_client, mensaje_no_copiado, mutex_mensaje, hilo,
                 abiertos, origen, handler, vivo>>

Create(t) ==
  /\ MainCorre /\ main_pc = "create"
  /\ hilo[t].pc = "libre"
  /\ hilo' = [hilo EXCEPT ![t] = [HiloLibre EXCEPT !.pc = "inicio"]]
  /\ main_pc' = "lock"
  /\ UNCHANGED <<sd_client, args_thread, mensaje_no_copiado, mutex_mensaje,
                 abiertos, origen, handler, vivo>>

\* Mutant: the wait is not inside the if, so main waits for no thread.
CreateFailsAndWaits ==
  /\ MainCorre /\ main_pc = "create"
  /\ main_pc' = "lock"
  /\ UNCHANGED <<sd_client, args_thread, mensaje_no_copiado, mutex_mensaje,
                 hilo, abiertos, origen, handler, vivo>>

\* pthread_create fails and there is no else branch: main goes on to the next
\* accept and leaves the descriptor open.
CreateFails ==
  /\ MainCorre /\ main_pc = "create"
  /\ main_pc' = "accept"
  /\ UNCHANGED <<sd_client, args_thread, mensaje_no_copiado, mutex_mensaje,
                 hilo, abiertos, origen, handler, vivo>>

\* pthread_mutex_lock, on the way in and on the way out of cond_wait.
MainLock ==
  /\ MainCorre /\ main_pc \in {"lock", "relock"}
  /\ mutex_mensaje = Nadie
  /\ mutex_mensaje' = Main
  /\ main_pc' = "test"
  /\ UNCHANGED <<sd_client, args_thread, mensaje_no_copiado, hilo, abiertos,
                 origen, handler, vivo>>

\* while (mensaje_no_copiado): not copied yet, so main is about to sleep.
MainMustWait ==
  /\ MainCorre /\ main_pc = "test"
  /\ mensaje_no_copiado
  /\ main_pc' = "sleep"
  /\ UNCHANGED <<sd_client, args_thread, mensaje_no_copiado, mutex_mensaje,
                 hilo, abiertos, origen, handler, vivo>>

\* Mutant: a wait that keeps the mutex.
MainSleepHoldingMutex ==
  /\ MainCorre /\ main_pc = "sleep"
  /\ main_pc' = "waiting"
  /\ UNCHANGED <<sd_client, args_thread, mensaje_no_copiado, mutex_mensaje,
                 hilo, abiertos, origen, handler, vivo>>

\* pthread_cond_wait queues main and releases the mutex in one step.
MainSleep ==
  /\ MainCorre /\ main_pc = "sleep"
  /\ mutex_mensaje' = Nadie
  /\ main_pc' = "waiting"
  /\ UNCHANGED <<sd_client, args_thread, mensaje_no_copiado, hilo, abiertos,
                 origen, handler, vivo>>

\* pthread_cond_wait may return without a signal.
SpuriousWakeup ==
  /\ MainCorre /\ main_pc = "waiting"
  /\ main_pc' = "relock"
  /\ UNCHANGED <<sd_client, args_thread, mensaje_no_copiado, mutex_mensaje,
                 hilo, abiertos, origen, handler, vivo>>

\* Mutant: main does not test the flag.
MainResetUntested ==
  /\ MainCorre /\ main_pc = "test"
  /\ mensaje_no_copiado' = TRUE
  /\ mutex_mensaje' = Nadie
  /\ main_pc' = "accept"
  /\ UNCHANGED <<sd_client, args_thread, hilo, abiertos, origen, handler,
                 vivo>>

\* Mutant: main does not raise the flag again.
MainResetForgets ==
  /\ MainCorre /\ main_pc = "test"
  /\ ~mensaje_no_copiado
  /\ mutex_mensaje' = Nadie
  /\ main_pc' = "accept"
  /\ UNCHANGED <<sd_client, args_thread, mensaje_no_copiado, hilo, abiertos,
                 origen, handler, vivo>>

\* The flag is down: main raises it for the next connection and unlocks.
MainReset ==
  /\ MainCorre /\ main_pc = "test"
  /\ ~mensaje_no_copiado
  /\ mensaje_no_copiado' = TRUE
  /\ mutex_mensaje' = Nadie
  /\ main_pc' = "accept"
  /\ UNCHANGED <<sd_client, args_thread, hilo, abiertos, origen, handler,
                 vivo>>

MainNext ==
  \/ \E s \in Sockets, ip \in IPs : Accept(s, ip)
  \/ AcceptFails
  \/ FillArgs
  \/ EndStrcpy
  \/ \E t \in Hilos : Create(t)
  \/ CreateFails
  \/ MainLock
  \/ MainMustWait
  \/ MainSleep
  \/ SpuriousWakeup
  \/ MainReset

-----------------------------------------------------------------------------
\* The prologue of tratar_peticion and what it does with its arguments.

\* Mutant: the thread copies without the mutex.
HiloLockOmitted(t) ==
  /\ vivo /\ hilo[t].pc = "inicio"
  /\ hilo' = [hilo EXCEPT ![t].pc = "copia"]
  /\ UNCHANGED <<main_pc, sd_client, args_thread, mensaje_no_copiado,
                 mutex_mensaje, abiertos, origen, handler, vivo>>

\* A mutex that handler_sigint has destroyed returns an error that the thread
\* ignores: it goes on without the lock.
HiloLock(t) ==
  /\ vivo /\ hilo[t].pc = "inicio"
  /\ mutex_mensaje \in {Nadie, Destruido}
  /\ mutex_mensaje' = IF mutex_mensaje = Nadie THEN t ELSE Destruido
  /\ hilo' = [hilo EXCEPT ![t].pc = "copia"]
  /\ UNCHANGED <<main_pc, sd_client, args_thread, mensaje_no_copiado,
                 abiertos, origen, handler, vivo>>

\* Mutant: the thread does not signal.
HiloCopiaUnsignalled(t) ==
  /\ vivo /\ hilo[t].pc = "copia"
  /\ hilo' = [hilo EXCEPT ![t] = [pc |-> "trata", ip |-> Nadie,
                                  sd |-> args_thread.sd_client]]
  /\ mensaje_no_copiado' = FALSE
  /\ mutex_mensaje' = IF mutex_mensaje = t THEN Nadie ELSE mutex_mensaje
  /\ UNCHANGED <<main_pc, sd_client, args_thread, abiertos, origen, handler,
                 vivo>>

\* Copies sd_client, lowers the flag, signals and unlocks.  A main that is
\* interrupted inside cond_wait does not notice the signal.
HiloCopia(t) ==
  /\ vivo /\ hilo[t].pc = "copia"
  /\ hilo' = [hilo EXCEPT ![t] = [pc |-> "trata", ip |-> Nadie,
                                  sd |-> args_thread.sd_client]]
  /\ mensaje_no_copiado' = FALSE
  /\ main_pc' = IF MainCorre /\ main_pc = "waiting" THEN "relock" ELSE main_pc
  /\ mutex_mensaje' = IF mutex_mensaje = t THEN Nadie ELSE mutex_mensaje
  /\ UNCHANGED <<sd_client, args_thread, abiertos, origen, handler, vivo>>

\* CONNECT prints *ip_client, which points into args_thread.
HiloUsaIp(t) ==
  /\ vivo /\ hilo[t].pc = "trata"
  /\ hilo' = [hilo EXCEPT ![t] = [pc |-> "usado", sd |-> hilo[t].sd,
                                  ip |-> args_thread.ip_address]]
  /\ UNCHANGED <<main_pc, sd_client, args_thread, mensaje_no_copiado,
                 mutex_mensaje, abiertos, origen, handler, vivo>>

\* The request is answered: close(sd_client) and pthread_exit.
HiloCierra(t) ==
  /\ vivo /\ hilo[t].pc \in {"trata", "usado"}
  /\ abiertos' = abiertos \ {hilo[t].sd}
  /\ origen' = [origen EXCEPT ![hilo[t].sd] = Nadie]
  /\ hilo' = [hilo EXCEPT ![t] = HiloLibre]
  /\ UNCHANGED <<main_pc, sd_client, args_thread, mensaje_no_copiado,
                 mutex_mensaje, handler, vivo>>

HiloNext(t) == HiloLock(t) \/ HiloCopia(t) \/ HiloUsaIp(t) \/ HiloCierra(t)

-----------------------------------------------------------------------------
\* handler_sigint, run by the main thread wherever SIGINT finds it.

Sigint ==
  /\ MainCorre
  /\ handler' = "mutex"
  /\ UNCHANGED <<main_pc, sd_client, args_thread, mensaje_no_copiado,
                 mutex_mensaje, hilo, abiertos, origen, vivo>>

\* pthread_mutex_destroy refuses a mutex that somebody holds, or will hold
\* again when it returns from cond_wait; the handler ignores the error.
DestroyMutex ==
  /\ vivo /\ handler = "mutex"
  /\ mutex_mensaje' = IF /\ mutex_mensaje = Nadie
                         /\ main_pc \notin {"waiting", "relock"}
                      THEN Destruido ELSE mutex_mensaje
  /\ handler' = "cond"
  /\ UNCHANGED <<main_pc, sd_client, args_thread, mensaje_no_copiado, hilo,
                 abiertos, origen, vivo>>

\* pthread_cond_destroy blocks while a thread is still inside cond_wait.
DestroyCond ==
  /\ vivo /\ handler = "cond"
  /\ main_pc # "waiting"
  /\ handler' = "exit"
  /\ UNCHANGED <<main_pc, sd_client, args_thread, mensaje_no_copiado,
                 mutex_mensaje, hilo, abiertos, origen, vivo>>

HandlerExit ==
  /\ vivo /\ handler = "exit"
  /\ vivo' = FALSE
  /\ UNCHANGED <<main_pc, sd_client, args_thread, mensaje_no_copiado,
                 mutex_mensaje, hilo, abiertos, origen, handler>>

HandlerNext == Sigint \/ DestroyMutex \/ DestroyCond \/ HandlerExit

Next ==
  \/ MainNext
  \/ \E t \in Hilos : HiloNext(t)
  \/ HandlerNext

Spec == Init /\ [][Next]_vars

\* What the operating system owes: main and the handler run when they can, a
\* thread runs when it can, and a request is served in the end.  Nobody owes
\* a client, a signal, a failing pthread_create or a spurious wakeup.  The
\* lock takes strong fairness: only spurious wakeups without end could keep
\* the mutex from a thread that asks for it.
Fairness ==
  /\ WF_vars(FillArgs \/ EndStrcpy \/ MainLock \/ MainMustWait \/ MainSleep
             \/ MainReset)
  /\ WF_vars((\E t \in Hilos : Create(t)) \/ CreateFails)
  /\ WF_vars(DestroyMutex \/ DestroyCond \/ HandlerExit)
  /\ \A t \in Hilos : /\ SF_vars(HiloLock(t))
                      /\ WF_vars(HiloCopia(t))
                      /\ WF_vars(HiloCierra(t))

FairSpec == Spec /\ Fairness

-----------------------------------------------------------------------------
(* Properties *)

\* The types of the state: the program counters, the copies of descriptors
\* and addresses that args_thread and the threads hold.
TypeOK ==
  /\ main_pc \in MainPCs
  /\ sd_client \in Sockets \cup {Nadie}
  /\ args_thread \in [sd_client  : Sockets \cup {Nadie},
                      ip_address : IPs \cup {Nadie, Mezcla}]
  /\ mensaje_no_copiado \in BOOLEAN
  /\ mutex_mensaje \in Hilos \cup {Main, Nadie, Destruido}
  /\ hilo \in [Hilos -> [pc : HiloPCs, sd : Sockets \cup {Nadie},
                         ip : IPs \cup {Nadie, Mezcla}]]
  /\ abiertos \in SUBSET Sockets
  /\ origen \in [Sockets -> IPs \cup {Nadie}]
  /\ handler \in HandlerPCs
  /\ vivo \in BOOLEAN

SinCopiar(t) == hilo[t].pc \in {"inicio", "copia"}
Sirve(t) == hilo[t].pc \in {"trata", "usado"}

\* A connection is served by one thread: every serving thread holds an open
\* descriptor and no two hold the same one, although all of them were given
\* the address of the same args_thread (servidor.c:57-62, 1064-1077).
DescriptorServedOnce ==
  \A t \in Hilos : Sirve(t) =>
    /\ hilo[t].sd \in abiertos
    /\ \A u \in Hilos \ {t} : Sirve(u) => hilo[u].sd # hilo[t].sd

\* main never sleeps on cond_mensaje for a copy that has been made already:
\* the signal of servidor.c:61 cannot fall between the test of the flag and
\* the wait of servidor.c:1073-1074.
NoLostWakeup ==
  MainCorre /\ main_pc \in {"sleep", "waiting"} => mensaje_no_copiado

\* args_thread is not written while a thread has yet to copy it: the loop of
\* servidor.c:1072-1076 holds main back, also over two handoffs in a row.
ArgsStableUntilCopied ==
  [][(\E t \in Hilos : SinCopiar(t)) => UNCHANGED args_thread]_vars

\* main always gets back to accept() after it has created a thread, unless
\* SIGINT or the end of the process stops it (servidor.c:1070-1077).
HandoffEnds == (main_pc = "lock") ~> (main_pc = "accept" \/ ~MainCorre)

\* A thread that was created gets through the prologue and closes its
\* connection, unless the process ends first (servidor.c:55-62, 997-998).
ThreadFinishes ==
  \A t \in Hilos : (hilo[t].pc = "inicio") ~> (hilo[t].pc = "libre" \/ ~vivo)

\* Handoff in one piece: the inductive invariant behind the safety properties.
\* While main is in the first half of its loop nobody reads args_thread; in the
\* second half the flag is up exactly while one thread has yet to copy.  The
\* mutex keeps main and that thread apart between test and wait, and a
\* descriptor on its way to a thread is open and served by nobody
\* (servidor.c:55-62, 1059-1077).
FlagAgrees ==
  /\ \A t, u \in Hilos : SinCopiar(t) /\ SinCopiar(u) => t = u
  /\ main_pc \in {"accept", "fill", "strcpy", "create"}
       => mensaje_no_copiado /\ \A t \in Hilos : ~SinCopiar(t)
  /\ main_pc \in {"lock", "test", "sleep", "waiting", "relock"}
       => (mensaje_no_copiado <=> \E t \in Hilos : SinCopiar(t))

MutexHeld ==
  /\ main_pc \in {"test", "sleep"} => mutex_mensaje = Main
  /\ \A t \in Hilos :
       hilo[t].pc = "copia" => mutex_mensaje \in {t, Destruido}
  /\ mutex_mensaje = Destruido => handler # "no"

SinDueno(s) == s \in abiertos /\ \A t \in Hilos : Sirve(t) => hilo[t].sd # s

InTransit ==
  /\ main_pc \in {"fill", "strcpy"} => SinDueno(sd_client)
  /\ main_pc \in {"strcpy", "create"} => SinDueno(args_thread.sd_client)
  /\ \A t \in Hilos : SinCopiar(t) => SinDueno(args_thread.sd_client)

HandoffInv ==
  /\ TypeOK
  /\ FlagAgrees
  /\ MutexHeld
  /\ InTransit
  /\ DescriptorServedOnce
  /\ NoLostWakeup

\* "Copia local de la IP y el descriptor de socket" (servidor.c:56): the
\* address a thread prints for its client is the address of that client.
IpIsOwn ==
  \A t \in Hilos : hilo[t].pc = "usado" => hilo[t].ip = origen[hilo[t].sd]

\* "Manejador del signal al hacer ctrl + c para terminar el servidor"
\* (servidor.c:35): once SIGINT is being handled, the process ends.
SigintTerminates == (handler # "no") ~> ~vivo
=============================================================================
