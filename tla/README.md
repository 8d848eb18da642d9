# A verification development for the P2P file-sharing application

The repository is a small peer-to-peer application: a C server
(`servidor.c`) keeps track of who is registered, who is connected and where,
and who published which file; Python clients (`client.py`) talk to it and
fetch files from each other. This directory holds TLA+ models of the server's
concurrent core, of the clients and their calls to each other, of both together
and of the framing of their messages; TLC configurations that check them on
small instances; and TLAPS proofs that hold for instances of any size.

Paths without a directory are files of `src/`.

## Inventory

### Server: connection hand-over (`servidor.c` 25-64, 996-998, 1001-1080)

*State*: the static `mutex_mensaje`, `cond_mensaje`, `mensaje_no_copiado`,
`do_exit`, `sd_server`; `args_thread` on the stack of `main`; one detached
thread per connection.
*Operations*: accept, fill `args_thread`, create the thread, wait until it has
copied; the thread's prologue (lock, copy, lower the flag, signal, unlock) and
its end (close, exit); `handler_sigint`.
*Interacts* through the shared record, the flag and the mutex; SIGINT interrupts
`main` at any instruction.
*Hard*: all threads receive the same address; the wakeup must not be lost; the
flag must stay in step over many connections, also when `pthread_create`
fails; the thread keeps a pointer to the address text; the handler destroys
what its own thread may be waiting on.
*Correct* when each connection is served by exactly one thread with its own
data, `main` always gets back to accept, and SIGINT ends the process.

### Server: requests that change the tables (`servidor.c` 73-552)

*State*: three directories, `usuarios-registrados`, `usuarios-conectados` and
`publicaciones`, with one file per user or publication. They outlive the
process and are not created by it (the Makefile only removes them). Per thread
a `Peticion` on the stack (`data.h`).
*Operations*: REGISTER, UNREGISTER, CONNECT, DISCONNECT, PUBLISH, DELETE. Each
reads its fields, calls the log server, looks (`fopen "r"`) and acts
(`fopen "w"`, `remove`), and answers one code.
*Interacts* with the other threads through the directories, without any lock;
with the log server by a blocking call; any failure of a read, a write or the
log server exits the whole process.
*Hard*: look and act are separate calls; a record is visible before it is
written (it is flushed by `fclose`); `remove` does not stop a writer; a short
connection leaves old stack contents in the fields; the process may end between
any two calls.
*Correct* when each request behaves as if it ran alone, in one step, and a fall
loses no more than the record being written.

### Server: requests that read the tables (`servidor.c` 553-984)

LIST_CONTENT, LIST_USERS and GET_FILE scan a directory with `readdir` while
other threads change it, parse each record with `fscanf` into buffers they do
not reset, and send a code, a count and the entries in separate writes.
*Correct* when each entry sent was true at some moment of the scan, the code
is one the operation set, and the number announced is the number sent.

### Server: open files

Several branches return without `fclose` (242, 259 on success, 324, 333, 606,
622, 638, 661 for a publication of another user, 772, 787, 893): the
process accumulates descriptors until `fopen` and `accept` fail.
*Correct* when the number of open files is bounded by the requests in progress.

### Message framing (`message.c`)

`readLine` reads to a NUL or newline, keeps the first 255 bytes, returns 0
without touching the buffer when nothing arrives; `sendMessage` writes until
all is sent. No state of its own.
*Correct* when what one side sends is what the other side reads, or the reader
can tell that it is not.

### Client (`client.py`)

*State*: `_connected`, `_socket_comunicacion`, and one thread per session that
runs `listen_clients`.
*Operations*: one per shell command; `listen_clients` serves GET_FILE to peers.
*Hard*: the shell and the listener share the socket; the answer of the server
and the local session may disagree after an exception; `readLine` does not
return at the end of the connection; peers come, wait, and go at any time.
*Correct* when a session has one thread on its socket and its record at the
server, nobody else's request removes that record, and a GET_FILE and a QUIT
come to an end.

### Log server, date service, build files

The log server (`rpc_management_server.c` and the stubs rpcgen generated) prints
one line per request and keeps nothing; `webservice.py` formats the current
time; the Makefiles and `backups_rpc/` are not part of the running program.
`backups_rpc/backup_server_rpc.c` returns an uninitialised `retval` (12, 20).
`README.md` line 9 names a `Makefile.message_rpc` that does not exist.

## Modules

| Module | What it is |
|---|---|
| `Handoff` | the hand-over, one action per call of `main`, a thread or the handler |
| `MCHandoff` | two threads, three descriptors, two addresses |
| `HandoffProofs` | the inductive invariant of the hand-over and what follows from it |
| `Directorio` | the abstract service: every request served in one step |
| `Servidor` | the requests that change the tables, one action per call on a file; the mapping to `Directorio` |
| `MCServidor` | two threads, two users, one published name, two ports |
| `Listados` | the requests that read the tables, on threads beside those of `Servidor` |
| `MCListados` | one thread of each kind, two users, one published name |
| `ServidorProofs` | the inductive invariant of the tables and what follows from it |
| `DirectorioProofs` | `Servidor` implements `Directorio`: the refinement, step by step |
| `ListadosProofs` | the inductive invariant of the readers and what follows from it |
| `Cliente` | the processes of `client.py` and the calls between them, with a server that may answer anything |
| `MCCliente` | two clients, one name, two ports, queues of two calls |
| `ClienteProofs` | the inductive invariant of the clients and what follows from it |
| `Sistema` | `Cliente` composed with `Servidor` |
| `MCSistema` | two clients, two names that are one user to the server, two ports, two threads of the server |
| `SistemaProofs` | whom each record belongs to, as an inductive invariant, and what follows from it |
| `Lineas` | what `readLine` keeps of a message |
| `Buzon` | the abstract channel: messages in order, the last one perhaps cut short |
| `Mensajes` | `sendMessage` and `readLine`, byte by byte; the mapping to `Buzon` |
| `MCMensajes` | two messages of up to three bytes, a buffer of three |
| `MensajesProofs` | the inductive invariant of the framing and the refinement |

Operators preceded by a comment that starts with "Mutant:" are not part of the
specifications: each is a plausible bug of the definition that follows it, and
putting it in that definition's place makes a property fail. They show that
the properties depend on the code.

### Handoff

| Code | Model |
|---|---|
| accept loop, 1054-1078 | `main_pc`; `Accept`, `AcceptFails`, `FillArgs`, `EndStrcpy`, `Create`, `CreateFails`, `MainLock`, `MainMustWait`, `MainSleep`, `SpuriousWakeup`, `MainReset` |
| `args_thread`, 1064-1068 | `args_thread`; its text is `Mezcla` while `strcpy` runs, unless old and new text are equal |
| prologue, 55-62 | `HiloLock`, `HiloCopia` |
| use of `ip_client`, 270 | `HiloUsaIp` |
| 997-998 | `HiloCierra` |
| `handler_sigint`, 36-44 | `Sigint`, `DestroyMutex`, `DestroyCond`, `HandlerExit`; `main` stands still meanwhile |

`pthread_cond_wait` is three steps: queue and unlock (`MainSleep`), be signalled
or wake spuriously, lock again (`MainLock`). The calls on the mutex and the
condition variable behave as those of glibc do, as a build of `servidor.c` on
Linux shows: destroying a mutex that is held, or that a waiter will take again,
fails with EBUSY; destroying a condition variable with a waiter blocks; locking
a destroyed mutex fails and the thread goes on. Descriptors are those that
`accept` returns; `accept` fails when all are open, which a failing
`pthread_create` brings about because nobody closes the descriptor. The body
of the request is left out: between the copy and the close, the thread may
use the address at any moment.

### Servidor

| Code | Model |
|---|---|
| the three directories | `carpetas` (which exist), `registrados`, `conectados`, `publicaciones` |
| a file open for writing | its thread at `con_escribe` or `pub_escribe`; in `enlazados` while the file still has its name |
| `Peticion` on the stack, `data.h` | `hilo[t]`: `op`, `user`, `dato` (port or file name), `ret`, with `pc` the position in the code |
| reading the request, `readLine` | `Recibe`: fields that did not arrive keep what the stack holds |
| call of the log server | `Rpc`, or `Falla` |
| `fopen(..., "r")` | `HayRegistro`, `HayConexion`, `HayPublicacion`, each in a step of its own |
| REGISTER 73-141, UNREGISTER 142-200, CONNECT 201-282, DISCONNECT 283-353, PUBLISH 354-453, DELETE 454-552 | `Register`, `Unregister`, `Connect`, `Disconnect`, `Publish`, `Delete` |
| unknown operation, 985-995 | `Desconocida` |
| answer and end of the thread | `Responde` |
| `exit` in a thread, SIGPIPE, SIGINT, a null `FILE*` | `Muere`: all threads end; any subset of the open records may have reached the disk, and where two writers have one record open, or one writes over an older record, what is there may be a mix |
| starting the server again | `Reinicia`, on the same directories |

Five choices that a reader should know:

- *The empty name.* `Blanco` is the empty user or file name: the path is then
  the directory itself. `fopen "r"` succeeds on it, `remove` deletes the
  directory if it is empty, `fopen "w"` fails. `carpetas` follows this. The
  client's shell can send it ("REGISTER " with a space at the end).
- *Short requests.* `llega` says how much of a request arrives before the
  connection ends: nothing, the operation, the user too, or all of it.
- *Reused stacks.* `PilaReusada` says whether a thread may get the stack of an
  earlier one with its contents, as glibc gives it; otherwise stacks are zero.
- *Overlap.* `Solapan` says whether requests in progress may concern the same
  user or the same published name. With FALSE it is an assumption about the
  clients, not about the code, and the passing run says what the code promises
  under it; with TRUE nothing is assumed.
- *Contents.* A connection record is its port (the address is the subject of
  `Handoff`), a publication its user. `Vacio` is a file without content yet,
  `Mezcla` one in which two records of different length are written over each
  other. A record is put on disk by `fclose` in one step: it fits in a buffer.

`directorio_registrados[20]` (51) is initialised with 20 characters and no NUL,
which leaves the string unterminated; in the builds tried the byte after it is
zero and the path comes out right, and the model takes the path as meant.

`Directorio` keeps who is registered, the port of each connection, the owner of
each publication, and the request and answer of each thread. A request is
served by one step `Sirve`, with the code that the state deserves. `Cae` is a
fall: requests in progress vanish, and for any subset of those that were served
with 0 and not answered, the record is `Perdido`. In the mapping (end of
`Servidor`) a request counts as served from the call that decides it; a file
that its writer has open is as good as written; an empty file that nobody
has open is lost.

### Listados

It extends `Servidor`: a step is one of the threads that read (`lector[l]`), or
one of `Servidor` (`Otros`).

| Code | Model |
|---|---|
| fields, log server, 559-604, 733-770, 880-890 | `Pregunta`, `Avisa`; the requests arrive whole |
| the checks, 605-650, 771-799 | `Comprueba`, one file per step |
| GET_FILE's look at the remote user's address, 891-907 | `BuscaConexion` |
| `opendir` | `Opendir`; without the directory a listing ends the process (715, 861), GET_FILE closes without an answer (908, no else) |
| the loops on `readdir`, 656-684, 804-829, 911-935 | `LeeEntrada`, `LeeFichero`, `Closedir` |
| the answer in parts, 686-713, 831-859, 936-978 | `Envia` |
| a failing read or write, SIGPIPE | `Cae` |

`readdir` promises what POSIX does: a file that is in the directory from
`opendir` to the end is returned once; one that comes or goes meanwhile, once or
not at all. So `fijos` keeps the files that have been there all along, and
`Closedir` waits until `readdir` has returned them. `readdir`, `fopen` and
`fscanf` of one entry are one step: a file gone in between is as good as not
returned, and there is nothing else a thread could do to it in between that
it could not do before. `leido` is the buffer of `fscanf`, which an empty record
leaves as it was: `username_leido` (562) or `respuesta` (812). What it and
`op_retorno` hold at first depends on `PilaReusada`. Descriptions are left out.

### Cliente

| Code | Model |
|---|---|
| `_connected`, `_socket_comunicacion` | `cliente[c].sesion`, `.socket` |
| the shell, 492-592 | `cliente[c].pc`; `Arranca`, `Sale`, `Termina` |
| the checks of register, unregister, connect, disconnect, QUIT | `Admite` |
| sending a request; connect also binds its socket (140-148) | `Envia` |
| the answer, 158-175, 226-239, 567-573 | `Recibe`; then `Cierra` for the end of a session |
| the server's end of the connection closes first | `PierdeServidor` |
| `listen_clients`, 179-206 | `oyentes[c]`; `Escucha`, `Acepta`, `Atiende` |
| `listen` and the calls not yet accepted | `escuchando`, `cola` |
| PUBLISH, DELETE, the listings, and GET_FILE's question | `Consulta`, `Informa` |
| GET_FILE's call to a peer, 473-487 | `Marca`, `Pide`; `Cortada` if it is reset |
| `readLine` after the other end is gone, 625-632 | `pc = "colgado"`, `par = Mudo` |
| the process ends or is killed | `Desaparece` |

A thread is a record in a set; it is the one that serves `par`, and keeps `sd`
while its socket is open. `shutdown` takes a thread out of `accept` with an
exception, so both are one step; on a socket that does not listen yet it fails
(ENOTCONN), and the session stays (second part of `Cierra`). The socket that a
failed CONNECT bound is of no use and is dropped with the answer. `Mudo` and
`Ido` are callers that went away, before or after they sent their request: of
the first the thread reads for ever. `readLine` may meet the end of the
connection as an empty chunk, for ever, or as an exception: each time the model
leaves the choice open. Threads with equal records are one in the set; they
would behave alike, and no property counts them. Names are non-empty (the empty
one is in `Servidor`). What the server does is left open: `Recibe` takes any
code, `Informa` any address, right or stale. In this module's own next-state
relation REGISTER and UNREGISTER leave the session as it was, like the requests
of `Consulta`, and are not repeated.

### Sistema

| Code | Model |
|---|---|
| a command of the shell, on a connection of its own | `Ordena`: `Cliente!Envia` and `Servidor!Recibe` |
| the thread that serves it, one call on a file or on the log server at a time | `Sirve` |
| the answer | `Contesta`: `Servidor!Responde` with the client's `Recibe`, or for nobody |
| the server's process ends, is started again | `ServidorCae`: `Servidor!Muere` and `Cliente!PierdeServidor`; `ServidorArranca` |
| client steps without the server | `Solo`, `Acaba`, `ClienteCae` |
| a peer's call, which the thread of a session takes (client.py 187-206) | `Visita` |

The server is `Servidor` itself, with `Solapan = TRUE`: the look (`fopen "r"`)
and the act (`fopen "w"`, `remove`) of a request are separate steps, and so are
those of requests about the same user, which run beside each other. A client
may be killed as soon as it has sent; its request then goes on at the server,
beside later ones of a new process. `turno` says which thread has a client's
request. Two things are left out. Requests arrive whole: the date service
answers (without a date the client raises after it has sent the operation) and
a client is not killed in the middle of sending; short requests are the subject
of `servidor_cortada`. And of GET_FILE only the called side is here: a peer is
not one of `Clientes` but anybody who calls and goes away, which is what may end
the listening thread by an exception. `Leido` is what the server's 256-byte
buffer makes of a name: the client lets a name of 256 characters pass (71), so
that two names may be one user. A DISCONNECT carries no address; `dato` keeps,
as history, the socket of the session that asks.

The code does not keep sessions and records together in every case, and the
properties name the cases in which it does not:

- `dudosos`, history, holds the users of whom two CONNECTs have both found no
  record (259) and will both create it (268): then both are answered 0, or the
  DISCONNECT of one removes the record of the other. It also holds those of
  whom some DISCONNECT ended with an exception, because the server fell before
  it answered or because `shutdown` failed after it had: the client keeps its
  session, its record may be gone, the user may connect elsewhere, and a second
  DISCONNECT removes that other record. Everything is claimed of the other
  users only.
- `expulsados`, history, holds the clients whose user has been unregistered
  since they asked for their session: by another client, or by their own under
  a name that is cut to the same user. Their DISCONNECT and QUIT are refused
  (325), and where the listening thread has ended by an exception (206) a
  refused QUIT ends the process and leaves the record. Only `OrphansExplained`
  uses it: sessions still have their record, and it is removed by its owner.

### Mensajes

| Code | Model |
|---|---|
| `sendMessage`, `message.c` 44-65 | `Manda` (the call), `Escribe` (one `write`), `Cierra` |
| `readLine`, `message.c` 5-42 | `Guarda`, `Devuelve`, `Final`, `Falla`: one `read` each |
| the connection | `canal`: bytes on their way; `abierto` |

An interrupted `read` is tried again and changes nothing. `write` may take any
number of bytes, none included: `sendMessage` goes on, as the code does (52).
The Python side is the same loop (`sendall`), and a `readLine` without a limit
and without a way out at the end (`client.py` 625-632). `flujo` and `inicio`
are history: the bytes of all messages, and where each begins.

At the end of the connection `readLine` returns what it has stored of a line
just as it returns a line (27-31, 41-42), and its callers test for -1 only. So
`Final` adds that part to `lineas`, and `Buzon` allows it (`Corte`), once and as
the last line. For `Servidor` such a request is one that names another user or
file, with the fields after it as `llega` says.

## What the runs check

| Run | Result | States | Shows |
|---|---|---|---|
| `handoff` | passes | 118,613 | types; `DescriptorServedOnce`; `NoLostWakeup`; `ArgsStableUntilCopied`; the inductive invariant `HandoffInv`; `HandoffEnds` and `ThreadFinishes` under fairness |
| `handoff_ip` | violated | | `IpIsOwn` (56, 269): the address a thread records may be that of a later client |
| `handoff_sigint` | violated | | `SigintTerminates` (35): `pthread_cond_destroy` blocks on the interrupted `main` |
| `servidor` | passes | 116,996 | types; `CreatesOnlyNew`; `ImplementsDirectorio`, with falls and restarts, if requests in progress do not concern the same names |
| `servidor_solapan` | passes | 408,853 | `EmptyHasWriter` and `DescriptionsSwept` with overlapping requests, the empty name and connections that end at once |
| `listados` | passes | 922,772 | types; `StableListed` and `StableFound`: whatever comes and goes meanwhile, a record that stays is listed once and rightly, and found |
| `listados_codigo` | violated | | `ListingSucceeds` (686): a LIST_CONTENT without results answers with the code an earlier request left |
| `listados_ajeno` | violated | | `RecordPrinted` (813, 655): a user whose record is not written yet is listed with the address of another |
| `cliente` | passes | 269,916 | types; `CallsMatch`: whom a thread serves or a queue holds is in a call, once; `OneListener`; `GetFileEnds` and `QuitEnds` under fairness, with the two exceptions the code has |
| `sistema` | passes | 1,089,510 | types; `SessionHasRecord`; `RemovedByOwner`; `OrphansExplained`: sessions and records agree through overlapping requests of one user, lost answers, requests that outlive their client, falls and restarts, but for the races and exceptions above; a record is left without its session by a fall, a kill, or a user unregistered from elsewhere, and by nothing else |
| `servidor_carrera` | violated | | `CreatesOnlyNew` (123, 257, 356) when requests overlap |
| `servidor_cortada` | violated | | `UnregistersWhoWasNamed` (client.py 98) when a short request runs on a reused stack |

The violated properties are statements of the repository's own comments; each
is a finding in `PROJECT.json`, and the ones about SIGINT, overlapping
REGISTER, short UNREGISTER and the code of LIST_CONTENT were also seen in a
build of `servidor.c`.

### Bounds

Two threads are enough for every pairing in the code: a thread that serves and
one that is being handed over (the third actor is `main`), or two requests
whose file calls interleave. Three descriptors let `main` accept while both
threads are busy, or run out of them. Two addresses tell an own address from a
foreign one. Two users and one published name give requests that share nothing,
only the user or only the publication; two ports make a replaced record
visible. `servidor_solapan` takes one user, so that requests collide always,
and adds the empty name. `listados` takes one thread that changes the tables
and one that reads: requests that read do not disturb each other, and several
changes may happen between two steps of the reader. One of its two users
deletes and disconnects, also with the empty name, so that the directory of
publications may go; each has a port of her own, to tell an own from a foreign
address. In `cliente` two clients call each other, or themselves, and two ports
let a client connect anew while a thread of the session before is still
serving; a queue of two holds a caller and one who is gone. `sistema` takes two
threads of the server, so that the request of a dead client runs beside one of
its successor; its two names are written as two bytes and read in a buffer of
two, which cuts them to one user. It stops where that user enters `dudosos`
(the constraint `SinDudas`): the set never shrinks, so that no property asks
anything of the states after it. No counter needs a bound. The number of
requests, of falls and of restarts is not limited.

Threads and ports are interchangeable in `servidor` and `servidor_solapan`, and
in the first users too: they use symmetry, and `sistema` does on threads, clients, ports
and names, which `Leido` maps to the same user. The other runs use none:
`handoff` and `cliente` check liveness.

### Deadlock

It is checked in the runs of `Servidor` and `Listados`, which can always
restart, and of `Cliente` and `Sistema`, where a process can always be started
or killed; it is off in those of `Handoff`, where the process may have exited
or be blocked in the handler. That nobody waits on others for ever without a
fall is the subject of `GetFileEnds` and `QuitEnds`.

### Fairness

`Handoff!FairSpec`: `main` and the
handler run when they can; `pthread_create` succeeds or fails; a thread that
has the mutex copies; a request is served in the end (weak fairness). The
thread's lock has strong fairness: `main` gives up the mutex when it waits, and
only spurious wakeups without end could take it away each time. Nothing forces
a client to connect, SIGINT to come, or `cond_wait` to wake spuriously.
`ThreadFinishes` depends on the assumption that requests are served: the
log server answers and the client sends its request or goes away.

`Cliente!FairCSpec`: each thread of a client runs when it can (weak fairness):
the shell in the steps it takes on its own, the thread that listens, and those
whose socket has been shut. Nobody has to give a command, the server need not
answer, and no process has to end. A caller in a queue is served because the
thread's next `accept` takes the first of the queue, and the thread comes back
to it: unless it ended with an exception (206) or reads from a caller who is
gone (627). These are the exceptions that `GetFileEnds` and `QuitEnds` name. A
caller already "colgado" counts as done: it will not return, and no property
says that it does. What is claimed is that there is no other way to wait for
ever in a call.

## What is proved

For every set of threads, descriptors, addresses, users, ports, names, clients
and requests, from the named assumptions on constants (`HandoffAssumption`,
`ServidorAssumption`, `ListadosAssumption`, `ClienteAssumption`,
`SistemaAssumption`, `MensajesAssumption`: the sentinels differ from the
values, requests are well-formed, a buffer turns a name into a user, messages
hold no terminator). Where a theorem needs more, it says so as an hypothesis.

- `HandoffProofs`: `HandoffCorrect` (`Spec => []HandoffInv`), and from it
  `TypeCorrect`, `ServedOnce`, `WakeupKept` and `ArgsStable`. That no
  descriptor is served twice is not inductive: one has to know that at most one
  thread has yet to copy, that the flag is up exactly then while `main` is in
  the second half of its loop (`FlagAgrees`), that the mutex separates the test
  of the flag from the copy (`MutexHeld`), and that the descriptor on its way
  in `sd_client` and `args_thread` is open and served by nobody (`InTransit`).
  The handler may destroy the mutex: the proof shows that this does not matter,
  because `main` never runs again.
- `ServidorProofs`: `ServidorCorrect` (`Spec => []ServidorInv`), and from it
  `TypeCorrect`, `EmptyIsPassing` and `DescriptionsPass`. The strengthening is
  `ConectaBien`: a thread that writes a connection record has a user's name and
  a port. Most steps are those of a thread that is in none of the sets the
  invariant speaks of (`Aparte`), and `LookKeeps` settles them at once. The
  theorems hold with and without overlapping requests, short requests and
  reused stacks.
- `MensajesProofs`: `MensajesCorrect` (`Spec => []MInv`), from it
  `LinesFaithful`, and `MensajesImplementsBuzon`, the refinement: for messages
  and buffers of any length, however `write` cuts them, and wherever the
  connection ends, each line is its message, and only the last may be no more
  than the beginning of its message. That the lines are the messages is not inductive: one has to
  know that the bytes read, those in the channel and those not written are one
  stream (`CableIntacto`), that it consists of the messages one after the other
  (`TramasSeguidas`), and that the reader stands within the message whose turn
  it is, with its beginning in the buffer (`EnTurno`). A terminator can then
  only be the end of that message (`ByteEnTurno`). `MCMensajes.cfg` is a small
  instance (24,773 states) to try a change of `Mensajes` on before proving it;
  it is not among the runs above, since the proofs cover it.
- `DirectorioProofs`: `SeparaCorrect` (`Spec => []SeparaInv`), and from it
  `DirectorioImplemented`, the refinement. The hypothesis
  is `ClientesSeparados`: requests are whole and name what their operation
  needs, those in progress concern different users and publications
  (`Solapan = FALSE`), the directories exist, and no published name is that of
  another's description file. These are the conditions of the run `servidor`;
  without them the code does not implement `Directorio`: `servidor_carrera`
  shows two requests that both find no record and both create it. That a
  step of the code is a step of the directory follows only if what the thread
  found with `fopen` still holds when it acts (`Sabe`), if nobody else has its
  record open, and if the position in the code belongs to the operation asked
  (`Sirviendo`). A fall is the hard case: each record that was open is put on
  disk or not, and the proof names the set of lost ones that `Cae` chooses.
- `ListadosProofs`: `ListadosTypes` holds without any hypothesis.
  `ListadosCorrect` (`LSpec => []ListadosInv`), `StableIsListed` and
  `StableIsFound` assume `PeticionesEnteras`: whole requests, those in progress
  concerning different names. The empty name, missing directories and
  publications with the name of a description file are allowed. The hypothesis
  is needed because two CONNECTs of one user write over each other's record:
  the file stays and its contents do not. What makes the readers right is a
  property of the writers' steps, `RegistrosQuedan`: a written record does not
  change except by its removal. It rests on `EscriturasInv`: whoever creates a
  record finds none. Then `Fijo` (what a reader remembers of the files that
  stay is what is there), `Listado` and `Hallado` (what it has listed or found
  agrees with it) are kept by each entry that `readdir` returns.
- `ClienteProofs`: `ClienteInvariant` (`CSpec => []ClienteInv`), and from it
  `ClienteTypes`, `CallsAlwaysMatch` and `OneListenerEver`. A call that matches
  could be taken from the queue twice, so that one has to know that a caller
  stands at one place of one queue (`EnUnaCola`); a session that begins could
  meet a thread of the one before, so that a CONNECT in progress has a socket of
  its own and no session (`Conectandose`, `SocketPropio`), and a thread that
  has not started yet has a socket on which nobody can call (`ArrancaSorda`).
  Nothing is assumed of the server's answers.
- `SistemaProofs`: `SistemaInvariant` (`SSpec => []SistemaInv`), and from it
  `SistemaTypes`, `SessionsHaveRecords`, `RecordsRemovedByOwner` and
  `OrphansAlwaysExplained`. That a session has its record is not inductive: a
  request left by a client that died could remove it, and the record of a
  CONNECT belongs to nobody while the server makes it and the answer is on its
  way. So `DuenosInv` says whom the record of a user belongs to, between any two
  calls of the server: one session, or one request - a CONNECT that has found no
  record, makes it, or has made it and is not answered; a DISCONNECT about to
  remove it - which knows what the record holds; never two, except a session and
  its own DISCONNECT. It is claimed of the users outside `dudosos` alone: there,
  a second CONNECT that finds no record is what would make two. `EnlaceInv` is
  where the two sides meet: a client waits exactly while a thread has its
  request, and it is the one it sent. `RegistroInv` (the user of a session is
  registered, unless it lost that since) and `RechazoInv` (no DISCONNECT is
  refused otherwise) are what an end of the process in order needs, so that the
  ways of `OrphansExplained` are all there are. Nothing is assumed about
  requests that overlap. The invariants of `ClienteProofs` are used as they are.

Trying to prove the refinement changed the models in two places.
`Directorio!Codigo` had a CASE whose guards overlapped, so that the answer to,
say, a PUBLISH of a user who is not registered was left to the choice that TLC
makes; the guards are now disjoint, in the order in which the code looks. And
the assumptions say that the markers for "none" are no request and no thread.

Only model-checked: the liveness properties `HandoffEnds`, `ThreadFinishes`,
`GetFileEnds` and `QuitEnds`, which are out of the prover's reach, as is all
that needs ENABLED; and `CreatesOnlyNew`, which holds only without overlap.

## Not modelled

- *Open files of the server.* Every branch that forgets an `fclose` leaves a
  fixed number of files open, whatever happens around it, so the count only
  grows: the property one would want, a bound by the requests in progress,
  fails in one step, and there is nothing else to check. What `accept` does
  without descriptors is in `Handoff`.
- *Contents and texts*: of files, of descriptions, of the terminal. Descriptions
  take no part in any decision.
- *Date service, generated stubs, `backups_rpc/`, build files*: no state.
- *Short requests, publications and the calling side of GET_FILE within
  `Sistema`*: they are in `Servidor` and in `Cliente`, each with everything the
  other side may do.
