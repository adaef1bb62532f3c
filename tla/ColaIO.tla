------------------------------- MODULE ColaIO -------------------------------
(***************************************************************************)
(* The input and output of the kernel: the list of devices, the queue of   *)
(* the processes that wait for one, the thread that serves the queue, the  *)
(* thread that accepts devices, the thread of each device, and the device. *)
(* Devices come and go, and several may share a name.                      *)
(*                                                                         *)
(* Planificacion has the lists a process is in; here it is in EXEC (or on  *)
(* its way back there), in BLOCKED (or SUSP_BLOCKED, where the end of an IO *)
(* finds it as well) or in EXIT. A step is what a thread does between two  *)
(* points where another can see it; a list operation is one step.          *)
(***************************************************************************)
EXTENDS Integers, SequencesExt, FiniteSetsExt

CONSTANTS
  Pids,          \* processes. The first pid is 1: pid 0 is no process
  Dispositivos,  \* devices, each a connection (its fd_io)
  Nombre,        \* id_io of each device
  Nombres,       \* names a process may ask for
  Nadie,         \* proceso_en_ejecucion = 0; fd -1; operation code -1
  Pedidos,       \* bound: IO calls of each process
  Entornos       \* what the environment may do, see EntornosPosibles

\* estan: the devices connected before the first call, in order. vienen: those
\* that connect later. caen: those that may disconnect. carrera: they may do so
\* while atender_cola_espera goes through the queue. quita: even when that takes
\* an entry out of the queue, which nothing in the code prevents.
EntornosPosibles ==
  [estan : Seq(Dispositivos), vienen : SUBSET Dispositivos,
   caen : SUBSET Dispositivos, carrera : BOOLEAN, quita : BOOLEAN]

ASSUME ConstantesColaOK ==
  /\ Nombre \in [Dispositivos -> Nombres]
  /\ Nadie \notin Pids \cup Dispositivos \cup Nombres
  /\ Pedidos \in [Pids -> Nat]
  /\ IsFiniteSet(Dispositivos)
  /\ Entornos \subseteq EntornosPosibles
  /\ \A e \in Entornos : IsInjective(e.estan) /\ (e.quita => e.carrera /\ e.caen # {})

VARIABLES
  entorno,     \* member of Entornos, fixed
  lista_IO,    \* devices listed, in the order in which they connected
  proceso,     \* proceso_en_ejecucion of each (esta_ocupado iff not Nadie)
  cola,        \* lista_procesos_en_cola
  binario,     \* binario_IO
  estado,      \* list each process is in
  sys,         \* call of each process in the thread of its CPU
  quedan,      \* IO calls each process may still make
  barrido,     \* thread of atender_cola_espera: where, at which index, nodo_actual
  mutex_ios,   \* device whose thread holds it from one step to another
  hilo,        \* kernel thread of each device
  aDev, deDev, \* sockets kernel -> device, device -> kernel
  conexion     \* each device: "fuera", "viva", "caida"

procVars == <<estado, sys, quedan>>
colaVars == <<cola, binario, barrido>>
listaVars == <<lista_IO, proceso, mutex_ios>>
devVars == <<aDev, deDev, conexion>>
vars == <<entorno, procVars, colaVars, listaVars, hilo, devVars>>

Llamado(n) == {d \in Range(lista_IO) : Nombre[d] = n}
existe_io(n) == Llamado(n) # {}
hay_alguno_libre_io(n) == \E d \in Llamado(n) : proceso[d] = Nadie

\* What nodo_actual reads as when it is no entry, or one that has been freed.
Basura == [pid |-> Nadie, n |-> Nadie]
Quieto == [en |-> "espera", i |-> 0, x |-> Basura]
SinLlamada(p) == [sys EXCEPT ![p] = [en |-> "nada", n |-> Nadie]]

\* EXIT_PID takes the process out of EXEC, BLOCKED or SUSP_BLOCKED. Pid 0 and a
\* process that has ended are refused by the memory.
EXIT_PID(p) == estado' = [q \in Pids |-> IF q = p THEN "EXIT" ELSE estado[q]]

-----------------------------------------------------------------------------
(* SYS_COMIENZO_IO, in the thread of the CPU of the process.                 *)

SysComienzoIO(p, n) ==
  /\ mutex_ios = Nadie
  /\ estado[p] = "EXEC" /\ sys[p].en = "nada" /\ quedan[p] > 0
  /\ quedan' = [quedan EXCEPT ![p] = @ - 1]
  /\ \/ existe_io(n) /\ sys' = [sys EXCEPT ![p] = [en |-> "bloquea", n |-> n]]
                     /\ UNCHANGED estado
     \/ ~existe_io(n) /\ EXIT_PID(p) /\ UNCHANGED sys
  /\ UNCHANGED <<entorno, colaVars, listaVars, hilo, devVars>>

\* It looks for the process in EXEC; the queue gets it either way.
exec_a_blocked(p) ==
  /\ sys[p].en = "bloquea"
  /\ estado' = [estado EXCEPT ![p] = IF @ = "EXEC" THEN "BLOCKED" ELSE @]
  /\ sys' = [sys EXCEPT ![p].en = "encola"]
  /\ UNCHANGED <<entorno, quedan, colaVars, listaVars, hilo, devVars>>

\* The queue is locked while atender_cola_espera goes through it.
agregar_a_cola_por_IO(p) ==
  /\ sys[p].en = "encola"
  /\ barrido.en = "espera"
  /\ cola' = Append(cola, [pid |-> p, n |-> sys[p].n])
  /\ binario' = binario + 1
  /\ sys' = SinLlamada(p)
  /\ UNCHANGED <<entorno, estado, quedan, barrido, listaVars, hilo, devVars>>

-----------------------------------------------------------------------------
(* atender_cola_espera: one token, one pass over the queue, at most one      *)
(* process served or ended.                                                  *)

\* The head of the loop: list_size and list_get.
Sigue(i) ==
  IF i > Len(cola) THEN Quieto ELSE [en |-> "existe", i |-> i, x |-> cola[i]]

\* Mutant of SinEntrada: the first entry is removed, whichever was served.
SinEntrada_primera(i) == IF cola = <<>> THEN cola ELSE Tail(cola)

\* list_remove, by index: past the end it takes nothing.
SinEntrada(i) == IF i \in DOMAIN cola THEN RemoveAt(cola, i) ELSE cola

\* eliminar_nodo_io reads and shrinks the queue with mutex_ios only. Where the
\* environment does not say "quita" it is let do so between two passes.
SinBarrido == barrido.en = "espera" \/ entorno.quita

\* Mutant of BarridoDespierta: the semaphore is not waited for.
BarridoDespierta_sin_esperar ==
  /\ barrido.en = "espera" /\ (mutex_ios = Nadie \/ entorno.quita)
  /\ binario' = binario - 1
  /\ barrido' = Sigue(1)
  /\ UNCHANGED <<entorno, procVars, cola, listaVars, hilo, devVars>>

\* The code does not ask for mutex_ios here: it is SinBarrido from the other side.
BarridoDespierta ==
  /\ barrido.en = "espera" /\ (mutex_ios = Nadie \/ entorno.quita)
  /\ binario > 0
  /\ binario' = binario - 1
  /\ barrido' = Sigue(1)
  /\ UNCHANGED <<entorno, procVars, cola, listaVars, hilo, devVars>>

\* The process is that of nodo_actual, the entry removed that of the index.
BarridoExiste ==
  /\ barrido.en = "existe" /\ mutex_ios = Nadie
  /\ IF existe_io(barrido.x.n) THEN /\ barrido' = [barrido EXCEPT !.en = "libre"]
                                    /\ UNCHANGED <<estado, cola>>
     ELSE /\ EXIT_PID(barrido.x.pid)
          /\ cola' = SinEntrada(barrido.i)
          /\ barrido' = Quieto
  /\ UNCHANGED <<entorno, sys, quedan, binario, listaVars, hilo, devVars>>

\* Mutant of BarridoLibre: only the first of the queue is looked at.
BarridoLibre_sin_seguir ==
  /\ barrido.en = "libre" /\ mutex_ios = Nadie
  /\ barrido' = IF hay_alguno_libre_io(barrido.x.n)
                THEN [barrido EXCEPT !.en = "ocupa"] ELSE Quieto
  /\ UNCHANGED <<entorno, procVars, cola, binario, listaVars, hilo, devVars>>

BarridoLibre ==
  /\ barrido.en = "libre" /\ mutex_ios = Nadie
  /\ barrido' = IF hay_alguno_libre_io(barrido.x.n)
                THEN [barrido EXCEPT !.en = "ocupa"] ELSE Sigue(barrido.i + 1)
  /\ UNCHANGED <<entorno, procVars, cola, binario, listaVars, hilo, devVars>>

\* ocupar_io: the first free device of that name; Nadie (fd -1) if it has gone.
Primero(n) ==
  LET libre == {i \in DOMAIN lista_IO :
                  Nombre[lista_IO[i]] = n /\ proceso[lista_IO[i]] = Nadie}
  IN IF libre = {} THEN Nadie ELSE lista_IO[Min(libre)]

\* What is sent to a device that has gone, or to fd -1, is lost. The search, the
\* message and the list_remove that follows are one step.
BarridoOcupa ==
  /\ barrido.en = "ocupa" /\ mutex_ios = Nadie
  /\ LET x == barrido.x
         d == Primero(x.n)
     IN IF d = Nadie THEN UNCHANGED <<proceso, aDev>>
        ELSE /\ proceso' = [proceso EXCEPT ![d] = x.pid]
             /\ aDev' = IF conexion[d] # "viva" THEN aDev
                        ELSE [aDev EXCEPT ![d] = Append(@, x.pid)]
  /\ cola' = SinEntrada(barrido.i)
  /\ barrido' = Quieto
  /\ UNCHANGED <<entorno, procVars, binario, lista_IO, mutex_ios, hilo, deDev,
                 conexion>>

-----------------------------------------------------------------------------
(* Devices come: manejar_conexiones_ios, one at a time.                      *)

\* conectar_io: the device is listed, with no lock, before it has a thread.
conectar_io(d) ==
  /\ d \in entorno.vienen /\ conexion[d] = "fuera"
  /\ \A e \in Dispositivos : hilo[e] # "acepta"
  /\ conexion' = [conexion EXCEPT ![d] = "viva"]
  /\ lista_IO' = Append(lista_IO, d)
  /\ hilo' = [hilo EXCEPT ![d] = "acepta"]
  /\ UNCHANGED <<entorno, procVars, colaVars, proceso, mutex_ios, aDev, deDev>>

CreaHilo(d) ==
  /\ hilo[d] = "acepta"
  /\ hilo' = [hilo EXCEPT ![d] = "espera"]
  /\ binario' = binario + 1
  /\ UNCHANGED <<entorno, procVars, cola, barrido, listaVars, devVars>>

-----------------------------------------------------------------------------
(* The device: atender_io_kernel.                                            *)

Termina(d) ==
  /\ conexion[d] = "viva" /\ aDev[d] # <<>>
  /\ deDev' = [deDev EXCEPT ![d] = Append(@, Head(aDev[d]))]
  /\ aDev' = [aDev EXCEPT ![d] = Tail(@)]
  /\ UNCHANGED <<entorno, procVars, colaVars, listaVars, hilo, conexion>>

\* The device ends, in the middle of an IO or not. What it had sent arrives.
SeCae(d) ==
  /\ d \in entorno.caen /\ conexion[d] = "viva"
  /\ conexion' = [conexion EXCEPT ![d] = "caida"]
  /\ aDev' = [aDev EXCEPT ![d] = <<>>]
  /\ deDev' = [deDev EXCEPT ![d] = Append(@, Nadie)]
  /\ UNCHANGED <<entorno, procVars, colaVars, listaVars, hilo>>

-----------------------------------------------------------------------------
(* The thread of a device: atender_kernel_io.                                *)

\* FIN_IO: blocked_a_ready finds the process if it is still blocked.
AtiendeFin(d) ==
  /\ hilo[d] = "espera" /\ deDev[d] # <<>> /\ Head(deDev[d]) # Nadie
  /\ deDev' = [deDev EXCEPT ![d] = Tail(@)]
  /\ estado' = [p \in Pids |-> IF p = Head(deDev[d]) /\ estado[p] = "BLOCKED"
                               THEN "EXEC" ELSE estado[p]]
  /\ hilo' = [hilo EXCEPT ![d] = "libera"]
  /\ UNCHANGED <<entorno, sys, quedan, colaVars, listaVars, aDev, conexion>>

\* Mutants of liberar_io: the process stays noted; nobody is told.
liberar_io_sin_limpiar(d) ==
  /\ hilo[d] = "libera" /\ mutex_ios = Nadie
  /\ binario' = binario + 1
  /\ hilo' = [hilo EXCEPT ![d] = "espera"]
  /\ UNCHANGED <<entorno, procVars, cola, barrido, listaVars, devVars>>

liberar_io_sin_post(d) ==
  /\ hilo[d] = "libera" /\ mutex_ios = Nadie
  /\ proceso' = [proceso EXCEPT ![d] = Nadie]
  /\ hilo' = [hilo EXCEPT ![d] = "espera"]
  /\ UNCHANGED <<entorno, procVars, colaVars, lista_IO, mutex_ios, devVars>>

liberar_io(d) ==
  /\ hilo[d] = "libera" /\ mutex_ios = Nadie
  /\ proceso' = [proceso EXCEPT ![d] = Nadie]
  /\ binario' = binario + 1
  /\ hilo' = [hilo EXCEPT ![d] = "espera"]
  /\ UNCHANGED <<entorno, procVars, cola, barrido, lista_IO, mutex_ios, devVars>>

\* The first device of the name in the whole list, which d itself is in.
coincide_nombre_io(n) ==
  \E d \in Llamado(n) :
    /\ \A e \in Llamado(n) : Min({i \in DOMAIN lista_IO : lista_IO[i] = d})
                             <= Min({i \in DOMAIN lista_IO : lista_IO[i] = e})
    /\ proceso[d] = Nadie

EnColaPor(n) == {i \in DOMAIN cola : cola[i].n = n}

\* eliminar_nodo_io begins: the mutex, the name, and the process being served.
Desconecta(d) ==
  /\ hilo[d] = "espera" /\ deDev[d] # <<>> /\ Head(deDev[d]) = Nadie
  /\ mutex_ios = Nadie
  /\ LET coincide == coincide_nombre_io(Nombre[d])
     IN /\ \/ SinBarrido
           \/ entorno.carrera /\ (coincide \/ EnColaPor(Nombre[d]) = {})
        /\ hilo' = [hilo EXCEPT ![d] = IF coincide THEN "saca" ELSE "expulsa"]
  /\ EXIT_PID(proceso[d])
  /\ deDev' = [deDev EXCEPT ![d] = Tail(@)]
  /\ mutex_ios' = d
  /\ UNCHANGED <<entorno, sys, quedan, colaVars, lista_IO, proceso, aDev, conexion>>

\* Mutant of ExpulsaDeLaCola: its entry is left in the queue.
ExpulsaDeLaCola_sin_sacar(d) ==
  /\ hilo[d] = "expulsa"
  /\ LET S == EnColaPor(Nombre[d])
     IN IF S = {} THEN UNCHANGED <<cola, estado, barrido>>
        ELSE /\ SinBarrido
             /\ EXIT_PID(cola[Min(S)].pid)
             /\ UNCHANGED <<cola, barrido>>
  /\ hilo' = [hilo EXCEPT ![d] = "saca"]
  /\ UNCHANGED <<entorno, sys, quedan, binario, listaVars, devVars>>

\* The first process of the queue that asked for that name, and no other. Its
\* entry is freed: a pass that has it in hand (told by its value) reads it as it was
\* or as rubbish, or the kernel falls there: a behaviour that stops.
ExpulsaDeLaCola(d) ==
  /\ hilo[d] = "expulsa"
  /\ LET S == EnColaPor(Nombre[d])
         x == cola[Min(S)]
     IN IF S = {} THEN UNCHANGED <<cola, estado, barrido>>
        ELSE /\ SinBarrido
             /\ EXIT_PID(x.pid)
             /\ cola' = RemoveAt(cola, Min(S))
             /\ \/ UNCHANGED barrido
                \/ barrido.x = x /\ barrido' = [barrido EXCEPT !.x = Basura]
  /\ hilo' = [hilo EXCEPT ![d] = "saca"]
  /\ UNCHANGED <<entorno, sys, quedan, binario, listaVars, devVars>>

SacaDispositivo(d) ==
  /\ hilo[d] = "saca"
  /\ lista_IO' = RemoveFirst(lista_IO, d)
  /\ proceso' = [proceso EXCEPT ![d] = Nadie]
  /\ mutex_ios' = Nadie
  /\ binario' = binario + 1
  /\ hilo' = [hilo EXCEPT ![d] = "fin"]
  /\ UNCHANGED <<entorno, procVars, cola, barrido, devVars>>

-----------------------------------------------------------------------------
Init ==
  /\ entorno \in Entornos
  /\ lista_IO = entorno.estan /\ cola = <<>> /\ binario = 0
  /\ proceso = [d \in Dispositivos |-> Nadie]
  /\ estado = [p \in Pids |-> "EXEC"]
  /\ sys = [p \in Pids |-> [en |-> "nada", n |-> Nadie]]
  /\ quedan = Pedidos
  /\ barrido = Quieto
  /\ mutex_ios = Nadie
  /\ hilo = [d \in Dispositivos |->
              IF Contains(entorno.estan, d) THEN "espera" ELSE "fin"]
  /\ aDev = [d \in Dispositivos |-> <<>>] /\ deDev = aDev
  /\ conexion = [d \in Dispositivos |->
                  IF Contains(entorno.estan, d) THEN "viva" ELSE "fuera"]

Llamada(p) == exec_a_blocked(p) \/ agregar_a_cola_por_IO(p)
Barrido == BarridoDespierta \/ BarridoExiste \/ BarridoLibre \/ BarridoOcupa
HiloIO(d) == \/ CreaHilo(d) \/ AtiendeFin(d) \/ liberar_io(d) \/ Desconecta(d)
             \/ ExpulsaDeLaCola(d) \/ SacaDispositivo(d)

Next ==
  \/ \E p \in Pids : Llamada(p) \/ \E n \in Nombres : SysComienzoIO(p, n)
  \/ Barrido
  \/ \E d \in Dispositivos : \/ HiloIO(d) \/ Termina(d)
                             \/ conectar_io(d) \/ SeCae(d)

Spec == Init /\ [][Next]_vars

\* The threads of the kernel and the sleeps of the devices, taken together, do not
\* stop while one can go on. Calls are bounded, so nothing more is needed; nothing
\* obliges a process to ask, nor a device to connect or to go.
Avance == \/ \E p \in Pids : Llamada(p)
          \/ Barrido
          \/ \E d \in Dispositivos : HiloIO(d) \/ Termina(d)

FairSpec == Spec /\ WF_vars(Avance)

-----------------------------------------------------------------------------
\* Ends of IO not read yet: the end of the connection comes after them.
Fines(d) ==
  IF deDev[d] # <<>> /\ Last(deDev[d]) = Nadie THEN Front(deDev[d]) ELSE deDev[d]

\* What a device has of the kernel: requests it has not served, ends not read.
EnCurso(d) == aDev[d] \o Fines(d)

\* Noted in a device that went in the middle of it, its end not read yet.
Cortado(d, p) == /\ proceso[d] = p /\ conexion[d] = "caida"
                 /\ hilo[d] \in {"acepta", "espera"} /\ deDev[d] = <<Nadie>>

\* Where the request of a process is: whoever has it will answer for it.
Pendientes(p) ==
  Cardinality({i \in DOMAIN cola : cola[i].pid = p})
  + Cardinality({d \in Dispositivos : Contains(EnCurso(d), p) \/ Cortado(d, p)})
  + (IF sys[p].en = "encola" THEN 1 ELSE 0)

Reposo == /\ barrido.en = "espera" /\ binario = 0
          /\ \A d \in Dispositivos : hilo[d] \notin {"acepta", "expulsa", "saca"}

\* Every variable has its type: the tokens are never less than none, and the list
\* of devices has none twice.
ColaTypeOK ==
  /\ entorno \in Entornos
  /\ lista_IO \in Seq(Dispositivos) /\ IsInjective(lista_IO)
  /\ proceso \in [Dispositivos -> Pids \cup {Nadie}]
  /\ cola \in Seq([pid : Pids, n : Nombres])
  /\ binario \in Nat
  /\ estado \in [Pids -> {"EXEC", "BLOCKED", "EXIT"}]
  /\ sys \in [Pids -> [en : {"nada", "bloquea", "encola"}, n : Nombres \cup {Nadie}]]
  /\ \A p \in Pids : quedan[p] \in 0 .. Pedidos[p]
  /\ \/ barrido = Quieto
     \/ barrido \in [en : {"existe", "libre", "ocupa"}, i : Nat \ {0},
                     x : [pid : Pids, n : Nombres] \cup {Basura}]
  /\ mutex_ios \in Dispositivos \cup {Nadie}
  /\ hilo \in [Dispositivos -> {"acepta", "espera", "libera", "expulsa", "saca", "fin"}]
  /\ aDev \in [Dispositivos -> Seq(Pids)]
  /\ deDev \in [Dispositivos -> Seq(Pids \cup {Nadie})]
  /\ conexion \in [Dispositivos -> {"fuera", "viva", "caida"}]

\* A blocked process has one request, in the queue or in one device, and no other
\* process has any: nobody is forgotten, served twice or woken for an old request.
\* When a device goes in the middle of a pass a request may be lost (ocupar_io
\* finds no device and the entry is removed all the same), never duplicated. When
\* that takes an entry out of the queue under the pass nothing of this is left
\* (QuitaLaSuya).
UnPedido ==
  ~entorno.quita => \A p \in Pids :
    IF estado[p] # "BLOCKED" THEN Pendientes(p) = 0
    ELSE Pendientes(p) = 1 \/ (entorno.carrera /\ Pendientes(p) = 0)

\* proceso_en_ejecucion agrees with the device, two sockets away: a device has one
\* request at most, that of the process noted, and a device that is connected and
\* has none is free, or about to be.
AnotadoLoQueHace ==
  \A d \in Dispositivos :
    /\ EnCurso(d) \in {<<>>, <<proceso[d]>>}
    /\ conexion[d] = "viva" /\ EnCurso(d) = <<>> /\ proceso[d] # Nadie
         => hilo[d] = "libera"

\* One token per event and one process per token are enough: when the thread of
\* the queue has nothing to do, no process waits for a free device.
NadieEsperaPorUnoLibre ==
  entorno.caen = {} /\ Reposo =>
    \A i \in DOMAIN cola : ~hay_alguno_libre_io(cola[i].n)

\* kernel_manejo_ios.c:89, "Si no hay mas dispositivos con ese nombre, manda a los
\* procesos en cola a EXIT": with nothing left to do, nobody waits for a name that
\* no device has.
EsperaPorAlgoQueExiste ==
  Reposo => \A i \in DOMAIN cola : existe_io(cola[i].n)

\* kernel_manejo_ios.c:178, "Elimina el nodo" (and 168): the entry that a pass
\* removes is that of the process it has served or ended, and it removes no other.
\* False when a device takes an entry out under the pass: the entries move up.
QuitaLaSuya ==
  [][~entorno.quita /\ barrido.en \in {"existe", "ocupa"} /\ barrido'.en = "espera"
       => /\ ~Contains(cola', barrido.x)
          /\ \A k \in DOMAIN cola : cola[k] # barrido.x => Contains(cola', cola[k])]_vars

\* Without disconnections every process that blocks comes back.
TodosVuelven ==
  entorno.caen = {} =>
    \A p \in Pids : estado[p] = "BLOCKED" ~> estado[p] # "BLOCKED"
=============================================================================
