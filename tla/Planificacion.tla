--------------------------- MODULE Planificacion ---------------------------
(***************************************************************************)
(* The scheduling core of the kernel (planificadores.c and the handlers    *)
(* that call it): the seven process queues, the long and short term        *)
(* planner threads, one dispatch thread per CPU, the thread that reads the *)
(* answers of the memory, one thread per IO device and one timer thread    *)
(* per time a process blocks.                                              *)
(*                                                                         *)
(* A step is what one thread does between two points where another thread  *)
(* can see it: a mutex section, a semaphore operation or a socket send.    *)
(* sem_post is folded into the section before it and sem_wait into the     *)
(* test after it: neither can disable a step of another thread.            *)
(*                                                                         *)
(* The CPUs, the memory and the devices are the environment: only what     *)
(* they send to the kernel is kept.                                        *)
(***************************************************************************)
EXTENDS Integers, SequencesExt

CONSTANTS
  MaxPid,          \* bound: processes ever created
  MaxPc,           \* bound: instructions of a program that are system calls
  CPUs,            \* CPU modules, each with its dispatch thread in the kernel
  CpusAlInicio,    \* those connected before the operator presses enter, in order
  Ios,             \* devices (all of one name), each with its thread
  Nadie,           \* NULL
  Tamanio,         \* pages of each process, 0 included
  Capacidad,       \* pages of the memory
  PMCP,            \* ALGORITMO_INGRESO_A_READY: smallest first, else FIFO
  Instrucciones,   \* system calls the programs make, besides EXIT
  Carreras         \* what the environment may do early or wrong, see Entorno

Pids == 1..MaxPid
Hilos == {"main", "largo", "corto", "memoria"} \cup CPUs \cup Ios
Estados == {"NEW", "READY", "SUSP_READY"}
Grupos == {"EXEC", "BLOCKED", "SUSP_BLOCKED", "EXIT", "TIMER"}
Pedidos == {"CREAR", "DESUSPENDER", "FINALIZAR"}

\* A system call may arrive before its process is in EXEC; the answer to a dump
\* before its process is in BLOCKED; an end of IO or of dump while the timer is
\* suspending the process; the memory may fail to open a dump file.
Entorno == {"syscall", "dump", "timer", "falla_dump"}

ASSUME ConstantesOK ==
  /\ MaxPid \in Nat \ {0}
  /\ MaxPc \in Nat
  /\ CpusAlInicio \in Seq(CPUs) /\ IsInjective(CpusAlInicio)
  /\ Tamanio \in [Pids -> Nat]
  /\ Capacidad \in Nat
  /\ PMCP \in BOOLEAN
  /\ Instrucciones \subseteq {"IO", "IO_INEXISTENTE", "DUMP", "INIT_PROC"}
  /\ Carreras \subseteq Entorno
  /\ Nadie \notin Pids
  /\ CPUs \cap Ios = {}
  /\ (CPUs \cup Ios) \cap (Estados \cup Grupos \cup {"main", "largo", "corto", "memoria"}) = {}

VARIABLES
  cola,            \* lists whose order the planners use: NEW, READY, SUSP_READY
  lista,           \* lists only searched by pid; TIMER: taken by a timer thread
  siguientePid,    \* the global pid counter
  programCounter,  \* of each PCB
  largo, corto,    \* contador_replanificacion_largo / _corto
  hilo,            \* per thread: where it is, the process and pc it carries
  listaCPU,        \* connected CPUs in list order
  running,         \* nodoCPU.proceso_running (estado is OCUPADO iff not NULL)
  dormido, aviso,  \* timers of a process asleep / about to notify the memory
  aMemoria,        \* requests in the socket to the memory
  deMemoria,       \* answers in the socket from the memory
  respuesta,       \* shared flags respuesta_*_proceso
  binario,         \* semaphores binario_respuesta_*_proceso
  residencia,      \* memory side: is the process listed, has it frames, and
                   \* how many entries of procesos_en_swap it has
  cpu,             \* CPU side: process and pc being executed
  deCpu,           \* system calls in the dispatch socket of each CPU
  colaIO,          \* lista_procesos_en_cola
  enIO             \* per device: proceso_en_ejecucion

planVars == <<cola, lista, siguientePid, programCounter, largo, corto>>
cpuVars  == <<cpu, deCpu>>
memVars  == <<aMemoria, deMemoria, residencia>>
respVars == <<respuesta, binario>>
timerVars == <<dormido, aviso>>
ioVars   == <<colaIO, enIO>>
vars == <<planVars, hilo, listaCPU, running, timerVars, memVars, respVars,
          cpuVars, ioVars>>

-----------------------------------------------------------------------------
(* Threads *)

Parado(e) == [en |-> e, p |-> Nadie, pc |-> 0]

Va(t, e) == hilo' = [hilo EXCEPT ![t].en = e]
Queda(t, e) == hilo' = [hilo EXCEPT ![t] = Parado(e)]
VaCon(t, e, p, pc) == hilo' = [hilo EXCEPT ![t] = [en |-> e, p |-> p, pc |-> pc]]

\* Where each thread goes when the handler it runs returns.
Reposo(t) == IF t \in {"largo", "corto"} THEN "espera"
             ELSE IF t = "main" THEN "arranca" ELSE "recibe"

-----------------------------------------------------------------------------
(* Queues: list_add, list_remove_element and the agregar_a_* functions, each *)
(* with the sem_post it ends in.                                             *)

Saca(s, p) == RemoveFirst(s, p)

Agrega(c, q, p) == [c EXCEPT ![q] = Append(@, p)]

\* Mutant of Mueve: the list_remove is forgotten.
Mueve_sin_sacar(g, h, p) == [lista EXCEPT ![h] = @ \cup {p}]

\* The lists after p, a member of list g, is moved to group h.
Mueve(g, h, p) == [lista EXCEPT ![g] = @ \ {p}, ![h] = @ \cup {p}]

agregar_a_NEW(p) ==
  /\ cola' = Agrega(cola, "NEW", p)
  /\ largo' = largo + 1

\* Mutant of agregar_a_READY: the short term planner is not told.
agregar_a_READY_sin_post(p) ==
  /\ cola' = Agrega(cola, "READY", p)
  /\ UNCHANGED corto

agregar_a_READY(p) ==
  /\ cola' = Agrega(cola, "READY", p)
  /\ corto' = corto + 1

\* Mutant of agregar_a_SUSP_READY: the long term planner is not told.
agregar_a_SUSP_READY_sin_post(p) ==
  /\ cola' = Agrega(cola, "SUSP_READY", p)
  /\ UNCHANGED largo

agregar_a_SUSP_READY(p) ==
  /\ cola' = Agrega(cola, "SUSP_READY", p)
  /\ largo' = largo + 1

\* Mutant of agregar_a_EXIT: the long term planner is not told.
agregar_a_EXIT_sin_post(p) ==
  /\ lista' = [lista EXCEPT !["EXIT"] = @ \cup {p}]
  /\ corto' = corto + 1
  /\ UNCHANGED largo

agregar_a_EXIT(p) ==
  /\ lista' = [lista EXCEPT !["EXIT"] = @ \cup {p}]
  /\ largo' = largo + 1
  /\ corto' = corto + 1

-----------------------------------------------------------------------------
(* INIT_PROC, run by main before the planners start and by the dispatch      *)
(* threads for a SYS_INIT_PROC. The pid is taken under mutex_pid.            *)

init_proc_pid(t) ==
  /\ siguientePid \in Pids
  /\ siguientePid' = siguientePid + 1
  /\ VaCon(t, "init_consulta", siguientePid, 0)

\* no_hay_ningun_proceso(): the two lists are read without their mutexes.
ConsultarNEW(t) ==
  /\ hilo[t].en = "init_consulta"
  /\ Va(t, IF cola["NEW"] = <<>> THEN "init_consulta_susp" ELSE "init_a_new")
  /\ UNCHANGED <<planVars, listaCPU, running, timerVars, memVars, respVars,
                 cpuVars, ioVars>>

ConsultarSUSP(t) ==
  /\ hilo[t].en = "init_consulta_susp"
  /\ Va(t, IF cola["SUSP_READY"] = <<>> THEN "crear_envia" ELSE "init_a_new")
  /\ UNCHANGED <<planVars, listaCPU, running, timerVars, memVars, respVars,
                 cpuVars, ioVars>>

InitAgregaNEW(t) ==
  /\ hilo[t].en = "init_a_new"
  /\ agregar_a_NEW(hilo[t].p)
  /\ Queda(t, Reposo(t))
  /\ UNCHANGED <<lista, siguientePid, programCounter, corto, listaCPU, running,
                 timerVars, memVars, respVars, cpuVars, ioVars>>

\* main starts both planners once its INIT_PROC has returned.
ejecutar_planificadores ==
  /\ hilo["main"].en = "arranca"
  /\ hilo' = [hilo EXCEPT !["main"] = Parado("fin"),
                          !["largo"] = Parado("espera"),
                          !["corto"] = Parado("espera")]
  /\ UNCHANGED <<planVars, listaCPU, running, timerVars, memVars, respVars,
                 cpuVars, ioVars>>

-----------------------------------------------------------------------------
(* intentar_enviar_proceso and intentar_desuspender_proceso: send, wait for  *)
(* the answer through a shared flag and semaphore, move the process.         *)

EnviarPedido(t, op) == aMemoria' = Append(aMemoria, [op |-> op, p |-> hilo[t].p])

EnviarCrear(t) ==
  /\ hilo[t].en = "crear_envia"
  /\ EnviarPedido(t, "CREAR")
  /\ Va(t, "crear_espera")
  /\ UNCHANGED <<planVars, listaCPU, running, timerVars, deMemoria, residencia,
                 respVars, cpuVars, ioVars>>

\* Mutant of RespuestaCrear: sem_wait is called but nothing makes it wait.
RespuestaCrear_sin_espera(t) ==
  /\ hilo[t].en = "crear_espera"
  /\ binario' = [binario EXCEPT !["CREAR"] = @ - 1]
  /\ IF respuesta["CREAR"] THEN Va(t, "crear_saca")
     ELSE IF t = "largo" THEN Queda(t, "espera") ELSE Va(t, "init_a_new")
  /\ UNCHANGED <<planVars, listaCPU, running, timerVars, memVars, respuesta,
                 cpuVars, ioVars>>

\* Mutant of RespuestaCrear: the answer is not looked at.
RespuestaCrear_sin_mirar(t) ==
  /\ hilo[t].en = "crear_espera"
  /\ binario["CREAR"] > 0
  /\ binario' = [binario EXCEPT !["CREAR"] = @ - 1]
  /\ Va(t, "crear_saca")
  /\ UNCHANGED <<planVars, listaCPU, running, timerVars, memVars, respuesta,
                 cpuVars, ioVars>>

\* sem_wait and the test of the flag. A refused process is added to NEW by
\* INIT_PROC and simply stays there when the long term planner sent it.
RespuestaCrear(t) ==
  /\ hilo[t].en = "crear_espera"
  /\ binario["CREAR"] > 0
  /\ binario' = [binario EXCEPT !["CREAR"] = @ - 1]
  /\ IF respuesta["CREAR"] THEN Va(t, "crear_saca")
     ELSE IF t = "largo" THEN Queda(t, "espera") ELSE Va(t, "init_a_new")
  /\ UNCHANGED <<planVars, listaCPU, running, timerVars, memVars, respuesta,
                 cpuVars, ioVars>>

SacarDeNEW(t) ==
  /\ hilo[t].en = "crear_saca"
  /\ cola' = [cola EXCEPT !["NEW"] = Saca(@, hilo[t].p)]
  /\ Va(t, "crear_agrega")
  /\ UNCHANGED <<lista, siguientePid, programCounter, largo, corto, listaCPU,
                 running, timerVars, memVars, respVars, cpuVars, ioVars>>

CreadoAReady(t) ==
  /\ hilo[t].en = "crear_agrega"
  /\ agregar_a_READY(hilo[t].p)
  /\ Va(t, "crear_reinicia")
  /\ UNCHANGED <<lista, siguientePid, programCounter, largo, listaCPU, running,
                 timerVars, memVars, respVars, cpuVars, ioVars>>

ReiniciarCrear(t) ==
  /\ hilo[t].en = "crear_reinicia"
  /\ respuesta' = [respuesta EXCEPT !["CREAR"] = FALSE]
  /\ Queda(t, Reposo(t))
  /\ UNCHANGED <<planVars, listaCPU, running, timerVars, memVars, binario,
                 cpuVars, ioVars>>

EnviarDesuspender ==
  /\ hilo["largo"].en = "desus_envia"
  /\ EnviarPedido("largo", "DESUSPENDER")
  /\ Va("largo", "desus_espera")
  /\ UNCHANGED <<planVars, listaCPU, running, timerVars, deMemoria, residencia,
                 respVars, cpuVars, ioVars>>

RespuestaDesuspender ==
  /\ hilo["largo"].en = "desus_espera"
  /\ binario["DESUSPENDER"] > 0
  /\ binario' = [binario EXCEPT !["DESUSPENDER"] = @ - 1]
  /\ IF respuesta["DESUSPENDER"] THEN Va("largo", "desus_agrega")
                                 ELSE Queda("largo", "espera")
  /\ UNCHANGED <<planVars, listaCPU, running, timerVars, memVars, respuesta,
                 cpuVars, ioVars>>

\* Only this thread reads or shrinks SUSP_READY, so taking the process out is
\* one step with adding it to READY.
DesuspendidoAReady ==
  /\ hilo["largo"].en = "desus_agrega"
  /\ LET p == hilo["largo"].p
     IN cola' = Agrega([cola EXCEPT !["SUSP_READY"] = Saca(@, p)], "READY", p)
  /\ corto' = corto + 1
  /\ Va("largo", "desus_reinicia")
  /\ UNCHANGED <<lista, siguientePid, programCounter, largo, listaCPU, running,
                 timerVars, memVars, respVars, cpuVars, ioVars>>

ReiniciarDesuspender ==
  /\ hilo["largo"].en = "desus_reinicia"
  /\ respuesta' = [respuesta EXCEPT !["DESUSPENDER"] = FALSE]
  /\ Queda("largo", "espera")
  /\ UNCHANGED <<planVars, listaCPU, running, timerVars, memVars, binario,
                 cpuVars, ioVars>>

-----------------------------------------------------------------------------
(* The long term planner: SUSP_READY first, then NEW; it tries the head of   *)
(* the list, which PMCP sorts in place first.                                *)

\* list_sort by _tiene_tamanio_mas_chico, which leaves the order of two
\* processes of one size open. FIFO does not sort.
Reordenadas(s) ==
  IF ~PMCP THEN {s}
  ELSE {t \in {[i \in DOMAIN s |-> s[f[i]]] : f \in Bijection(DOMAIN s, DOMAIN s)} :
          \A i, j \in DOMAIN s : i < j => Tamanio[t[i]] <= Tamanio[t[j]]}

LargoDespierta ==
  /\ hilo["largo"].en = "espera"
  /\ largo > 0
  /\ largo' = largo - 1
  /\ Va("largo", IF cola["SUSP_READY"] = <<>> THEN "elige_new" ELSE "elige_susp")
  /\ UNCHANGED <<cola, lista, siguientePid, programCounter, corto, listaCPU,
                 running, timerVars, memVars, respVars, cpuVars, ioVars>>

\* Mutant of Elige: list_remove where the code has list_get, so that a process
\* the memory refuses is no longer in its list.
Elige_quitando(q, envia) ==
  \E s \in Reordenadas(cola[q]) :
    /\ cola' = [cola EXCEPT ![q] = Tail(s)]
    /\ VaCon("largo", envia, Head(s), 0)

Elige(q, envia) ==
  \E s \in Reordenadas(cola[q]) :
    /\ cola' = [cola EXCEPT ![q] = s]
    /\ VaCon("largo", envia, Head(s), 0)

LargoEligeNEW ==
  /\ hilo["largo"].en = "elige_new"
  /\ IF cola["NEW"] = <<>> THEN Queda("largo", "espera") /\ UNCHANGED cola
     ELSE Elige("NEW", "crear_envia")
  /\ UNCHANGED <<lista, siguientePid, programCounter, largo, corto, listaCPU,
                 running, timerVars, memVars, respVars, cpuVars, ioVars>>

LargoEligeSUSP ==
  /\ hilo["largo"].en = "elige_susp"
  /\ Elige("SUSP_READY", "desus_envia")
  /\ UNCHANGED <<lista, siguientePid, programCounter, largo, corto, listaCPU,
                 running, timerVars, memVars, respVars, cpuVars, ioVars>>

-----------------------------------------------------------------------------
(* The short term planner (FIFO) and the table of CPUs.                      *)

Libres == {i \in DOMAIN listaCPU : running[listaCPU[i]] = Nadie}

\* running after liberar_cpu(p): the first CPU of the list that has p.
liberar_cpu(p) ==
  LET I == {i \in DOMAIN listaCPU : running[listaCPU[i]] = p}
  IN IF I = {} THEN running ELSE [running EXCEPT ![listaCPU[Min(I)]] = Nadie]

CortoDespierta ==
  /\ hilo["corto"].en = "espera"
  /\ corto > 0
  /\ corto' = corto - 1
  /\ IF cola["READY"] = <<>> THEN UNCHANGED hilo
     ELSE VaCon("corto", "busca_cpu", Head(cola["READY"]), 0)
  /\ UNCHANGED <<cola, lista, siguientePid, programCounter, largo, listaCPU,
                 running, timerVars, memVars, respVars, cpuVars, ioVars>>

\* enviar_a_cpu: mark the first free CPU and send it the context. With no free
\* CPU the token is spent and the process stays at the head of READY.
enviar_a_cpu ==
  /\ hilo["corto"].en = "busca_cpu"
  /\ LET p == hilo["corto"].p
     IN IF Libres = {}
        THEN /\ Queda("corto", "espera")
             /\ UNCHANGED <<running, cpu>>
        ELSE LET c == listaCPU[Min(Libres)]
             IN /\ running' = [running EXCEPT ![c] = p]
                /\ cpu' = [cpu EXCEPT ![c] = [p |-> p, pc |-> programCounter[p]]]
                /\ Va("corto", "a_exec")
  /\ UNCHANGED <<planVars, listaCPU, timerVars, memVars, respVars, deCpu, ioVars>>

\* Mutant of ReadyAExec: the process is left in READY.
ReadyAExec_sin_sacar ==
  /\ hilo["corto"].en = "a_exec"
  /\ lista' = [lista EXCEPT !["EXEC"] = @ \cup {hilo["corto"].p}]
  /\ Queda("corto", "espera")
  /\ UNCHANGED <<cola, siguientePid, programCounter, largo, corto, listaCPU, running,
                 timerVars, memVars, respVars, cpuVars, ioVars>>

\* READY is read and shrunk by this thread alone, so list_remove_element is one
\* step with agregar_a_EXEC.
ReadyAExec ==
  /\ hilo["corto"].en = "a_exec"
  /\ LET p == hilo["corto"].p
     IN /\ cola' = [cola EXCEPT !["READY"] = Saca(@, p)]
        /\ lista' = [lista EXCEPT !["EXEC"] = @ \cup {p}]
  /\ Queda("corto", "espera")
  /\ UNCHANGED <<siguientePid, programCounter, largo, corto, listaCPU, running,
                 timerVars, memVars, respVars, cpuVars, ioVars>>

\* conectar_cpu: a CPU that connects later joins the list; no planner is woken.
conectar_cpu(c) ==
  /\ c \notin Range(listaCPU)
  /\ listaCPU' = Append(listaCPU, c)
  /\ UNCHANGED <<planVars, hilo, running, timerVars, memVars, respVars, cpuVars,
                 ioVars>>

-----------------------------------------------------------------------------
(* The CPUs, as the kernel sees them: decode() sends the system call with    *)
(* the next pc; INIT_PROC is the only one after which the CPU goes on.       *)

\* How long a fetch takes (RETARDO_MEMORIA) against two list operations.
PuedeLlamar(c) ==
  /\ cpu[c].p # Nadie
  /\ "syscall" \in Carreras \/ ~(hilo["corto"].en = "a_exec" /\ hilo["corto"].p = cpu[c].p)

Llama(c, op, pc) == deCpu' = [deCpu EXCEPT ![c] = Append(@, [op |-> op, p |-> cpu[c].p, pc |-> pc])]

CpuBloqueante(c) ==
  /\ PuedeLlamar(c)
  /\ \/ /\ cpu[c].pc < MaxPc
        /\ \E op \in {"IO", "DUMP"} \cap Instrucciones : Llama(c, op, cpu[c].pc + 1)
     \/ \E op \in {"EXIT"} \cup ({"IO_INEXISTENTE"} \cap Instrucciones) :
          Llama(c, op, cpu[c].pc)
  /\ cpu' = [cpu EXCEPT ![c] = [p |-> Nadie, pc |-> 0]]
  /\ UNCHANGED <<planVars, hilo, listaCPU, running, timerVars, memVars, respVars,
                 ioVars>>

\* Bound: one INIT_PROC in flight per CPU and MaxPid processes in all.
InitsEnCamino == {c \in CPUs : \E i \in DOMAIN deCpu[c] : deCpu[c][i].op = "INIT_PROC"}

CpuInitProc(c) ==
  /\ PuedeLlamar(c)
  /\ "INIT_PROC" \in Instrucciones
  /\ cpu[c].pc < MaxPc
  /\ deCpu[c] = <<>>
  /\ siguientePid + Cardinality(InitsEnCamino) <= MaxPid
  /\ Llama(c, "INIT_PROC", cpu[c].pc)
  /\ cpu' = [cpu EXCEPT ![c].pc = @ + 1]
  /\ UNCHANGED <<planVars, hilo, listaCPU, running, timerVars, memVars, respVars,
                 ioVars>>

-----------------------------------------------------------------------------
(* atender_kernel_cpu_dispatch: one thread per CPU.                          *)

Recibe(c, op) ==
  /\ hilo[c].en = "recibe"
  /\ deCpu[c] # <<>>
  /\ Head(deCpu[c]).op = op
  /\ deCpu' = [deCpu EXCEPT ![c] = Tail(@)]

\* The device exists: free the CPU, then block, then queue for the device.
SysComienzoIO(c) ==
  LET m == Head(deCpu[c])
  IN /\ Recibe(c, "IO")
     /\ running' = liberar_cpu(m.p)
     /\ VaCon(c, "io_bloquea", m.p, m.pc)
     /\ UNCHANGED <<planVars, listaCPU, timerVars, memVars, respVars, cpu, ioVars>>

\* Mutant of exec_a_blocked: the pc of the message is not kept.
exec_a_blocked_sin_pc(p, pc) ==
  IF p \in lista["EXEC"]
  THEN /\ lista' = Mueve("EXEC", "BLOCKED", p)
       /\ dormido' = [dormido EXCEPT ![p] = @ + 1]
       /\ corto' = corto + 1
       /\ UNCHANGED programCounter
  ELSE UNCHANGED <<lista, programCounter, dormido, corto>>

\* exec_a_blocked, under mutex_EXEC: nothing happens when the process is not in
\* EXEC. agregar_a_BLOCKED starts a timer thread and posts.
exec_a_blocked(p, pc) ==
  IF p \in lista["EXEC"]
  THEN /\ lista' = Mueve("EXEC", "BLOCKED", p)
       /\ programCounter' = [programCounter EXCEPT ![p] = pc]
       /\ dormido' = [dormido EXCEPT ![p] = @ + 1]
       /\ corto' = corto + 1
  ELSE UNCHANGED <<lista, programCounter, dormido, corto>>

BloquearPorIO(c) ==
  /\ hilo[c].en = "io_bloquea"
  /\ exec_a_blocked(hilo[c].p, hilo[c].pc)
  /\ Va(c, "io_encola")
  /\ UNCHANGED <<cola, siguientePid, largo, listaCPU, running, aviso, memVars,
                 respVars, cpuVars, ioVars>>

agregar_a_cola_por_IO(c) ==
  /\ hilo[c].en = "io_encola"
  /\ colaIO' = Append(colaIO, hilo[c].p)
  /\ Queda(c, "recibe")
  /\ UNCHANGED <<planVars, listaCPU, running, timerVars, memVars, respVars,
                 cpuVars, enIO>>

SysInitProc(c) ==
  /\ Recibe(c, "INIT_PROC")
  /\ init_proc_pid(c)
  /\ UNCHANGED <<cola, lista, programCounter, largo, corto, listaCPU, running,
                 timerVars, memVars, respVars, cpu, ioVars>>

\* The request leaves before the CPU is freed and the process is blocked.
SysDumpMemory(c) ==
  LET m == Head(deCpu[c])
  IN /\ Recibe(c, "DUMP")
     /\ aMemoria' = Append(aMemoria, [op |-> "DUMP", p |-> m.p])
     /\ VaCon(c, "dump_libera", m.p, m.pc)
     /\ UNCHANGED <<planVars, listaCPU, running, timerVars, deMemoria, residencia,
                    respVars, cpu, ioVars>>

LiberarPorDump(c) ==
  /\ hilo[c].en = "dump_libera"
  /\ running' = liberar_cpu(hilo[c].p)
  /\ Va(c, "dump_bloquea")
  /\ UNCHANGED <<planVars, listaCPU, timerVars, memVars, respVars, cpuVars, ioVars>>

BloquearPorDump(c) ==
  /\ hilo[c].en = "dump_bloquea"
  /\ exec_a_blocked(hilo[c].p, hilo[c].pc)
  /\ Queda(c, "recibe")
  /\ UNCHANGED <<cola, siguientePid, largo, listaCPU, running, aviso, memVars,
                 respVars, cpuVars, ioVars>>

\* SYS_EXIT, and SYS_COMIENZO_IO on a device that does not exist: EXIT_PID.
SysExit(c) ==
  LET m == Head(deCpu[c])
  IN /\ \E op \in {"EXIT", "IO_INEXISTENTE"} : Recibe(c, op)
     /\ aMemoria' = Append(aMemoria, [op |-> "FINALIZAR", p |-> m.p])
     /\ VaCon(c, "exit_espera", m.p, m.pc)
     /\ UNCHANGED <<planVars, listaCPU, running, timerVars, deMemoria, residencia,
                    respVars, cpu, ioVars>>

-----------------------------------------------------------------------------
(* EXIT_PID after the request was sent, run by a dispatch thread.            *)

\* Mutant of RespuestaFinalizar: EXIT_PID does not wait for the memory.
RespuestaFinalizar_sin_espera(c) ==
  /\ hilo[c].en = "exit_espera"
  /\ Va(c, "busca_EXEC")
  /\ UNCHANGED <<planVars, listaCPU, running, timerVars, memVars, respVars,
                 cpuVars, ioVars>>

RespuestaFinalizar(c) ==
  /\ hilo[c].en = "exit_espera"
  /\ binario["FINALIZAR"] > 0
  /\ binario' = [binario EXCEPT !["FINALIZAR"] = @ - 1]
  /\ IF respuesta["FINALIZAR"] THEN Va(c, "busca_EXEC") ELSE Queda(c, "recibe")
  /\ UNCHANGED <<planVars, listaCPU, running, timerVars, memVars, respuesta,
                 cpuVars, ioVars>>

\* buscar_proceso_por_pid: three lists, one mutex at a time. NULL ends the
\* handler with neither the CPU freed nor the flag reset.
Busca(c, en, g, sigue) ==
  LET p == hilo[c].p
  IN /\ hilo[c].en = en
     /\ \/ /\ p \in lista[g]
           /\ lista' = [lista EXCEPT ![g] = @ \ {p}]
           /\ Va(c, "exit_libera")
        \/ /\ p \notin lista[g]
           /\ UNCHANGED lista
           /\ IF sigue = "recibe" THEN Queda(c, sigue) ELSE Va(c, sigue)

buscar_proceso_por_pid(c) ==
  /\ \/ Busca(c, "busca_EXEC", "EXEC", "busca_BLOCKED")
     \/ Busca(c, "busca_BLOCKED", "BLOCKED", "busca_SUSP")
     \/ Busca(c, "busca_SUSP", "SUSP_BLOCKED", "recibe")
  /\ UNCHANGED <<cola, siguientePid, programCounter, largo, corto, listaCPU,
                 running, timerVars, memVars, respVars, cpuVars, ioVars>>

\* Mutant of LiberarYSalir: the CPU is not freed.
LiberarYSalir_sin_liberar(c) ==
  /\ hilo[c].en = "exit_libera"
  /\ agregar_a_EXIT(hilo[c].p)
  /\ Va(c, "exit_reinicia")
  /\ UNCHANGED <<cola, siguientePid, programCounter, listaCPU, running, timerVars,
                 memVars, respVars, cpuVars, ioVars>>

\* liberar_cpu, then agregar_a_EXIT: the EXIT list is never read.
LiberarYSalir(c) ==
  /\ hilo[c].en = "exit_libera"
  /\ running' = liberar_cpu(hilo[c].p)
  /\ agregar_a_EXIT(hilo[c].p)
  /\ Va(c, "exit_reinicia")
  /\ UNCHANGED <<cola, siguientePid, programCounter, listaCPU, timerVars, memVars,
                 respVars, cpuVars, ioVars>>

ReiniciarFinalizar(c) ==
  /\ hilo[c].en = "exit_reinicia"
  /\ respuesta' = [respuesta EXCEPT !["FINALIZAR"] = FALSE]
  /\ Queda(c, "recibe")
  /\ UNCHANGED <<planVars, listaCPU, running, timerVars, memVars, binario,
                 cpuVars, ioVars>>

-----------------------------------------------------------------------------
(* blocked_a_ready: two sections, run by the thread of a device (FIN_IO) and *)
(* by the thread that reads the memory (RESPUESTA_MEMORY_DUMP).              *)

FueraDeVentana(p) == "timer" \in Carreras \/ (p \notin lista["TIMER"] /\ aviso[p] = 0)

DesdeBLOCKED(p) ==
  /\ FueraDeVentana(p)
  /\ IF p \in lista["BLOCKED"]
     THEN /\ lista' = [lista EXCEPT !["BLOCKED"] = @ \ {p}]
          /\ agregar_a_READY(p)
     ELSE UNCHANGED <<cola, lista, corto>>

\* Mutant of DesdeSUSP_BLOCKED: blocked_a_ready only looks in BLOCKED.
DesdeSUSP_BLOCKED_omitido(p) == FueraDeVentana(p) /\ UNCHANGED <<cola, lista, largo>>

DesdeSUSP_BLOCKED(p) ==
  /\ FueraDeVentana(p)
  /\ IF p \in lista["SUSP_BLOCKED"]
     THEN /\ lista' = [lista EXCEPT !["SUSP_BLOCKED"] = @ \ {p}]
          /\ agregar_a_SUSP_READY(p)
     ELSE UNCHANGED <<cola, lista, largo>>

\* atender_cola_espera, in short: a free device takes the first in the queue.
atender_cola_espera(d) ==
  /\ enIO[d] = Nadie
  /\ colaIO # <<>>
  /\ enIO' = [enIO EXCEPT ![d] = Head(colaIO)]
  /\ colaIO' = Tail(colaIO)
  /\ UNCHANGED <<planVars, hilo, listaCPU, running, timerVars, memVars, respVars,
                 cpuVars>>

FinIO(d) ==
  /\ hilo[d].en = "recibe"
  /\ enIO[d] # Nadie
  /\ DesdeBLOCKED(enIO[d])
  /\ VaCon(d, "fin_susp", enIO[d], 0)
  /\ UNCHANGED <<siguientePid, programCounter, largo, listaCPU, running,
                 timerVars, memVars, respVars, cpuVars, ioVars>>

\* The second section, and liberar_io.
FinIOSusp(d) ==
  /\ hilo[d].en = "fin_susp"
  /\ DesdeSUSP_BLOCKED(hilo[d].p)
  /\ Queda(d, "recibe")
  /\ enIO' = [enIO EXCEPT ![d] = Nadie]
  /\ UNCHANGED <<siguientePid, programCounter, corto, listaCPU, running,
                 timerVars, memVars, respVars, cpuVars, colaIO>>

-----------------------------------------------------------------------------
(* manejar_tiempo_blocked: one thread per block.                             *)

\* The timer reads the pid through its PCB pointer. Once the process has
\* exited the PCB is freed, and its memory may hold the PCB of a later process.
LeePid(p) == IF p \in lista["EXIT"] THEN p..(siguientePid - 1) ELSE {p}

TimerVence(p) ==
  /\ dormido[p] > 0
  /\ dormido' = [dormido EXCEPT ![p] = @ - 1]
  /\ \E q \in LeePid(p) :
       lista' = IF q \in lista["BLOCKED"] THEN Mueve("BLOCKED", "TIMER", q) ELSE lista
  /\ UNCHANGED <<cola, siguientePid, programCounter, largo, corto, hilo, listaCPU,
                 running, aviso, memVars, respVars, cpuVars, ioVars>>

TimerSuspende(p) ==
  /\ p \in lista["TIMER"]
  /\ lista' = Mueve("TIMER", "SUSP_BLOCKED", p)
  /\ aviso' = [aviso EXCEPT ![p] = @ + 1]
  /\ UNCHANGED <<cola, siguientePid, programCounter, largo, corto, hilo, listaCPU,
                 running, dormido, memVars, respVars, cpuVars, ioVars>>

\* Mutant of TimerAvisa: the memory is not told.
TimerAvisa_sin_enviar(p) ==
  /\ aviso[p] > 0
  /\ aviso' = [aviso EXCEPT ![p] = @ - 1]
  /\ largo' = largo + 1
  /\ UNCHANGED <<cola, lista, siguientePid, programCounter, corto, hilo, listaCPU,
                 running, dormido, memVars, respVars, cpuVars, ioVars>>

TimerAvisa(p) ==
  /\ aviso[p] > 0
  /\ aviso' = [aviso EXCEPT ![p] = @ - 1]
  /\ \E q \in LeePid(p) : aMemoria' = Append(aMemoria, [op |-> "SUSPENDER", p |-> q])
  /\ largo' = largo + 1
  /\ UNCHANGED <<cola, lista, siguientePid, programCounter, corto, hilo, listaCPU,
                 running, dormido, deMemoria, residencia, respVars, cpuVars, ioVars>>

-----------------------------------------------------------------------------
(* The memory, as the kernel sees it: one request at a time, in order.       *)

Ocupada == MapThenSumSet(LAMBDA p : Tamanio[p], {p \in Pids : residencia[p].marcos})
Entra(p) == Ocupada + Tamanio[p] <= Capacidad

Resp(op, p, ok) == [op |-> op, p |-> p, ok |-> ok]

NoEsta == [lista |-> FALSE, marcos |-> FALSE, swap |-> 0]

\* The answers r and what the process has afterwards, for each request.
\*  - A process with no swap entry, or with no pages to assign, is refused by
\*    desuspender_proceso_de_swap and then accepted by its caller.
\*  - FINALIZAR of a process in swap destroys the entry as if it were a
\*    proceso_t: if the memory survives, the entry is gone and the process is
\*    still listed; if it dies, this is the behaviour where it answers no more.
\*  - The freed structure that a duplicate list_add leaves behind is not found
\*    again: free() overwrites its pid.
Atencion(op, p) ==
  LET x == residencia[p]
  IN CASE op = "CREAR" ->
            IF Entra(p)
            THEN [r |-> <<Resp(op, p, TRUE)>>,
                  x |-> [lista |-> TRUE, marcos |-> TRUE, swap |-> 0]]
            ELSE [r |-> <<Resp(op, p, FALSE)>>, x |-> x]
       [] op = "SUSPENDER" ->
            IF ~x.lista THEN [r |-> <<Resp(op, p, FALSE)>>, x |-> x]
            ELSE [r |-> <<>>, x |-> [x EXCEPT !.marcos = FALSE, !.swap = @ + 1]]
       [] op = "DESUSPENDER" ->
            IF ~x.lista \/ ~Entra(p) THEN [r |-> <<Resp(op, p, FALSE)>>, x |-> x]
            ELSE IF x.swap = 0 \/ Tamanio[p] = 0
            THEN [r |-> <<Resp(op, p, FALSE), Resp(op, p, TRUE)>>, x |-> x]
            ELSE [r |-> <<Resp(op, p, TRUE)>>,
                  x |-> [x EXCEPT !.marcos = TRUE, !.swap = @ - 1]]
       [] op = "FINALIZAR" ->
            [r |-> <<Resp(op, p, x.lista)>>,
             x |-> IF x.swap > 0 /\ Tamanio[p] > 0 THEN [x EXCEPT !.swap = @ - 1]
                   ELSE [x EXCEPT !.lista = FALSE, !.marcos = FALSE]]
       [] op = "DUMP" -> [r |-> <<Resp(op, p, TRUE)>>, x |-> x]

Memoria ==
  /\ aMemoria # <<>>
  /\ LET m == Head(aMemoria)
         a == Atencion(m.op, m.p)
     IN /\ aMemoria' = Tail(aMemoria)
        /\ residencia' = [residencia EXCEPT ![m.p] = a.x]
        /\ \/ deMemoria' = deMemoria \o a.r
           \/ "falla_dump" \in Carreras /\ m.op = "DUMP" /\ UNCHANGED deMemoria
  /\ UNCHANGED <<planVars, hilo, listaCPU, running, timerVars, respVars, cpuVars,
                 ioVars>>

-----------------------------------------------------------------------------
(* atender_kernel_memoria.                                                   *)

RecibeMemoria(ops) ==
  /\ hilo["memoria"].en = "recibe"
  /\ deMemoria # <<>>
  /\ Head(deMemoria).op \in ops
  /\ deMemoria' = Tail(deMemoria)

RespuestaPedido ==
  LET m == Head(deMemoria)
  IN /\ RecibeMemoria(Pedidos)
     /\ respuesta' = [respuesta EXCEPT ![m.op] = m.ok]
     /\ binario' = [binario EXCEPT ![m.op] = @ + 1]
     /\ UNCHANGED <<planVars, hilo, listaCPU, running, timerVars, aMemoria,
                    residencia, cpuVars, ioVars>>

\* The error branch (EXIT_PID in this thread) is not reachable: the memory
\* never sends a failed dump.
RespuestaDump ==
  LET m == Head(deMemoria)
  IN /\ RecibeMemoria({"DUMP"})
     /\ "dump" \in Carreras \/ \A c \in CPUs : hilo[c].p # m.p
     /\ DesdeBLOCKED(m.p)
     /\ VaCon("memoria", "fin_susp", m.p, 0)
     /\ UNCHANGED <<siguientePid, programCounter, largo, listaCPU, running,
                    timerVars, aMemoria, residencia, respVars, cpuVars, ioVars>>

RespuestaDumpSusp ==
  /\ hilo["memoria"].en = "fin_susp"
  /\ DesdeSUSP_BLOCKED(hilo["memoria"].p)
  /\ Queda("memoria", "recibe")
  /\ UNCHANGED <<siguientePid, programCounter, corto, listaCPU, running,
                 timerVars, memVars, respVars, cpuVars, ioVars>>

\* RESPUESTA_SUSPENDER_PROCESO_KM has no case: its payload stays in the socket,
\* is read as operation codes, and the -1 of the error is taken for the memory's
\* disconnection, which ends this thread (and, with it, main).
RespuestaDesconocida ==
  /\ RecibeMemoria({"SUSPENDER"})
  /\ Queda("memoria", "fin")
  /\ UNCHANGED <<planVars, listaCPU, running, timerVars, aMemoria, residencia,
                 respVars, cpuVars, ioVars>>

-----------------------------------------------------------------------------
Init ==
  /\ cola = [q \in Estados |-> <<>>]
  /\ lista = [g \in Grupos |-> {}]
  /\ siguientePid = 2
  /\ programCounter = [p \in Pids |-> 0]
  /\ largo = 0 /\ corto = 0
  /\ hilo = [t \in Hilos |->
               IF t = "main" THEN [en |-> "init_consulta", p |-> 1, pc |-> 0]
               ELSE Parado(IF t \in {"largo", "corto"} THEN "apagado" ELSE "recibe")]
  /\ listaCPU = CpusAlInicio
  /\ running = [c \in CPUs |-> Nadie]
  /\ dormido = [p \in Pids |-> 0] /\ aviso = [p \in Pids |-> 0]
  /\ aMemoria = <<>> /\ deMemoria = <<>>
  /\ respuesta = [o \in Pedidos |-> FALSE] /\ binario = [o \in Pedidos |-> 0]
  /\ residencia = [p \in Pids |-> NoEsta]
  /\ cpu = [c \in CPUs |-> [p |-> Nadie, pc |-> 0]]
  /\ deCpu = [c \in CPUs |-> <<>>]
  /\ colaIO = <<>> /\ enIO = [d \in Ios |-> Nadie]

\* INIT_PROC and intentar_enviar_proceso, by any thread that runs them.
Creacion(t) ==
  \/ ConsultarNEW(t) \/ ConsultarSUSP(t) \/ InitAgregaNEW(t)
  \/ EnviarCrear(t) \/ RespuestaCrear(t) \/ SacarDeNEW(t) \/ CreadoAReady(t)
  \/ ReiniciarCrear(t)

Largo ==
  \/ LargoDespierta \/ LargoEligeNEW \/ LargoEligeSUSP
  \/ EnviarDesuspender \/ RespuestaDesuspender \/ DesuspendidoAReady
  \/ ReiniciarDesuspender

Corto == CortoDespierta \/ enviar_a_cpu \/ ReadyAExec

Dispatch(c) ==
  \/ SysComienzoIO(c) \/ BloquearPorIO(c) \/ agregar_a_cola_por_IO(c)
  \/ SysInitProc(c)
  \/ SysDumpMemory(c) \/ LiberarPorDump(c) \/ BloquearPorDump(c)
  \/ SysExit(c) \/ RespuestaFinalizar(c) \/ buscar_proceso_por_pid(c)
  \/ LiberarYSalir(c) \/ ReiniciarFinalizar(c)

Cpu(c) == CpuBloqueante(c) \/ CpuInitProc(c)

IO(d) == atender_cola_espera(d) \/ FinIO(d) \/ FinIOSusp(d)

Timer(p) == TimerVence(p) \/ TimerSuspende(p) \/ TimerAvisa(p)

RespuestasMemoria ==
  \/ RespuestaPedido \/ RespuestaDump \/ RespuestaDumpSusp \/ RespuestaDesconocida

Next ==
  \/ \E t \in {"main", "largo"} \cup CPUs : Creacion(t)
  \/ ejecutar_planificadores
  \/ Largo
  \/ Corto
  \/ \E c \in CPUs : Dispatch(c) \/ Cpu(c) \/ conectar_cpu(c)
  \/ \E d \in Ios : IO(d)
  \/ \E p \in Pids : Timer(p)
  \/ Memoria
  \/ RespuestasMemoria

Spec == Init /\ [][Next]_vars

\* The operating system runs every thread that can run and delivers what was
\* sent; programs end, devices answer, timers expire, the memory answers.
\* Nothing is asked of INIT_PROC calls and of late connections.
Justicia ==
  /\ \A t \in {"main", "largo"} \cup CPUs : WF_vars(Creacion(t))
  /\ WF_vars(ejecutar_planificadores)
  /\ WF_vars(Largo) /\ WF_vars(Corto)
  /\ \A c \in CPUs : WF_vars(Dispatch(c)) /\ WF_vars(CpuBloqueante(c))
  /\ \A d \in Ios : WF_vars(IO(d))
  /\ \A p \in Pids : WF_vars(Timer(p))
  /\ WF_vars(Memoria) /\ WF_vars(RespuestasMemoria)

FairSpec == Spec /\ Justicia

-----------------------------------------------------------------------------
(* Properties *)

Pc == 0..MaxPc
PidONadie == Pids \cup {Nadie}
Etiquetas ==
  {"init_consulta", "init_consulta_susp", "init_a_new", "arranca", "apagado",
   "crear_envia", "crear_espera", "crear_saca", "crear_agrega", "crear_reinicia",
   "desus_envia", "desus_espera", "desus_agrega", "desus_reinicia",
   "espera", "elige_new", "elige_susp", "busca_cpu", "a_exec", "recibe",
   "io_bloquea", "io_encola", "dump_libera", "dump_bloquea", "exit_espera",
   "busca_EXEC", "busca_BLOCKED", "busca_SUSP", "exit_libera", "exit_reinicia",
   "fin_susp", "fin"}
Ociosas == {"arranca", "apagado", "espera", "elige_new", "elige_susp", "recibe", "fin"}
Peticiones == [op : {"CREAR", "SUSPENDER", "DESUSPENDER", "FINALIZAR", "DUMP"}, p : Pids]
Respuestas == [op : {"CREAR", "SUSPENDER", "DESUSPENDER", "FINALIZAR", "DUMP"},
               p : Pids, ok : BOOLEAN]
Llamadas == [op : {"IO", "DUMP", "INIT_PROC", "IO_INEXISTENTE", "EXIT"}, p : Pids, pc : Pc]

TiposPlan ==
  /\ cola \in [Estados -> Seq(Pids)]
  /\ lista \in [Grupos -> SUBSET Pids]
  /\ siguientePid \in 1..(MaxPid + 1)
  /\ programCounter \in [Pids -> Pc]
  /\ largo \in Nat /\ corto \in Nat

TiposHilo ==
  /\ hilo \in [Hilos -> [en : Etiquetas, p : PidONadie, pc : Pc]]
  /\ \A t \in Hilos : hilo[t].en \notin Ociosas => hilo[t].p \in Pids

TiposCPU ==
  /\ listaCPU \in Seq(CPUs)
  /\ running \in [CPUs -> PidONadie]
  /\ cpu \in [CPUs -> [p : PidONadie, pc : Pc]]
  /\ deCpu \in [CPUs -> Seq(Llamadas)]

TiposTimer == dormido \in [Pids -> Nat] /\ aviso \in [Pids -> Nat]

TiposMem ==
  /\ aMemoria \in Seq(Peticiones) /\ deMemoria \in Seq(Respuestas)
  /\ residencia \in [Pids -> [lista : BOOLEAN, marcos : BOOLEAN, swap : Nat]]

TiposResp == respuesta \in [Pedidos -> BOOLEAN] /\ binario \in [Pedidos -> Nat]

TiposIO == colaIO \in Seq(Pids) /\ enIO \in [Ios -> PidONadie]

\* Every variable has its type: the lists hold PCBs, the counters are the values
\* of semaphores, and a thread that is not idle carries a process.
TypeOK ==
  TiposPlan /\ TiposHilo /\ TiposCPU /\ TiposTimer /\ TiposMem /\ TiposResp /\ TiposIO

\* The PCB a thread has taken out of one list and not yet put in another.
EnMano(t) ==
  IF t = "largo" THEN {"crear_agrega"}
  ELSE {"init_consulta", "init_consulta_susp", "init_a_new", "crear_envia",
        "crear_espera", "crear_saca", "crear_agrega", "exit_libera"}

Lugar == Estados \cup Grupos \cup Hilos

En(x, p) ==
  \/ x \in Estados /\ p \in Range(cola[x])
  \/ x \in Grupos /\ p \in lista[x]
  \/ x \in Hilos /\ hilo[x].p = p /\ hilo[x].en \in EnMano(x)

\* No interleaving of the threads loses a PCB or files it twice: a created
\* process is in exactly one list, once, or in the hand of one thread
\* (list_add / list_remove pairs of planificadores.c under separate mutexes).
UnSoloLugar ==
  /\ \A q \in Estados : IsInjective(cola[q])
  /\ \A p \in Pids :
       IF p < siguientePid
       THEN \E x \in Lugar : En(x, p) /\ \A y \in Lugar \ {x} : ~En(y, p)
       ELSE \A x \in Lugar : ~En(x, p)

\* A planner reads the head of a list, lets its mutex go and takes the process
\* out much later, after the answer of the memory or of the table of CPUs:
\* nobody else takes it out in between, and the list it found not to be empty
\* is still not empty when it reads its head (intentar_enviar_proceso,
\* intentar_desuspender_proceso, corto_plazo_FIFO_READY).
PunteroVigente ==
  /\ hilo["largo"].en \in {"crear_envia", "crear_espera", "crear_saca"}
       => hilo["largo"].p \in Range(cola["NEW"])
  /\ hilo["largo"].en \in {"desus_envia", "desus_espera", "desus_agrega"}
       => hilo["largo"].p \in Range(cola["SUSP_READY"])
  /\ hilo["largo"].en = "elige_susp" => cola["SUSP_READY"] # <<>>
  /\ hilo["corto"].en \in {"busca_cpu", "a_exec"}
       => hilo["corto"].p \in Range(cola["READY"])

\* A process is given to one CPU at a time: never marked on two nodes of
\* lista_CPU, never executing on two CPUs.
UnaCpuPorProceso ==
  \A c, d \in CPUs : c # d => /\ running[c] # Nadie => running[c] # running[d]
                              /\ cpu[c].p # Nadie => cpu[c].p # cpu[d].p

\* The lists refine the seven-state life cycle of a process. A PCB in the hand
\* of a thread is still where it was taken from, except in EXIT_PID.
EstadoDe(p) ==
  IF p >= siguientePid THEN "SIN_CREAR"
  ELSE IF \E q \in {"READY", "SUSP_READY"} : p \in Range(cola[q])
       THEN CHOOSE q \in {"READY", "SUSP_READY"} : p \in Range(cola[q])
  ELSE IF \E g \in Grupos \ {"TIMER"} : p \in lista[g]
       THEN CHOOSE g \in Grupos \ {"TIMER"} : p \in lista[g]
  ELSE IF p \in lista["TIMER"] THEN "BLOCKED"
  ELSE IF \E c \in CPUs : hilo[c].p = p /\ hilo[c].en = "exit_libera" THEN "EXIT"
  ELSE "NEW"

Ciclo == INSTANCE CicloDeVida WITH estado <- [p \in Pids |-> EstadoDe(p)],
                                   pc <- programCounter

\* Every step of every thread is one arrow of the life cycle or none, and a
\* process that blocked goes on after the system call it blocked on.
ImplementaCicloDeVida == Ciclo!Spec

\* When a process has been filed in EXIT no CPU is marked as running it.
SalidaLiberaCpu == \A p \in lista["EXIT"] : \A c \in CPUs : running[c] # p

\* ... and the memory has given back its frames.
SalidaLiberaMemoria == \A p \in lista["EXIT"] : ~residencia[p].marcos

\* Whoever is blocked has someone that will wake it: a place in the queue of the
\* devices, a device working for it, or a dump on its way
\* (kernel_memoria.c:71-74, kernel_io.c:11-18).
Pendiente(p) ==
  \/ p \in Range(colaIO)
  \/ \E d \in Ios : enIO[d] = p
  \/ \E c \in CPUs : hilo[c].p = p /\ hilo[c].en = "io_encola"
  \/ \E m \in Range(aMemoria) \cup Range(deMemoria) : m.op = "DUMP" /\ m.p = p
  \/ hilo["memoria"].en = "fin_susp" /\ hilo["memoria"].p = p

BloqueadoConMotivo ==
  \A p \in lista["BLOCKED"] \cup lista["TIMER"] \cup lista["SUSP_BLOCKED"] : Pendiente(p)

ConMarcos(p) == residencia[p].marcos \/ Tamanio[p] = 0

\* What may run or be resumed at once is in main memory: a process is moved to
\* READY only when the memory said so (intentar_enviar_proceso,
\* intentar_desuspender_proceso).
EjecutableEnMemoria ==
  /\ \A p \in Range(cola["READY"]) \cup lista["BLOCKED"] : ConMarcos(p)
  /\ \A c \in CPUs : cpu[c].p # Nadie => ConMarcos(cpu[c].p)

\* A suspended process holds no frames, but for the time the memory takes to
\* hear of it or the long term planner to bring it back (manejar_tiempo_blocked).
SuspendidoSinMarcos ==
  \A p \in lista["SUSP_BLOCKED"] \cup Range(cola["SUSP_READY"]) :
    residencia[p].marcos =>
      \/ hilo["largo"].p = p
      \/ aviso[p] > 0
      \/ \E m \in Range(aMemoria) : m.p = p

Quieto(t) == hilo[t].en = Reposo(t)

\* One token per event is enough for the short term planner: it never sleeps
\* with a process in READY and a CPU, connected from the start, free. Not so when
\* a system call overtakes the filing of its process in EXEC: exec_a_blocked then
\* finds nothing to move and posts nothing (planificadores.c:432).
SinTrabajoPerdido ==
  (corto = 0 /\ \A t \in {"corto"} \cup CPUs : Quieto(t))
    => cola["READY"] = <<>> \/ \A c \in Range(CpusAlInicio) : running[c] # Nadie

\* ... and for the long term planner when all processes have one size: it never
\* sleeps with room for the process it would choose.
MemoriaQuieta == aMemoria = <<>> /\ deMemoria = <<>> /\ \A o \in Pedidos : binario[o] = 0
AdmisionSinEspera ==
  (largo = 0 /\ MemoriaQuieta /\ \A t \in {"largo"} \cup CPUs : Quieto(t))
    => LET q == IF cola["SUSP_READY"] = <<>> THEN "NEW" ELSE "SUSP_READY"
       IN cola[q] = <<>> \/ ~Entra(Head(cola[q]))

\* Every process ends: neither a lost wake-up, nor a CPU never freed, nor a
\* process passed over for ever.
TodosTerminan == \A p \in Pids : p < siguientePid ~> p \in lista["EXIT"]

=============================================================================
